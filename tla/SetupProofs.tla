----------------------------- MODULE SetupProofs -----------------------------
(***************************************************************************)
(* Proofs that a machine keeps the keys its uploads were encrypted to,     *)
(* that the migration of a version 1 configuration leaves no state behind, *)
(* and that it is scheduled once and doctor sees it: for any number of     *)
(* commands, wizards, links, readers' interleavings and kills, on any      *)
(* platform.                                                               *)
(***************************************************************************)
EXTENDS Setup, TLAPS

(* A recipient whose key is in a kit, or none.                             *)
Safe(k) == k \in kits \cup {0}

(* Every recipient the configuration names, has named, or will be given by *)
(* a command that has read or chosen it, is in a kit.                      *)
Secured ==
    /\ used \subseteq kits
    /\ config # None => Safe(config.recipient)
    /\ link # None => Safe(link.recipient)
    /\ \A r \in Readers : loads[r] # None => Safe(loads[r].seen.recipient)
    /\ cmd # None => cmd.at = "deliver" \/ Safe(cmd.key)

(* The pieces of state before the n-th are at their new place.             *)
Moved(n, places) == \A i \in 1..3 : i < n => places[Items[i]] = {"current"}

(* The command is past its loadConfig, and the configuration is of today.  *)
Today == config # None /\ config.v = 2
Uninstalling(c) == c.op = "uninstall" /\ c.at \in Stages

Migrated ==
    /\ config = None => ~left.legacy
    /\ config # None /\ ~left.legacy => config.v = 2
    /\ left.legacy => \A i \in ItemNames : ledger[i] # {}
    /\ left.legacy /\ Today => Moved(4, ledger)
    /\ \A r \in Readers : loads[r] # None =>
           left.legacy /\ Moved(loads[r].item, ledger) /\ (loads[r].move => loads[r].item # 4)
    /\ loads["cli"] # None => cmd # None /\ cmd.at = "load"
    /\ link # None => Today /\ link.v = 2
    /\ cmd # None => Uninstalling(cmd) \/ cmd.at \in {"load", "write"} \/ Today

SetupInv == TypeOK /\ Secured /\ Migrated

Loads == [seen : Configurations, item : 1..4, move : BOOLEAN]

-----------------------------------------------------------------------------
LEMMA SpendKeeps ==
    ASSUME left \in InstanceTypes, NEW what \in Counters, Spend(what)
    PROVE  left' \in InstanceTypes /\ left'.legacy = left.legacy
<1>. DEFINE n == left[what] - 1
<1>1. left[what] \in Nat /\ left[what] > 0
  BY DEF Spend, InstanceTypes, Counters
<1>2. n \in Nat /\ left' = [left EXCEPT ![what] = n]
  BY <1>1 DEF Spend
<1>. HIDE DEF n
<1>. QED
  BY <1>2 DEF InstanceTypes, Counters

(* A step that saves no configuration and moves no state.                  *)
LEMMA Carries ==
    ASSUME SetupInv, left' \in InstanceTypes, left'.legacy = left.legacy,
           config' = config, link' = link, used' = used, ledger' = ledger,
           resident' \in Nat, kits \subseteq kits', kits' \subseteq Nat,
           loads' \in [Readers -> Loads \cup {None}], \A r \in Readers : loads'[r] \in {loads[r], None},
           cmd' \in Running \cup {None}, loads'["cli"] # None => cmd' = cmd,
           (cmd' # None => cmd'.at = "deliver" \/ cmd'.key \in kits' \cup {0}),
           (cmd' # None => Uninstalling(cmd') \/ cmd'.at \in {"load", "write"} \/ Today)
    PROVE  SetupInv'
<1>1. TypeOK'
  BY DEF SetupInv, TypeOK, Loads
<1>2. Secured'
  BY DEF SetupInv, Secured, Safe
<1>3. Migrated'
  <2>1. (Today <=> Today') /\ \A n \in Nat : Moved(n, ledger) <=> Moved(n, ledger')
    BY DEF Today, Moved
  <2>2. \A r \in Readers : loads[r] # None => loads[r].item \in Nat
    BY DEF SetupInv, TypeOK
  <2>. QED
    BY <2>1, <2>2 DEF SetupInv, Migrated, Readers
<1>. QED
  BY <1>1, <1>2, <1>3 DEF SetupInv

(* A step that saves a configuration of today's version.                   *)
LEMMA Saves ==
    ASSUME SetupInv, left' \in InstanceTypes, left'.legacy = left.legacy,
           NEW c \in Configurations, c.v = 2, Safe(c.recipient), SaveConfig(c),
           left.legacy => Moved(4, ledger),
           link' = link \/ link' = None, ledger' = ledger, resident' = resident, kits' = kits,
           loads' \in [Readers -> Loads \cup {None}], \A r \in Readers : loads'[r] \in {loads[r], None},
           cmd' \in Running \cup {None}, loads'["cli"] # None => cmd' = cmd,
           (cmd' # None => cmd'.at = "deliver" \/ cmd'.key \in kits \cup {0})
    PROVE  SetupInv'
<1>1. config' = c /\ used' = used \cup ({c.recipient} \ {0}) /\ c # None
  BY InstancesAssumption DEF SaveConfig
<1>2. c.recipient \in Nat
  BY DEF Configurations
<1>3. TypeOK'
  BY <1>1, <1>2 DEF SetupInv, TypeOK, Loads
<1>4. Secured'
  BY <1>1 DEF SetupInv, Secured, Safe
<1>5. Today'
  BY <1>1 DEF Today
<1>6. \A n \in Nat : Moved(n, ledger) <=> Moved(n, ledger')
  BY DEF Moved
<1>7. \A r \in Readers : loads[r] # None => loads[r].item \in Nat
  BY DEF SetupInv, TypeOK
<1>9. Migrated'
  BY <1>1, <1>5, <1>6, <1>7 DEF SetupInv, Migrated, Readers
<1>. QED
  BY <1>3, <1>4, <1>9 DEF SetupInv

(* A configuration that is absent or of today has no state left behind.    *)
LEMMA TodayIsMoved ==
    ASSUME SetupInv, config # None => config.v = 2
    PROVE  left.legacy => Moved(4, ledger)
BY DEF SetupInv, Migrated, Today

(* A step of a command that leaves the configuration alone: it goes on, or *)
(* ends.                                                                   *)
LEMMA CommandKeeps ==
    ASSUME SetupInv, setupVars' = setupVars, left' \in InstanceTypes, left'.legacy = left.legacy,
           cmd # None, cmd.at # "load",
           \/ cmd' = None
           \/ /\ cmd.at \notin {"write", "deliver"}
              /\ \E stage \in Stages : cmd' = [cmd EXCEPT !.at = stage]
    PROVE  SetupInv'
<1>1. /\ config' = config /\ resident' = resident /\ kits' = kits /\ used' = used /\ ledger' = ledger
      /\ loads' = loads /\ link' = link
  BY DEF setupVars
<1>2. loads["cli"] = None
  BY DEF SetupInv, Migrated
<1>3. cmd \in Running
  BY DEF SetupInv, TypeOK
<1>4. CASE cmd' = None
  BY <1>1, <1>2, <1>4, Carries DEF SetupInv, TypeOK, Loads, Readers
<1>5. ASSUME NEW stage \in Stages, cmd' = [cmd EXCEPT !.at = stage],
             cmd.at \notin {"write", "deliver"}
      PROVE  SetupInv'
  <2>1. cmd' \in Running /\ cmd'.at = stage /\ cmd'.key = cmd.key /\ cmd'.op = cmd.op
    BY <1>3, <1>5 DEF Running, Stages
  <2>2. cmd.key \in kits \cup {0} /\ (Uninstalling(cmd') \/ Today)
    BY <1>5, <2>1 DEF SetupInv, Secured, Migrated, Safe, Uninstalling
  <2>. QED
    BY <1>1, <1>2, <2>1, <2>2, Carries DEF SetupInv, TypeOK, Loads, Readers
<1>. QED
  BY <1>4, <1>5

(* A step of the schedule leads to another one, or ends the command.       *)
Onward == cmd # None /\ cmd.at \in Stages /\ ((\E stage \in Stages : Goto(stage)) \/ \E ok \in BOOLEAN : End(ok))

LEMMA StageMoves ==
    ASSUME cmd # None, cmd.at \in Stages, NEW stage \in Stages, Goto(stage)
    PROVE  Onward
BY DEF Onward

LEMMA StageEnds ==
    ASSUME cmd # None, cmd.at \in Stages, NEW ok \in BOOLEAN, End(ok)
    PROVE  Onward
BY DEF Onward

LEMMA ScheduleGoesOnward ==
    ASSUME ScheduleStep
    PROVE  Onward
<1>. USE StageMoves, StageEnds DEF At, Fail, Stages
<1>1. CASE InstallInitSchedule
  <2>1. Goto("deactivate") \/ Goto("install")
    BY <1>1 DEF InstallInitSchedule
  <2>. QED
    BY <1>1, <2>1 DEF InstallInitSchedule
<1>2. CASE DeactivateLaunchd
  BY <1>2 DEF DeactivateLaunchd
<1>3. CASE DisableTimer
  BY <1>3 DEF DisableTimer
<1>4. CASE StripActivatedCron
  <2>1. Goto("remove") \/ Goto("unmark") \/ End(FALSE)
    BY <1>4 DEF StripActivatedCron
  <2>. QED
    BY <1>4, <2>1 DEF StripActivatedCron
<1>5. CASE Unmark
  BY <1>5 DEF Unmark
<1>6. CASE InstallSchedule
  <2>1. Goto("activate") \/ Goto("scheduled")
    BY <1>6 DEF InstallSchedule
  <2>. QED
    BY <1>6, <2>1 DEF InstallSchedule
<1>7. CASE ActivateLaunchd
  BY <1>7 DEF ActivateLaunchd
<1>8. CASE ActivateSystemd
  BY <1>8 DEF ActivateSystemd
<1>9. CASE StripInstalledCron
  BY <1>9 DEF StripInstalledCron
<1>10. CASE ActivateCron
  BY <1>10 DEF ActivateCron
<1>11. CASE DropUnits
  BY <1>11 DEF DropUnits
<1>12. CASE ActivateSchedule
  BY <1>12 DEF ActivateSchedule
<1>13. CASE UninstallLaunchd
  BY <1>13 DEF UninstallLaunchd
<1>14. CASE RemoveArtifacts
  BY <1>14 DEF RemoveArtifacts
<1>15. CASE UninstallLinux
  BY <1>15 DEF UninstallLinux
<1>. QED
  BY <1>1, <1>2, <1>3, <1>4, <1>5, <1>6, <1>7, <1>8, <1>9, <1>10, <1>11, <1>12, <1>13, <1>14, <1>15
     DEF ScheduleStep

LEMMA ScheduleKeeps ==
    ASSUME SetupInv, ScheduleStep
    PROVE  SetupInv'
<1>1. setupVars' = setupVars /\ left' = left /\ left \in InstanceTypes
  BY DEF ScheduleStep, SetupInv, TypeOK
<1>2. Onward
  BY ScheduleGoesOnward
<1>3. cmd.at \notin {"load", "write", "deliver"}
  BY <1>2 DEF Onward, Stages
<1>4. CASE cmd' = None
  BY <1>1, <1>2, <1>3, <1>4, CommandKeeps DEF Onward
<1>5. ASSUME NEW stage \in Stages, Goto(stage)
      PROVE  SetupInv'
  <2>1. cmd' = [cmd EXCEPT !.at = stage]
    BY <1>5 DEF Goto
  <2>. QED
    BY <1>1, <1>2, <1>3, <2>1, CommandKeeps DEF Onward
<1>. QED
  BY <1>2, <1>4, <1>5 DEF Onward, End

-----------------------------------------------------------------------------
(* The readers of the configuration, and the migration.                    *)
LEMMA ReaderSteps ==
    ASSUME SetupInv, NEW r \in Readers, loads[r] # None
    PROVE  /\ loads[r] \in Loads /\ loads[r].item \in 1..4 /\ left.legacy /\ Moved(loads[r].item, ledger)
           /\ (loads[r].move => loads[r].item # 4)
           /\ (r = "cli" => cmd \in Running /\ cmd # None /\ cmd.at = "load")
<1>1. loads[r] \in Loads
  BY DEF SetupInv, TypeOK, Loads
<1>. QED
  BY <1>1 DEF SetupInv, TypeOK, Loads, Migrated, Readers

(* A reader that knows a version 1 configuration goes on.                  *)
LEMMA ReadsOn ==
    ASSUME SetupInv, NEW r \in Readers, NEW l \in Loads, loads' = [loads EXCEPT ![r] = l],
           left.legacy, Moved(l.item, ledger'), l.move => l.item # 4, Safe(l.seen.recipient),
           (r = "cli" => cmd # None /\ cmd.at = "load"),
           cmd' = cmd, left' = left, config' = config, link' = link, used' = used, resident' = resident,
           kits' = kits, ledger' \in [ItemNames -> {{}, {"legacy"}, {"current"}}],
           \A i \in ItemNames : ledger'[i] = ledger[i] \/ ledger'[i] = {"current"}
    PROVE  SetupInv'
<1>1. loads' \in [Readers -> Loads \cup {None}] /\ \A q \in Readers : q # r => loads'[q] = loads[q]
  BY DEF SetupInv, TypeOK, Loads
<1>2. loads'[r] = l
  BY DEF SetupInv, TypeOK
<1>3. TypeOK'
  BY <1>1 DEF SetupInv, TypeOK, Loads
<1>4. Secured'
  BY <1>1, <1>2 DEF SetupInv, Secured, Safe
<1>5. \A n \in Nat : Moved(n, ledger) => Moved(n, ledger')
  BY DEF Moved, Items, ItemNames
<1>6. \A q \in Readers : loads[q] # None => loads[q].item \in Nat
  BY DEF SetupInv, TypeOK
<1>7. Migrated'
  <2>1. Today <=> Today'
    BY DEF Today
  <2>2. \A q \in Readers : loads'[q] # None =>
            left'.legacy /\ Moved(loads'[q].item, ledger') /\ (loads'[q].move => loads'[q].item # 4)
    BY <1>1, <1>2, <1>5, <1>6 DEF SetupInv, Migrated
  <2>3. loads'["cli"] # None => cmd' # None /\ cmd'.at = "load"
    BY <1>1, <1>2 DEF SetupInv, Migrated, Readers
  <2>4. left'.legacy => \A i \in ItemNames : ledger'[i] # {}
    BY DEF SetupInv, Migrated
  <2>. QED
    BY <1>5, <2>1, <2>2, <2>3, <2>4 DEF SetupInv, Migrated
<1>. QED
  BY <1>3, <1>4, <1>7 DEF SetupInv

LEMMA LoadConfigKeeps ==
    ASSUME SetupInv, NEW r \in Readers, LoadConfig(r)
    PROVE  SetupInv'
<1>0. /\ left' = left /\ config' = config /\ resident' = resident /\ kits' = kits /\ used' = used
      /\ ledger' = ledger /\ link' = link
      /\ TypeOK /\ loads[r] = None /\ (r = "cli" => cmd # None /\ cmd.at = "load")
  BY DEF LoadConfig, At, SetupInv
<1>1. CASE config # None /\ config.v = 1
  <2>. DEFINE l == [seen |-> config, item |-> 1, move |-> FALSE]
  <2>1. loads' = [loads EXCEPT ![r] = l] /\ cmd' = cmd
    BY <1>1 DEF LoadConfig
  <2>2. l \in Loads /\ l.item = 1 /\ l.seen = config /\ ~l.move
    BY <1>0, <1>1 DEF TypeOK, Loads
  <2>. HIDE DEF l
  <2>3. left.legacy /\ Safe(l.seen.recipient)
    BY <1>1, <2>2 DEF SetupInv, Migrated, Secured
  <2>4. Moved(l.item, ledger')
    BY <2>2 DEF Moved
  <2>. QED
    BY <1>0, <2>1, <2>2, <2>3, <2>4, ReadsOn DEF TypeOK
<1>2. CASE ~(config # None /\ config.v = 1)
  <2>. DEFINE recipient == IF config = None THEN 0 ELSE config.recipient
              next == [cmd EXCEPT !.at = "write", !.recipient = recipient]
  <2>1. r = "cli" /\ loads' = loads /\ cmd' = next
    BY <1>2 DEF LoadConfig, Loaded
  <2>2. recipient \in Nat /\ cmd \in Running
    BY <1>0, <2>1 DEF TypeOK, Configurations
  <2>. HIDE DEF recipient
  <2>3. next \in Running /\ next.at = "write" /\ next.key = cmd.key
    BY <2>2 DEF Running
  <2>4. cmd.key \in kits \cup {0}
    BY <1>0, <2>1 DEF SetupInv, Secured, Safe
  <2>. HIDE DEF next
  <2>. QED
    BY <1>0, <2>1, <2>3, <2>4, Carries DEF TypeOK, Loads, Readers
<1>. QED
  BY <1>1, <1>2

LEMMA NextItemMoves ==
    ASSUME SetupInv, NEW r \in Readers, loads[r] # None, loads[r].item \in 1..3
    PROVE  \E l \in Loads : /\ NextItem(r) = [loads EXCEPT ![r] = l]
                             /\ l.item = loads[r].item + 1 /\ l.seen = loads[r].seen /\ ~l.move
<1>1. loads[r] \in Loads
  BY ReaderSteps
<1>. DEFINE item == loads[r].item + 1
            l == [loads[r] EXCEPT !.item = item, !.move = FALSE]
<1>2. item \in 1..4
  OBVIOUS
<1>3. NextItem(r) = [loads EXCEPT ![r] = l]
  BY DEF NextItem
<1>4. l \in Loads /\ l.item = item /\ l.seen = loads[r].seen /\ ~l.move
  <2>. HIDE DEF item
  <2>. QED
    BY <1>1, <1>2 DEF Loads
<1>. QED
  BY <1>3, <1>4

LEMMA LookForStateKeeps ==
    ASSUME SetupInv, NEW r \in Readers, LookForState(r)
    PROVE  SetupInv'
<1>0. /\ left' = left /\ config' = config /\ resident' = resident /\ kits' = kits /\ used' = used
      /\ ledger' = ledger /\ link' = link /\ cmd' = cmd
      /\ TypeOK /\ loads[r] # None /\ loads[r].item \in 1..3
  BY DEF LookForState, schedulerVars, SetupInv, Items
<1>1. /\ loads[r] \in Loads /\ left.legacy /\ Moved(loads[r].item, ledger) /\ Safe(loads[r].seen.recipient)
      /\ (r = "cli" => cmd # None /\ cmd.at = "load")
  BY <1>0, ReaderSteps DEF SetupInv, Secured
<1>2. CASE "legacy" \in ledger[Item(r)]
  <2>. DEFINE l == [loads[r] EXCEPT !.move = TRUE]
  <2>1. loads' = [loads EXCEPT ![r] = l]
    BY <1>2 DEF LookForState
  <2>2. l \in Loads /\ l.item = loads[r].item /\ l.seen = loads[r].seen
    BY <1>1 DEF Loads
  <2>. HIDE DEF l
  <2>3. Moved(l.item, ledger')
    BY <1>0, <1>1, <2>2 DEF Moved
  <2>4. l.item # 4
    BY <1>0, <2>2
  <2>. QED
    BY <1>0, <1>1, <2>1, <2>2, <2>3, <2>4, ReadsOn DEF TypeOK
<1>3. CASE "legacy" \notin ledger[Item(r)]
  <2>1. PICK l \in Loads : /\ NextItem(r) = [loads EXCEPT ![r] = l]
                            /\ l.item = loads[r].item + 1 /\ l.seen = loads[r].seen /\ ~l.move
    BY <1>0, NextItemMoves
  <2>2. ledger[Item(r)] = {"current"}
    <3>1. Item(r) \in ItemNames
      BY <1>0 DEF Item, Items, ItemNames
    <3>2. ledger[Item(r)] # {}
      BY <1>1, <3>1 DEF SetupInv, Migrated
    <3>. QED
      BY <1>0, <1>3, <3>1, <3>2 DEF TypeOK
  <2>3. Moved(l.item, ledger')
    BY <1>0, <1>1, <2>1, <2>2 DEF Moved, Item
  <2>. QED
    BY <1>0, <1>1, <1>3, <2>1, <2>3, ReadsOn DEF TypeOK, LookForState
<1>. QED
  BY <1>2, <1>3

LEMMA MigrateLegacyStateKeeps ==
    ASSUME SetupInv, NEW r \in Readers, MigrateLegacyState(r)
    PROVE  SetupInv'
<1>0. /\ left' = left /\ config' = config /\ resident' = resident /\ kits' = kits /\ used' = used
      /\ link' = link /\ TypeOK /\ loads[r] # None /\ loads[r].move
  BY DEF MigrateLegacyState, SetupInv
<1>1. /\ loads[r] \in Loads /\ left.legacy /\ Moved(loads[r].item, ledger) /\ Safe(loads[r].seen.recipient)
      /\ (r = "cli" => cmd # None /\ cmd.at = "load")
  BY <1>0, ReaderSteps DEF SetupInv, Secured
<1>2. CASE "legacy" \in ledger[Item(r)] /\ loads[r].item \in 1..3
  <2>1. PICK l \in Loads : /\ NextItem(r) = [loads EXCEPT ![r] = l]
                            /\ l.item = loads[r].item + 1 /\ l.seen = loads[r].seen /\ ~l.move
    BY <1>0, <1>2, NextItemMoves
  <2>2. ledger' = [ledger EXCEPT ![Item(r)] = {"current"}] /\ loads' = NextItem(r) /\ cmd' = cmd
    BY <1>2 DEF MigrateLegacyState
  <2>3. Item(r) \in ItemNames
    BY <1>2 DEF Item, Items, ItemNames
  <2>4. /\ ledger' \in [ItemNames -> {{}, {"legacy"}, {"current"}}]
        /\ \A i \in ItemNames : ledger'[i] = ledger[i] \/ ledger'[i] = {"current"}
        /\ ledger'[Item(r)] = {"current"}
    BY <1>0, <2>2, <2>3 DEF TypeOK
  <2>5. Moved(l.item, ledger')
    BY <1>1, <1>2, <2>1, <2>4 DEF Moved, Item, Items, ItemNames
  <2>. QED
    BY <1>0, <1>1, <2>1, <2>2, <2>4, <2>5, ReadsOn
<1>3. CASE "legacy" \notin ledger[Item(r)]
  <2>1. /\ loads' = [loads EXCEPT ![r] = None] /\ ledger' = ledger
        /\ (r = "cli" => cmd' = None) /\ (r # "cli" => cmd' = cmd)
    BY <1>3 DEF MigrateLegacyState, Fail, End
  <2>2. /\ loads' \in [Readers -> Loads \cup {None}] /\ \A q \in Readers : loads'[q] \in {loads[q], None}
        /\ (r = "cli" => loads'["cli"] = None)
    BY <1>0, <2>1 DEF TypeOK, Loads
  <2>3. r # "cli" => /\ cmd # None => cmd.at = "deliver" \/ cmd.key \in kits \cup {0}
                     /\ cmd # None => Uninstalling(cmd) \/ cmd.at \in {"load", "write"} \/ Today
    BY DEF SetupInv, Secured, Safe, Migrated
  <2>. QED
    BY <1>0, <2>1, <2>2, <2>3, Carries DEF TypeOK
<1>4. loads[r].item \in 1..3
  BY <1>0, <1>1, ReaderSteps
<1>. QED
  BY <1>2, <1>3, <1>4

LEMMA MigrateLegacyConfigKeeps ==
    ASSUME SetupInv, NEW r \in Readers, MigrateLegacyConfig(r)
    PROVE  SetupInv'
<1>. DEFINE c == [loads[r].seen EXCEPT !.v = 2]
<1>0. /\ left' = left /\ resident' = resident /\ kits' = kits /\ ledger' = ledger /\ link' = link
      /\ TypeOK /\ loads[r] # None /\ loads[r].item \notin 1..3 /\ loads' = [loads EXCEPT ![r] = None]
      /\ SaveConfig(c) /\ Loaded(r, c)
  BY DEF MigrateLegacyConfig, StateIsMoved, SetupInv, Items
<1>1. /\ loads[r] \in Loads /\ loads[r].item = 4 /\ Moved(4, ledger) /\ Safe(loads[r].seen.recipient)
      /\ (r = "cli" => cmd # None /\ cmd \in Running)
  BY <1>0, ReaderSteps DEF SetupInv, Secured
<1>2. c \in Configurations /\ c.v = 2 /\ c.recipient = loads[r].seen.recipient /\ c # None
  BY <1>1, InstancesAssumption DEF Loads, Configurations
<1>. HIDE DEF c
<1>3. cmd' \in Running \cup {None} /\ (cmd' # None => cmd # None /\ cmd'.key = cmd.key /\ cmd'.at \in {cmd.at, "write"})
  <2>1. CASE r = "job"
    BY <1>0, <2>1 DEF Loaded, TypeOK
  <2>2. CASE r = "cli"
    <3>. DEFINE recipient == IF c = None THEN 0 ELSE c.recipient
    <3>1. cmd' = [cmd EXCEPT !.at = "write", !.recipient = recipient]
      BY <1>0, <2>2 DEF Loaded
    <3>2. recipient \in Nat
      BY <1>2 DEF Configurations
    <3>. HIDE DEF recipient
    <3>. QED
      BY <1>1, <2>2, <3>1, <3>2 DEF Running
  <2>. QED
    BY <2>1, <2>2 DEF Readers
<1>4. cmd' # None => cmd'.at = "deliver" \/ cmd'.key \in kits \cup {0}
  <2>1. CASE r = "job"
    BY <1>0, <2>1 DEF Loaded, SetupInv, Secured, Safe
  <2>2. CASE r = "cli"
    BY <1>0, <1>3, <2>2, ReaderSteps DEF SetupInv, Secured, Safe
  <2>. QED
    BY <2>1, <2>2 DEF Readers
<1>5. /\ loads' \in [Readers -> Loads \cup {None}] /\ \A q \in Readers : loads'[q] \in {loads[q], None}
      /\ (loads'["cli"] # None => cmd' = cmd)
  BY <1>0 DEF TypeOK, Loads, Loaded, Readers
<1>. QED
  BY <1>0, <1>1, <1>2, <1>3, <1>4, <1>5, Saves DEF TypeOK, Safe

-----------------------------------------------------------------------------
(* init and the wizard.                                                    *)
LEMMA StartKeeps ==
    ASSUME SetupInv, StartInit \/ Uninstall
    PROVE  SetupInv'
<1>0. /\ left \in InstanceTypes /\ cmd = None /\ setupVars' = setupVars /\ Spend("commands")
  BY DEF StartInit, Uninstall, StartUninstall, SetupInv, TypeOK
<1>1. /\ config' = config /\ resident' = resident /\ kits' = kits /\ used' = used /\ ledger' = ledger
      /\ loads' = loads /\ link' = link /\ loads["cli"] = None
      /\ left' \in InstanceTypes /\ left'.legacy = left.legacy
  BY <1>0, SpendKeeps DEF setupVars, Counters, SetupInv, Migrated
<1>2. ASSUME NEW op \in Commands, NEW activate \in BOOLEAN, NEW offbox \in Answers, NEW k \in kits,
             cmd' = [Idle EXCEPT !.op = op, !.activate = activate, !.offbox = offbox, !.key = k]
      PROVE  SetupInv'
  <2>1. k \in Nat
    BY DEF SetupInv, TypeOK
  <2>2. cmd' \in Running /\ cmd'.at = "load" /\ cmd'.key = k
    BY <1>2, <2>1 DEF Idle, Running
  <2>. QED
    BY <1>1, <2>2, Carries DEF SetupInv, TypeOK, Loads, Readers
<1>3. CASE StartInit
  <2>1. left.ops \subseteq Commands /\ left.offbox \subseteq Answers
    BY <1>0 DEF InstanceTypes
  <2>. QED
    BY <1>2, <1>3, <2>1 DEF StartInit
<1>4. CASE Uninstall
  <2>1. cmd' = [Idle EXCEPT !.op = "uninstall", !.at = "deactivate"]
    BY <1>4 DEF Uninstall, StartUninstall
  <2>2. cmd' \in Running /\ cmd'.op = "uninstall" /\ cmd'.key = 0
    BY <2>1 DEF Idle, Running, Stages, Commands, Answers
  <2>3. Uninstalling(cmd')
    BY <2>1 DEF Idle, Uninstalling, Stages
  <2>. QED
    BY <1>1, <2>2, <2>3, Carries DEF SetupInv, TypeOK, Loads, Readers
<1>. QED
  BY <1>3, <1>4

LEMMA EndKeeps ==
    ASSUME SetupInv, FinishInit \/ CancelWizard
    PROVE  SetupInv'
<1>1. setupVars' = setupVars /\ left' = left /\ cmd # None /\ cmd.at # "load" /\ cmd' = None
  BY DEF FinishInit, CancelWizard, At, End, Fail
<1>. QED
  BY <1>1, CommandKeeps DEF SetupInv, TypeOK

(* The steps that write the identity, or deliver the kit.                  *)
LEMMA KeyKeeps ==
    ASSUME SetupInv, MatchResident \/ ChooseKey \/ DeliverRecoveryKit \/ WriteIdentity
    PROVE  SetupInv'
<1>. USE DEF At
<1>0. /\ TypeOK /\ left' = left /\ config' = config /\ used' = used /\ ledger' = ledger /\ loads' = loads
      /\ link' = link /\ cmd # None /\ cmd \in Running /\ cmd.at \notin {"load", "write"} /\ loads["cli"] = None
  BY DEF MatchResident, ChooseKey, DeliverRecoveryKit, WriteIdentity, SetupInv, TypeOK, Migrated, setupVars
<1>1. cmd.recipient \in Nat /\ cmd.key \in Nat
  BY <1>0 DEF Running
<1>2. ~MatchResident => Today
  BY <1>0 DEF SetupInv, Migrated, Uninstalling, ChooseKey, DeliverRecoveryKit, WriteIdentity, Stages
<1>3. CASE MatchResident
  <2>1. cmd' = None /\ resident' = cmd.recipient /\ kits' = kits
    BY <1>3 DEF MatchResident, End
  <2>. QED
    BY <1>0, <1>1, <2>1, Carries DEF TypeOK, Loads, Readers
<1>4. ASSUME NEW k \in Nat, NEW stage \in {"configure", "deliver"}, stage = "deliver" \/ k \in kits,
             cmd' = [cmd EXCEPT !.at = stage, !.key = k], resident' = resident, kits' = kits, Today
      PROVE  SetupInv'
  <2>1. cmd' \in Running /\ cmd'.at = stage /\ cmd'.key = k /\ cmd'.op = cmd.op
    BY <1>0, <1>4 DEF Running
  <2>. QED
    BY <1>0, <1>4, <2>1, Carries DEF TypeOK, Loads, Readers
<1>5. CASE ChooseKey /\ ~MatchResident
  <2>1. kits \subseteq Nat /\ Keys \subseteq Nat
    BY <1>0 DEF TypeOK, Keys
  <2>2. resident' = resident /\ kits' = kits
    BY <1>5 DEF ChooseKey, setupVars
  <2>. QED
    BY <1>2, <1>4, <1>5, <2>1, <2>2 DEF ChooseKey, ImportRecoveryIdentity
<1>6. CASE DeliverRecoveryKit /\ ~MatchResident
  <2>1. cmd' = [cmd EXCEPT !.at = "configure"] /\ resident' = resident /\ kits' = kits \cup {cmd.key}
    BY <1>6 DEF DeliverRecoveryKit, Goto
  <2>2. cmd' \in Running /\ cmd'.at = "configure" /\ cmd'.key = cmd.key /\ cmd'.op = cmd.op
    BY <1>0, <2>1 DEF Running
  <2>3. kits \subseteq kits' /\ kits' \subseteq Nat /\ cmd'.key \in kits'
    BY <1>0, <1>1, <2>1, <2>2 DEF TypeOK
  <2>4. Today
    BY <1>2, <1>6
  <2>. QED
    BY <1>0, <2>1, <2>2, <2>3, <2>4, Carries DEF TypeOK, Loads, Readers
<1>7. CASE WriteIdentity /\ ~MatchResident
  <2>1. cmd' = [cmd EXCEPT !.at = "offbox"] /\ resident' = cmd.key /\ kits' = kits /\ cmd.at = "configure"
    BY <1>7 DEF WriteIdentity, Goto
  <2>2. cmd' \in Running /\ cmd'.at = "offbox" /\ cmd'.key = cmd.key /\ cmd'.op = cmd.op
    BY <1>0, <2>1 DEF Running
  <2>3. cmd.key \in kits \cup {0}
    BY <1>0, <2>1 DEF SetupInv, Secured, Safe
  <2>4. Today
    BY <1>2, <1>7
  <2>. QED
    BY <1>0, <1>1, <2>1, <2>2, <2>3, <2>4, Carries DEF TypeOK, Loads, Readers
<1>. QED
  BY <1>3, <1>5, <1>6, <1>7

-----------------------------------------------------------------------------
(* The steps that save a configuration.                                    *)
LEMMA ConfiguredIs ==
    ASSUME NEW k \in Nat, NEW remotes \in SUBSET {"own", "cloud"}
    PROVE  /\ Configured(k, remotes) \in Configurations /\ Configured(k, remotes).v = 2
           /\ Configured(k, remotes).recipient = k
BY DEF Configured, Configurations

LEMMA WriteInitConfigKeeps ==
    ASSUME SetupInv, WriteInitConfig
    PROVE  SetupInv'
<1>. DEFINE c == WithOffbox(config)
<1>0. /\ TypeOK /\ left' = left /\ resident' = resident /\ kits' = kits /\ ledger' = ledger
      /\ loads' = loads /\ link' = link /\ cmd # None /\ cmd \in Running /\ cmd.at = "write"
      /\ loads["cli"] = None /\ (config # None => config.v = 2) /\ SaveConfig(c)
  BY DEF WriteInitConfig, At, SetupInv, TypeOK, Migrated
<1>1. cmd.key \in kits \cup {0} /\ cmd.key \in Nat
  BY <1>0 DEF SetupInv, Secured, Safe, Running
<1>2. c \in Configurations /\ c.v = 2 /\ Safe(c.recipient)
  <2>1. c \in {Configured(cmd.key, {"own"}), Configured(0, {}), config} /\ (c = config => config # None)
    BY <1>0, InstancesAssumption, ConfiguredIs DEF WithOffbox, SkippedOffbox, TypeOK
  <2>2. config # None => config \in Configurations /\ Safe(config.recipient)
    BY <1>0 DEF SetupInv, Secured, TypeOK
  <2>. HIDE DEF c
  <2>3. CASE c = config
    BY <1>0, <2>1, <2>2, <2>3
  <2>4. CASE c = Configured(0, {})
    BY <2>4, ConfiguredIs DEF Safe
  <2>5. CASE c = Configured(cmd.key, {"own"})
    BY <1>1, <2>5, ConfiguredIs DEF Safe
  <2>. QED
    BY <2>1, <2>3, <2>4, <2>5
<1>3. left.legacy => Moved(4, ledger)
  BY <1>0, TodayIsMoved
<1>4. cmd' \in Running \cup {None} /\ (cmd' # None => cmd'.key = cmd.key)
  <2>1. cmd' = None \/ cmd' = [cmd EXCEPT !.at = "schedule", !.recipient = c.recipient]
    BY DEF WriteInitConfig, Fail, End
  <2>2. c.recipient \in Nat
    BY <1>2 DEF Configurations
  <2>. HIDE DEF c
  <2>. QED
    BY <1>0, <2>1, <2>2 DEF Running, Stages
<1>. HIDE DEF c
<1>. QED
  BY <1>0, <1>1, <1>2, <1>3, <1>4, Saves DEF TypeOK, Loads, Readers

LEMMA OffboxKeeps ==
    ASSUME SetupInv, SkipOffbox \/ WriteOffbox
    PROVE  SetupInv'
<1>0. /\ TypeOK /\ left' = left /\ resident' = resident /\ kits' = kits /\ ledger' = ledger
      /\ loads' = loads /\ link' = link /\ cmd # None /\ cmd \in Running /\ cmd' = None
      /\ loads["cli"] = None
  BY DEF SkipOffbox, WriteOffbox, At, End, SetupInv, TypeOK, Migrated
<1>1. Today
  BY DEF SkipOffbox, WriteOffbox, At, SetupInv, Migrated, Uninstalling, Stages
<1>2. left.legacy => Moved(4, ledger)
  BY <1>1, TodayIsMoved DEF Today
<1>3. CASE SkipOffbox
  <2>1. SaveConfig(Configured(0, {}))
    BY <1>3 DEF SkipOffbox, SkippedOffbox
  <2>. QED
    BY <1>0, <1>2, <2>1, ConfiguredIs, Saves DEF TypeOK, Loads, Readers, Safe
<1>4. CASE WriteOffbox
  <2>1. SaveConfig(Configured(cmd.key, {"own"})) /\ cmd.at = "offbox"
    BY <1>4 DEF WriteOffbox, At
  <2>2. cmd.key \in Nat /\ Safe(cmd.key)
    BY <1>0, <2>1 DEF SetupInv, Secured, Running
  <2>. QED
    BY <1>0, <1>2, <2>1, <2>2, ConfiguredIs, Saves DEF TypeOK, Loads, Readers
<1>. QED
  BY <1>3, <1>4

LEMMA WithRemotes ==
    ASSUME NEW c \in Configurations, NEW remotes \in SUBSET {"own", "cloud"}
    PROVE  /\ [c EXCEPT !.remotes = remotes] \in Configurations
           /\ [c EXCEPT !.remotes = remotes].v = c.v /\ [c EXCEPT !.remotes = remotes].recipient = c.recipient
BY DEF Configurations

(* A Cloud step that saves a configuration made of one that is secured.    *)
LEMMA CloudSaves ==
    ASSUME SetupInv, cmd' = cmd, left' \in InstanceTypes, left'.legacy = left.legacy,
           resident' = resident, kits' = kits, ledger' = ledger, loads' = loads, link' = link \/ link' = None,
           NEW c \in Configurations, c.v = 2, Safe(c.recipient), SaveConfig(c), config # None => config.v = 2
    PROVE  SetupInv'
<1>1. left.legacy => Moved(4, ledger)
  BY TodayIsMoved
<1>2. TypeOK /\ (cmd # None => cmd.at = "deliver" \/ cmd.key \in kits \cup {0})
  BY DEF SetupInv, Secured, Safe
<1>. QED
  BY <1>1, <1>2, Saves DEF TypeOK, Loads

LEMMA AddCloudRemoteKeeps ==
    ASSUME SetupInv, AddCloudRemote
    PROVE  SetupInv'
<1>0. /\ left \in InstanceTypes /\ Spend("links") /\ TypeOK /\ Secured /\ Migrated /\ Today /\ link' = config
      /\ config' = config /\ resident' = resident /\ kits' = kits /\ used' = used
      /\ ledger' = ledger /\ loads' = loads /\ cmd' = cmd
  BY DEF AddCloudRemote, SetupInv, TypeOK, Today, schedulerVars
<1>1. left' \in InstanceTypes /\ left'.legacy = left.legacy
  BY <1>0, SpendKeeps DEF Counters
<1>2. TypeOK'
  BY <1>0, <1>1 DEF TypeOK
<1>3. Secured'
  BY <1>0 DEF Secured, Safe, Today
<1>4. Migrated'
  BY <1>0, <1>1 DEF Migrated, Today, Moved
<1>. QED
  BY <1>2, <1>3, <1>4 DEF SetupInv

LEMMA LinkCloudRemoteKeeps ==
    ASSUME SetupInv, LinkCloudRemote
    PROVE  SetupInv'
<1>. DEFINE remotes == link.remotes \cup {"cloud"}
            c == [link EXCEPT !.remotes = remotes]
<1>0. /\ left \in InstanceTypes /\ left' = left /\ link \in Configurations /\ link' = None /\ SaveConfig(c)
      /\ resident' = resident /\ kits' = kits /\ ledger' = ledger /\ loads' = loads /\ cmd' = cmd
  BY DEF LinkCloudRemote, SetupInv, TypeOK, schedulerVars
<1>1. config # None /\ config.v = 2 /\ link.v = 2 /\ Safe(link.recipient)
  BY DEF LinkCloudRemote, SetupInv, Secured, Migrated, Today
<1>2. remotes \in SUBSET {"own", "cloud"}
  BY <1>0 DEF Configurations
<1>. HIDE DEF remotes
<1>3. c \in Configurations /\ c.v = 2 /\ Safe(c.recipient)
  BY <1>0, <1>1, <1>2, WithRemotes
<1>. HIDE DEF c
<1>. QED
  BY <1>0, <1>1, <1>3, CloudSaves

LEMMA AddFromRecoveryKitKeeps ==
    ASSUME SetupInv, AddFromRecoveryKit
    PROVE  SetupInv'
<1>0. /\ left \in InstanceTypes /\ Spend("links") /\ kits \subseteq Nat /\ config \in Configurations \cup {None}
      /\ resident' = resident /\ kits' = kits /\ ledger' = ledger /\ loads' = loads /\ cmd' = cmd /\ link' = link
      /\ (config # None => config.v = 2)
  BY DEF AddFromRecoveryKit, SetupInv, TypeOK, schedulerVars
<1>1. left' \in InstanceTypes /\ left'.legacy = left.legacy
  BY <1>0, SpendKeeps DEF Counters
<1>2. ASSUME NEW k \in kits, SaveConfig(Configured(k, {"cloud"}))
      PROVE  SetupInv'
  BY <1>0, <1>1, <1>2, ConfiguredIs, CloudSaves DEF Safe
<1>3. ASSUME NEW k \in kits, config # None, config.recipient = k,
             SaveConfig([config EXCEPT !.remotes = @ \cup {"cloud"}])
      PROVE  SetupInv'
  <2>. DEFINE remotes == config.remotes \cup {"cloud"}
              c == [config EXCEPT !.remotes = remotes]
  <2>1. SaveConfig(c) /\ remotes \in SUBSET {"own", "cloud"}
    BY <1>0, <1>3 DEF Configurations
  <2>. HIDE DEF remotes
  <2>2. c \in Configurations /\ c.v = 2 /\ Safe(c.recipient)
    BY <1>0, <1>3, <2>1, WithRemotes DEF Safe
  <2>. HIDE DEF c
  <2>. QED
    BY <1>0, <1>1, <2>1, <2>2, CloudSaves
<1>. QED
  BY <1>2, <1>3 DEF AddFromRecoveryKit

LEMMA UnlinkCloudRemoteKeeps ==
    ASSUME SetupInv, UnlinkCloudRemote
    PROVE  SetupInv'
<1>. DEFINE remotes == config.remotes \ {"cloud"}
            c == [config EXCEPT !.remotes = remotes]
<1>0. /\ left \in InstanceTypes /\ Spend("links") /\ config \in Configurations /\ Safe(config.recipient)
      /\ resident' = resident /\ kits' = kits /\ ledger' = ledger /\ loads' = loads /\ cmd' = cmd /\ link' = link
      /\ config # None /\ config.v = 2 /\ (SaveConfig(Configured(0, {})) \/ SaveConfig(c))
  BY DEF UnlinkCloudRemote, SkippedOffbox, SetupInv, TypeOK, Secured, schedulerVars
<1>1. left' \in InstanceTypes /\ left'.legacy = left.legacy
  BY <1>0, SpendKeeps DEF Counters
<1>2. remotes \in SUBSET {"own", "cloud"}
  BY <1>0 DEF Configurations
<1>. HIDE DEF remotes
<1>3. c \in Configurations /\ c.v = 2 /\ Safe(c.recipient)
  BY <1>0, <1>2, WithRemotes
<1>. HIDE DEF c
<1>4. CASE SaveConfig(c)
  BY <1>0, <1>1, <1>3, <1>4, CloudSaves
<1>5. CASE SaveConfig(Configured(0, {}))
  BY <1>0, <1>1, <1>5, ConfiguredIs, CloudSaves DEF Safe
<1>. QED
  BY <1>0, <1>4, <1>5

-----------------------------------------------------------------------------
(* What happens around the commands.                                       *)
LEMMA SurroundingsKeep ==
    ASSUME SetupInv, Surroundings \/ KillReader
    PROVE  SetupInv'
<1>0. /\ left \in InstanceTypes /\ TypeOK
      /\ config' = config /\ resident' = resident /\ kits' = kits /\ used' = used /\ ledger' = ledger /\ link' = link
  BY DEF Surroundings, KillReader, SetupInv, TypeOK
<1>1. \E what \in Counters : Spend(what)
  BY DEF Surroundings, KillReader, Counters
<1>2. left' \in InstanceTypes /\ left'.legacy = left.legacy
  BY <1>0, <1>1, SpendKeeps
<1>3. cmd' = cmd \/ cmd' = None
  BY DEF Surroundings, KillReader, Login, KillCommand, Upgrade, AnotherShell, schedulerVars
<1>4. loads' = [loads EXCEPT !["job"] = None] \/ loads' = loads \/ loads' = [loads EXCEPT !["cli"] = None]
  BY <1>0 DEF Surroundings, KillReader, TypeOK
<1>5. /\ loads' \in [Readers -> Loads \cup {None}] /\ \A r \in Readers : loads'[r] \in {loads[r], None}
      /\ (loads'["cli"] # None => cmd' = cmd)
  <2>1. loads'["cli"] # None => cmd' = cmd
    BY <1>0, <1>3 DEF Surroundings, KillReader, schedulerVars, TypeOK, Readers
  <2>. QED
    BY <1>0, <1>4, <2>1 DEF TypeOK, Loads, Readers
<1>6. /\ cmd # None => cmd.at = "deliver" \/ cmd.key \in kits \cup {0}
      /\ cmd # None => Uninstalling(cmd) \/ cmd.at \in {"load", "write"} \/ Today
  BY DEF SetupInv, Secured, Safe, Migrated
<1>. QED
  BY <1>0, <1>2, <1>3, <1>5, <1>6, Carries DEF TypeOK

LEMMA IdleKeeps ==
    ASSUME SetupInv, HourPasses \/ UNCHANGED vars
    PROVE  SetupInv'
<1>1. /\ config' = config /\ resident' = resident /\ kits' = kits /\ used' = used /\ ledger' = ledger /\ link' = link
      /\ loads' = loads /\ cmd' = cmd /\ left' = left
  BY DEF HourPasses, Hour, vars, setupVars, schedulerVars
<1>2. /\ TypeOK
      /\ cmd # None => cmd.at = "deliver" \/ cmd.key \in kits \cup {0}
      /\ cmd # None => Uninstalling(cmd) \/ cmd.at \in {"load", "write"} \/ Today
  BY DEF SetupInv, Secured, Safe, Migrated
<1>. QED
  BY <1>1, <1>2, Carries DEF TypeOK, Loads

LEMMA InitIsSetUp == Init => SetupInv
<1>. SUFFICES ASSUME Init
              PROVE  SetupInv
  OBVIOUS
<1>0. left \in InstanceTypes /\ left.legacy \in BOOLEAN
  BY InstancesAssumption DEF Init, InstanceTypes
<1>. DEFINE old == [v |-> 1, recipient |-> 1, remotes |-> {"own"}]
<1>1. /\ cmd = None /\ loads = [r \in Readers |-> None] /\ link = None /\ kits = {1}
      /\ config = (IF left.legacy THEN old ELSE None)
      /\ resident = (IF left.legacy THEN 1 ELSE 0) /\ used = (IF left.legacy THEN {1} ELSE {})
      /\ ledger = [i \in ItemNames |-> IF left.legacy THEN {"legacy"} ELSE {}]
  BY DEF Init
<1>2. old \in Configurations /\ old.v = 1 /\ old.recipient = 1 /\ old # None
  BY InstancesAssumption DEF Configurations
<1>. HIDE DEF old
<1>3. TypeOK
  BY <1>0, <1>1, <1>2 DEF TypeOK
<1>4. Secured
  BY <1>1, <1>2 DEF Secured, Safe, Readers
<1>5. Migrated
  BY <1>1, <1>2 DEF Migrated, Today, Readers
<1>. QED
  BY <1>3, <1>4, <1>5 DEF SetupInv

LEMMA SetupNext == SetupInv /\ [Next]_vars => SetupInv'
<1>. SUFFICES ASSUME SetupInv, [Next]_vars
              PROVE  SetupInv'
  OBVIOUS
<1>1. CASE HourPasses \/ UNCHANGED vars
  BY <1>1, IdleKeeps
<1>2. CASE StartInit \/ Uninstall \/ ScheduleStep \/ Surroundings \/ KillReader
  BY <1>2, StartKeeps, ScheduleKeeps, SurroundingsKeep
<1>3. ASSUME NEW r \in Readers,
             LoadConfig(r) \/ LookForState(r) \/ MigrateLegacyState(r) \/ MigrateLegacyConfig(r)
      PROVE  SetupInv'
  BY <1>3, LoadConfigKeeps, LookForStateKeeps, MigrateLegacyStateKeeps, MigrateLegacyConfigKeeps
<1>4. CASE \/ WriteInitConfig \/ FinishInit \/ CancelWizard \/ MatchResident \/ SkipOffbox
           \/ ChooseKey \/ DeliverRecoveryKit \/ WriteIdentity \/ WriteOffbox
  BY <1>4, WriteInitConfigKeeps, EndKeeps, KeyKeeps, OffboxKeeps
<1>5. CASE AddCloudRemote \/ LinkCloudRemote \/ AddFromRecoveryKit \/ UnlinkCloudRemote
  BY <1>5, AddCloudRemoteKeeps, LinkCloudRemoteKeeps, AddFromRecoveryKitKeeps, UnlinkCloudRemoteKeeps
<1>. QED
  BY <1>1, <1>2, <1>3, <1>4, <1>5 DEF Next

(* What the commands know of the configuration keeps its type.             *)
THEOREM SetupTypes == Spec => []TypeOK
<1>1. SetupInv => TypeOK
  BY DEF SetupInv
<1>. QED
  BY <1>1, InitIsSetUp, SetupNext, PTL DEF Spec

(* core/init-wizard.ts: no recipient is ever written to config.json whose  *)
(* identity was not delivered first.                                       *)
THEOREM IdentityStays == Spec => []IdentityIsKept
<1>1. SetupInv => IdentityIsKept
  BY DEF SetupInv, Secured, IdentityIsKept
<1>. QED
  BY <1>1, InitIsSetUp, SetupNext, PTL DEF Spec

(* core/config.ts: the migrated configuration is saved when the state is   *)
(* at its new place, whichever of two readers moved it.                    *)
THEOREM LedgerStays == Spec => []LedgerFollowsConfig
<1>1. SetupInv => LedgerFollowsConfig
  <2>. SUFFICES ASSUME SetupInv, left.legacy, config.v = 2
                PROVE  \A i \in ItemNames : ledger[i] = {"current"}
    BY DEF LedgerFollowsConfig
  <2>1. Moved(4, ledger)
    BY DEF SetupInv, Migrated, Today
  <2>. QED
    BY <2>1 DEF Moved, Items, ItemNames
<1>. QED
  BY <1>1, InitIsSetUp, SetupNext, PTL DEF Spec

-----------------------------------------------------------------------------
(* The schedule.  What each step of a command finds; clean, a job that is  *)
(* loaded is marked, and runs what its artifact says.                      *)
Main == [k \in Kinds |-> CASE k = "launchd" -> "plist" [] k = "systemd" -> "service" [] k = "cron" -> "cron"]

ScheduleTyped ==
    /\ platform \in {"darwin", "linux"} /\ runtime \in Nat \ {0}
    /\ disk \in [Files -> Nat] /\ jobs \in [Kinds -> Nat] /\ dirty \in BOOLEAN

OnPlatform ==
    /\ platform = "darwin" =>
          /\ jobs["systemd"] = 0 /\ jobs["cron"] = 0
          /\ disk["service"] = 0 /\ disk["timer"] = 0 /\ disk["link"] = 0 /\ disk["cron"] = 0
    /\ platform = "linux" => jobs["launchd"] = 0 /\ disk["plist"] = 0

Linked == jobs["systemd"] # 0 => disk["link"] # 0

Clean ==
    /\ \A k \in Kinds : jobs[k] # 0 => disk["marker"] # 0 /\ jobs[k] = disk[Main[k]]
    /\ disk["link"] # 0 => disk["marker"] # 0

Freed == jobs["systemd"] = 0 /\ disk["link"] = 0
Silent == (\A k \in Kinds : jobs[k] = 0) /\ disk["link"] = 0

Installed == \A f \in Artifacts(ScheduleKind) : disk[f] = runtime
Alone == \A k \in Kinds \ {ScheduleKind} : jobs[k] # 0 => dirty /\ k = "cron" /\ "crontab" \notin reach
Activated == jobs[ScheduleKind] = runtime /\ Installed /\ Scheduled /\ Alone

Initializing == cmd.op # "uninstall"
Uninstalls == cmd.op = "uninstall" /\ ~cmd.activate
Activating == Initializing /\ cmd.activate

Before == {"load", "write", "schedule", "deactivate"}
After == {"scheduled", "deliver", "configure", "offbox"}

Staged ==
    /\ cmd.op = "uninstall" => ~cmd.activate
    /\ cmd.at \in Before => (~dirty => Clean)
    /\ cmd.at \in {"load", "write", "schedule"} => Initializing
    /\ cmd.at = "strip" => platform = "linux" /\ Freed /\ (~dirty => Clean)
    /\ cmd.at = "unmark" => Initializing /\ Freed /\ (~dirty => Silent)
    /\ cmd.at = "remove" => Uninstalls /\ Freed /\ (~dirty => Silent)
    /\ cmd.at = "stripAll" =>
          Uninstalls /\ Freed /\ (~dirty => Silent) /\ \A f \in Files : disk[f] = 0
    /\ cmd.at = "install" => Initializing /\ (cmd.activate => Freed) /\ (~dirty => Silent)
    /\ cmd.at = "activate" => Activating /\ Freed /\ Installed /\ (~dirty => Silent)
    /\ cmd.at = "stripOld" =>
          /\ Activating /\ ScheduleKind = "systemd" /\ jobs["systemd"] = runtime /\ Installed
          /\ disk["link"] # 0 /\ (~dirty => jobs["cron"] = 0)
    /\ cmd.at = "dropUnits" =>
          /\ Activating /\ ScheduleKind = "cron" /\ jobs["cron"] = runtime /\ Installed
          /\ Freed /\ "crontab" \in reach
    /\ cmd.at = "mark" => Activating /\ Activated
    /\ cmd.at \in After =>
          /\ Initializing
          /\ IF cmd.activate THEN Activated /\ disk["marker"] # 0 ELSE ~dirty => Silent

ScheduleInv ==
    /\ ScheduleTyped /\ OnPlatform /\ Linked
    /\ cmd # None => Staged /\ last = None
    /\ cmd = None => (~dirty => Clean)
    /\ OneSchedule

LEMMA SameMachine ==
    ASSUME UNCHANGED <<platform, reach, runtime, disk, jobs>>
    PROVE  /\ ScheduleKind' = ScheduleKind
           /\ (Scheduled' <=> Scheduled) /\ (Clean' <=> Clean) /\ (Freed' <=> Freed) /\ (Silent' <=> Silent)
           /\ (Installed' <=> Installed) /\ (OnPlatform' <=> OnPlatform) /\ (Linked' <=> Linked)
<1>1. ScheduleKind' = ScheduleKind /\ CheckedKind' = CheckedKind
  BY DEF ScheduleKind, CheckedKind, HasSystemdArtifact, Present
<1>2. (Scheduled' <=> Scheduled)
  BY <1>1 DEF Scheduled, CheckInstalled, CheckLive, Readable, CheckLaunchdLive, CheckSystemdLive,
              CheckCronLive, Present
<1>3. (Clean' <=> Clean) /\ (Freed' <=> Freed) /\ (Silent' <=> Silent)
  BY DEF Clean, Freed, Silent
<1>4. (Installed' <=> Installed) /\ (OnPlatform' <=> OnPlatform) /\ (Linked' <=> Linked)
  BY <1>1 DEF Installed, OnPlatform, Linked
<1>. QED
  BY <1>1, <1>2, <1>3, <1>4

LEMMA StillActivated ==
    ASSUME UNCHANGED <<platform, reach, runtime, disk, jobs, dirty>>
    PROVE  Activated' <=> Activated
BY SameMachine DEF Activated, Alone

LEMMA RunningIsSome == \A c \in Running : c # None
BY InstancesAssumption

LEMMA Goes ==
    ASSUME TypeOK, cmd # None, NEW stage \in Stages \cup {"load", "write", "deliver", "configure", "offbox"},
           cmd' = [cmd EXCEPT !.at = stage]
    PROVE  /\ cmd' # None /\ cmd'.at = stage /\ cmd'.op = cmd.op /\ cmd'.activate = cmd.activate
<1>1. cmd \in Running
  BY DEF TypeOK
<1>2. cmd' \in Running
  BY <1>1 DEF Running
<1>. QED
  BY <1>1, <1>2, RunningIsSome DEF Running

(* A command goes on to a step that finds what it needs.                   *)
LEMMA StepsOn ==
    ASSUME ScheduleInv, cmd # None, cmd' # None, last' = last,
           ScheduleTyped', OnPlatform', Linked', Staged'
    PROVE  ScheduleInv'
BY DEF ScheduleInv, OneSchedule

(* A command moves between its first steps, or between its last.           *)
LEMMA MovesAmong ==
    ASSUME ScheduleInv, cmd # None, cmd' # None,
           UNCHANGED <<platform, reach, runtime, disk, jobs, last, dirty>>,
           cmd'.op = cmd.op, cmd'.activate = cmd.activate,
           (cmd.at \in Before /\ cmd'.at \in Before /\ cmd.at # "deactivate") \/ (cmd.at \in After /\ cmd'.at \in After)
    PROVE  ScheduleInv'
<1>1. ScheduleTyped' /\ OnPlatform' /\ Linked'
  BY SameMachine DEF ScheduleInv, ScheduleTyped
<1>2. Staged /\ (cmd'.op = "uninstall" => ~cmd'.activate)
  BY DEF ScheduleInv, Staged
<1>3. ASSUME cmd.at \in Before, cmd'.at \in Before, cmd.at # "deactivate"
      PROVE  Staged'
  BY <1>2, <1>3, SameMachine DEF Staged, Before, After, Initializing
<1>4. ASSUME cmd.at \in After, cmd'.at \in After
      PROVE  Staged'
  BY <1>2, <1>4, SameMachine, StillActivated DEF Staged, Before, After, Initializing
<1>5. Staged'
  BY <1>3, <1>4
<1>. QED
  BY <1>1, <1>5, StepsOn

(* Nothing of the schedule and no command moves.                           *)
LEMMA StandsStill ==
    ASSUME ScheduleInv, UNCHANGED <<platform, reach, runtime, disk, jobs, cmd, last, dirty>>
    PROVE  ScheduleInv'
<1>1. ScheduleTyped' /\ OnPlatform' /\ Linked'
  BY SameMachine DEF ScheduleInv, ScheduleTyped
<1>2. cmd # None => Staged'
  BY SameMachine, StillActivated DEF ScheduleInv, Staged, Initializing, Uninstalls, Activating
<1>3. OneSchedule'
  BY SameMachine DEF ScheduleInv, OneSchedule, Present
<1>. QED
  BY <1>1, <1>2, <1>3, SameMachine DEF ScheduleInv

(* A command begins.                                                       *)
LEMMA Begins ==
    ASSUME ScheduleInv, cmd = None, cmd' # None, last' = None,
           UNCHANGED <<platform, reach, runtime, disk, jobs, dirty>>,
           cmd'.at \in Before, cmd'.op = "uninstall" => ~cmd'.activate /\ cmd'.at = "deactivate"
    PROVE  ScheduleInv'
<1>1. ScheduleTyped' /\ OnPlatform' /\ Linked'
  BY SameMachine DEF ScheduleInv, ScheduleTyped
<1>2. Staged'
  BY SameMachine DEF ScheduleInv, Staged, Before, After, Initializing
<1>. QED
  BY <1>1, <1>2 DEF ScheduleInv, OneSchedule

(* A command fails.                                                        *)
LEMMA FailsClean ==
    ASSUME ScheduleInv, cmd # None, End(FALSE), ScheduleTyped', OnPlatform', Linked', ~dirty => Clean'
    PROVE  ScheduleInv'
<1>1. cmd' = None /\ last' = [op |-> cmd.op, activate |-> cmd.activate, ok |-> FALSE] /\ dirty' = dirty
  BY DEF End, ScheduleInv, ScheduleTyped
<1>. QED
  BY <1>1 DEF ScheduleInv, OneSchedule

LEMMA FailsAsItWas ==
    ASSUME ScheduleInv, cmd # None, Fail, UNCHANGED <<platform, reach, runtime, disk, jobs>>,
           ~dirty => Clean
    PROVE  ScheduleInv'
<1>1. ScheduleTyped' /\ OnPlatform' /\ Linked'
  BY SameMachine DEF ScheduleInv, ScheduleTyped, Fail, End
<1>. QED
  BY <1>1, SameMachine, FailsClean DEF Fail

(* What a command that has come to its last steps leaves is clean.         *)
LEMMA LeavesClean ==
    ASSUME ScheduleInv, cmd # None, cmd.at \in After,
           ~dirty \/ (cmd.activate /\ \A k \in Kinds \ {ScheduleKind} : jobs[k] = 0)
    PROVE  Clean
<1>1. Staged /\ ScheduleTyped
  BY DEF ScheduleInv
<1>2. CASE cmd.activate
  <2>1. Activated /\ disk["marker"] # 0
    BY <1>1, <1>2 DEF Staged
  <2>2. \A k \in Kinds \ {ScheduleKind} : jobs[k] = 0
    BY <1>2, <2>1 DEF Activated, Alone
  <2>3. ScheduleKind \in Kinds /\ Main[ScheduleKind] \in Artifacts(ScheduleKind)
    BY DEF ScheduleKind, Kinds, Main, Artifacts
  <2>4. jobs[ScheduleKind] = disk[Main[ScheduleKind]]
    BY <2>1, <2>3 DEF Activated, Installed
  <2>. QED
    BY <2>1, <2>2, <2>4 DEF Clean
<1>3. CASE ~cmd.activate
  BY <1>1, <1>3 DEF Staged, Silent, Clean
<1>. QED
  BY <1>2, <1>3

(* A command succeeds.                                                     *)
LEMMA Succeeds ==
    ASSUME ScheduleInv, TypeOK, cmd # None, cmd.at \in After, End(TRUE),
           UNCHANGED <<platform, reach, runtime, disk, jobs>>
    PROVE  ScheduleInv'
<1>. DEFINE rest == \A k \in Kinds \ {ScheduleKind} : jobs[k] = 0
<1>1. /\ cmd' = None /\ last'.op = cmd.op /\ last'.activate = cmd.activate
      /\ dirty' = (dirty /\ ~(cmd.activate /\ rest))
  BY DEF End
<1>2. Staged /\ ScheduleTyped /\ cmd.op # "uninstall" /\ cmd.activate \in BOOLEAN
  BY DEF ScheduleInv, Staged, Initializing, TypeOK, Running
<1>3. ScheduleTyped' /\ OnPlatform' /\ Linked'
  BY <1>1, <1>2, SameMachine DEF ScheduleInv, ScheduleTyped
<1>4. ~dirty' => Clean'
  BY <1>1, <1>2, SameMachine, LeavesClean DEF ScheduleTyped
<1>5. OneSchedule'
  <2>1. CASE cmd.activate
    <3>1. Activated
      BY <1>2, <2>1 DEF Staged
    <3>2. jobs'[ScheduleKind'] = runtime' /\ Scheduled'
      BY <3>1, SameMachine DEF Activated
    <3>3. \A k \in Kinds : jobs'[k] # 0 => k = ScheduleKind' \/ (k = "cron" /\ "crontab" \notin reach')
      BY <3>1, SameMachine DEF Activated, Alone
    <3>. QED
      BY <1>1, <1>2, <2>1, <3>2, <3>3 DEF OneSchedule
  <2>2. CASE ~cmd.activate
    <3>1. dirty' = dirty
      BY <1>1, <1>2, <2>2 DEF ScheduleTyped
    <3>2. ~dirty => \A k \in Kinds : jobs'[k] = 0
      BY <1>2, <2>2 DEF Staged, Silent
    <3>. QED
      BY <1>1, <1>2, <2>2, <3>1, <3>2 DEF OneSchedule
  <2>. QED
    BY <2>1, <2>2
<1>. QED
  BY <1>1, <1>3, <1>4, <1>5 DEF ScheduleInv

-----------------------------------------------------------------------------
(* The steps of the schedule.                                              *)
LEMMA WithIs ==
    ASSUME ScheduleTyped, NEW new, NEW version \in Nat
    PROVE  /\ With(new, version) \in [Files -> Nat]
           /\ \A f \in Files : With(new, version)[f] = IF f \in new THEN version ELSE disk[f]
BY DEF With, ScheduleTyped

LEMMA WithoutIs ==
    ASSUME ScheduleTyped, NEW gone
    PROVE  /\ Without(gone) \in [Files -> Nat]
           /\ \A f \in Files : Without(gone)[f] = IF f \in gone THEN 0 ELSE disk[f]
BY DEF Without, ScheduleTyped

LEMMA InstallInitScheduleKeeps ==
    ASSUME ScheduleInv, TypeOK, InstallInitSchedule
    PROVE  ScheduleInv'
<1>0. /\ cmd # None /\ cmd.at = "schedule" /\ last' = last /\ dirty' = dirty /\ Staged /\ ScheduleTyped
      /\ UNCHANGED <<platform, reach, runtime, disk, jobs>>
  BY DEF InstallInitSchedule, At, Goto, files, surroundings, ScheduleInv
<1>1. CASE cmd.activate \/ disk["marker"] # 0
  <2>1. cmd' = [cmd EXCEPT !.at = "deactivate"]
    BY <1>1 DEF InstallInitSchedule, Goto, Present
  <2>2. /\ cmd' # None /\ cmd'.at = "deactivate" /\ cmd'.op = cmd.op /\ cmd'.activate = cmd.activate
    BY <1>0, <2>1, Goes DEF Stages
  <2>. QED
    BY <1>0, <2>2, MovesAmong DEF Before
<1>2. CASE ~(cmd.activate \/ disk["marker"] # 0)
  <2>1. cmd' = [cmd EXCEPT !.at = "install"]
    BY <1>2 DEF InstallInitSchedule, Goto, Present
  <2>2. /\ cmd' # None /\ cmd'.at = "install" /\ cmd'.op = cmd.op /\ cmd'.activate = cmd.activate
    BY <1>0, <2>1, Goes DEF Stages
  <2>3. cmd.op # "uninstall"
    BY <1>0 DEF Staged, Initializing
  <2>4. ~dirty => Silent
    BY <1>0, <1>2 DEF Staged, Before, Clean, Silent
  <2>5. Staged'
    BY <1>0, <1>2, <2>2, <2>3, <2>4, SameMachine DEF Staged, Before, After, Initializing
  <2>6. ScheduleTyped' /\ OnPlatform' /\ Linked'
    BY <1>0, SameMachine DEF ScheduleInv, ScheduleTyped
  <2>. QED
    BY <1>0, <2>2, <2>5, <2>6, StepsOn
<1>. QED
  BY <1>1, <1>2

LEMMA DeactivateLaunchdKeeps ==
    ASSUME ScheduleInv, TypeOK, DeactivateLaunchd
    PROVE  ScheduleInv'
<1>0. /\ cmd # None /\ cmd.at = "deactivate" /\ platform = "darwin" /\ cmd.op # "uninstall"
      /\ last' = last /\ dirty' = dirty /\ Staged /\ ScheduleTyped /\ OnPlatform
      /\ cmd' = [cmd EXCEPT !.at = "unmark"] /\ UNCHANGED <<disk, platform, reach, runtime>>
      /\ jobs' = IF disk["plist"] # 0 \/ disk["marker"] # 0 THEN [jobs EXCEPT !["launchd"] = 0] ELSE jobs
  BY DEF DeactivateLaunchd, At, Goto, surroundings, ScheduleInv, Present
<1>1. /\ cmd' # None /\ cmd'.at = "unmark" /\ cmd'.op = cmd.op /\ cmd'.activate = cmd.activate
  BY <1>0, Goes DEF Stages
<1>2. /\ jobs' \in [Kinds -> Nat] /\ jobs'["systemd"] = 0 /\ jobs'["cron"] = 0
      /\ jobs'["launchd"] # 0 => disk["marker"] = 0 /\ jobs'["launchd"] = jobs["launchd"]
  BY <1>0 DEF ScheduleTyped, OnPlatform, Kinds
<1>3. ScheduleTyped' /\ OnPlatform' /\ Linked'
  BY <1>0, <1>2 DEF ScheduleTyped, OnPlatform, Linked
<1>4. ~dirty => Silent'
  BY <1>0, <1>2 DEF Staged, Before, Clean, Silent, Kinds, OnPlatform
<1>5. Staged'
  BY <1>0, <1>1, <1>2, <1>4 DEF Staged, Before, After, Initializing, Freed, OnPlatform
<1>. QED
  BY <1>0, <1>1, <1>3, <1>5, StepsOn

LEMMA UninstallLaunchdKeeps ==
    ASSUME ScheduleInv, TypeOK, UninstallLaunchd
    PROVE  ScheduleInv'
<1>0. /\ cmd # None /\ cmd.at = "deactivate" /\ platform = "darwin" /\ cmd.op = "uninstall"
      /\ last' = last /\ dirty' = dirty /\ Staged /\ ScheduleTyped /\ OnPlatform
      /\ cmd' = [cmd EXCEPT !.at = "remove"] /\ UNCHANGED <<disk, platform, reach, runtime>>
      /\ jobs' = IF disk["marker"] # 0 THEN [jobs EXCEPT !["launchd"] = 0] ELSE jobs
  BY DEF UninstallLaunchd, At, Goto, surroundings, ScheduleInv, Present
<1>1. /\ cmd' # None /\ cmd'.at = "remove" /\ cmd'.op = cmd.op /\ cmd'.activate = cmd.activate
  BY <1>0, Goes DEF Stages
<1>2. /\ jobs' \in [Kinds -> Nat] /\ jobs'["systemd"] = 0 /\ jobs'["cron"] = 0
      /\ jobs'["launchd"] # 0 => disk["marker"] = 0 /\ jobs'["launchd"] = jobs["launchd"]
  BY <1>0 DEF ScheduleTyped, OnPlatform, Kinds
<1>3. ScheduleTyped' /\ OnPlatform' /\ Linked'
  BY <1>0, <1>2 DEF ScheduleTyped, OnPlatform, Linked
<1>4. ~dirty => Silent'
  BY <1>0, <1>2 DEF Staged, Before, Clean, Silent, Kinds, OnPlatform
<1>5. Staged'
  BY <1>0, <1>1, <1>2, <1>4 DEF Staged, Before, After, Initializing, Uninstalls, Freed, OnPlatform
<1>. QED
  BY <1>0, <1>1, <1>3, <1>5, StepsOn

(* The timer was not enabled, or is disabled now.                          *)
LEMMA DisableTimerKeeps ==
    ASSUME ScheduleInv, TypeOK, DisableTimer
    PROVE  ScheduleInv'
<1>0. /\ cmd # None /\ cmd.at = "deactivate" /\ platform = "linux" /\ Staged /\ ScheduleTyped
      /\ OnPlatform /\ Linked /\ UNCHANGED <<platform, reach, runtime>> /\ (~dirty => Clean)
  BY DEF DisableTimer, At, surroundings, ScheduleInv, Staged, Before
<1>1. CASE Fail
  <2>1. ~Goto("strip")
    BY <1>0, <1>1, Goes DEF Goto, Fail, End, Stages
  <2>. QED
    BY <1>0, <1>1, <2>1, FailsAsItWas DEF DisableTimer, files
<1>2. CASE ~Fail
  <2>0. cmd' = [cmd EXCEPT !.at = "strip"] /\ UNCHANGED <<last, dirty>>
    BY <1>2 DEF DisableTimer, Goto
  <2>1. /\ cmd' # None /\ cmd'.at = "strip" /\ cmd'.op = cmd.op /\ cmd'.activate = cmd.activate
    BY <1>0, <2>0, Goes DEF Stages
  <2>2. \/ disk["link"] = 0 /\ UNCHANGED files
        \/ jobs' = [jobs EXCEPT !["systemd"] = 0] /\ disk' = Without({"link"})
    BY <1>2 DEF DisableTimer, MustDisable, Present, Files
  <2>3. /\ disk' \in [Files -> Nat] /\ jobs' \in [Kinds -> Nat]
        /\ disk'["link"] = 0 /\ jobs'["systemd"] = 0
        /\ \A f \in Files \ {"link"} : disk'[f] = disk[f]
        /\ \A k \in Kinds \ {"systemd"} : jobs'[k] = jobs[k]
    <3>1. CASE disk["link"] = 0 /\ UNCHANGED files
      BY <1>0, <3>1 DEF files, ScheduleTyped, Linked
    <3>2. CASE jobs' = [jobs EXCEPT !["systemd"] = 0] /\ disk' = Without({"link"})
      BY <1>0, <3>2, WithoutIs DEF ScheduleTyped, Files, Kinds
    <3>. QED
      BY <2>2, <3>1, <3>2
  <2>4. ScheduleTyped' /\ OnPlatform' /\ Linked'
    BY <1>0, <2>0, <2>3 DEF ScheduleTyped, OnPlatform, Linked, Files, Kinds
  <2>5. ~dirty => Clean'
    BY <1>0, <2>3 DEF Clean, Main, Files, Kinds
  <2>6. Staged'
    BY <1>0, <2>0, <2>1, <2>3, <2>5 DEF Staged, Before, After, Freed
  <2>. QED
    BY <1>0, <2>0, <2>1, <2>4, <2>6, StepsOn
<1>. QED
  BY <1>1, <1>2

LEMMA StripActivatedCronKeeps ==
    ASSUME ScheduleInv, TypeOK, StripActivatedCron
    PROVE  ScheduleInv'
<1>. DEFINE next == IF cmd.op = "uninstall" THEN "remove" ELSE "unmark"
<1>0. /\ cmd # None /\ cmd.at = "strip" /\ platform = "linux" /\ Staged /\ ScheduleTyped /\ Freed
      /\ OnPlatform /\ Linked /\ UNCHANGED <<disk, platform, reach, runtime>> /\ (~dirty => Clean)
  BY DEF StripActivatedCron, At, surroundings, ScheduleInv, Staged
<1>1. CASE Fail
  <2>1. ~Goto(next)
    BY <1>0, <1>1, Goes DEF Goto, Fail, End, Stages
  <2>. QED
    BY <1>0, <1>1, <2>1, FailsAsItWas DEF StripActivatedCron
<1>2. CASE ~Fail
  <2>0. cmd' = [cmd EXCEPT !.at = next] /\ UNCHANGED <<last, dirty>>
    BY <1>2 DEF StripActivatedCron, Goto
  <2>1. /\ cmd' # None /\ cmd'.at = next /\ cmd'.op = cmd.op /\ cmd'.activate = cmd.activate
    BY <1>0, <2>0, Goes DEF Stages
  <2>2. \/ (disk["marker"] = 0 \/ disk["cron"] = 0) /\ jobs' = jobs
        \/ jobs' = [jobs EXCEPT !["cron"] = 0]
    BY <1>2 DEF StripActivatedCron, Present
  <2>3. /\ jobs' \in [Kinds -> Nat] /\ jobs'["systemd"] = 0 /\ jobs'["launchd"] = 0
        /\ jobs'["cron"] # 0 => jobs'["cron"] = jobs["cron"] /\ (disk["marker"] = 0 \/ disk["cron"] = 0)
    BY <1>0, <2>2 DEF ScheduleTyped, OnPlatform, Freed, Kinds
  <2>4. ScheduleTyped' /\ OnPlatform' /\ Linked'
    BY <1>0, <2>0, <2>3 DEF ScheduleTyped, OnPlatform, Linked
  <2>5. Freed' /\ (~dirty => Silent')
    BY <1>0, <2>3 DEF Clean, Main, Kinds, Freed, Silent
  <2>6. Staged'
    BY <1>0, <2>0, <2>1, <2>5 DEF Staged, Before, After, Initializing, Uninstalls
  <2>. QED
    BY <1>0, <2>0, <2>1, <2>4, <2>6, StepsOn
<1>. QED
  BY <1>1, <1>2

LEMMA UnmarkKeeps ==
    ASSUME ScheduleInv, TypeOK, Unmark
    PROVE  ScheduleInv'
<1>0. /\ cmd # None /\ cmd.at = "unmark" /\ last' = last /\ dirty' = dirty /\ Staged /\ ScheduleTyped
      /\ OnPlatform /\ Linked /\ UNCHANGED <<jobs, platform, reach, runtime>>
      /\ cmd' = [cmd EXCEPT !.at = "install"] /\ disk' = Without({"marker"})
  BY DEF Unmark, At, Goto, surroundings, ScheduleInv
<1>1. /\ cmd' # None /\ cmd'.at = "install" /\ cmd'.op = cmd.op /\ cmd'.activate = cmd.activate
  BY <1>0, Goes DEF Stages
<1>2. disk' \in [Files -> Nat] /\ \A f \in Files : disk'[f] = IF f = "marker" THEN 0 ELSE disk[f]
  BY <1>0, WithoutIs DEF Files
<1>3. ScheduleTyped' /\ OnPlatform' /\ Linked'
  BY <1>0, <1>2 DEF ScheduleTyped, OnPlatform, Linked, Files
<1>4. Freed' /\ (~dirty => Silent') /\ Initializing
  BY <1>0, <1>2 DEF Staged, Freed, Silent, Files
<1>5. Staged'
  BY <1>0, <1>1, <1>4 DEF Staged, Before, After, Initializing
<1>. QED
  BY <1>0, <1>1, <1>3, <1>5, StepsOn

LEMMA Kind ==
    ASSUME ScheduleTyped
    PROVE  /\ ScheduleKind \in Kinds /\ Artifacts(ScheduleKind) \in SUBSET Files
           /\ (ScheduleKind = "launchd" <=> platform = "darwin")
           /\ (ScheduleKind = "systemd" => {"systemctl", "manager"} \subseteq reach)
           /\ "marker" \notin Artifacts(ScheduleKind) /\ "link" \notin Artifacts(ScheduleKind)
BY DEF ScheduleTyped, ScheduleKind, Kinds, Artifacts, Files

LEMMA InstallScheduleKeeps ==
    ASSUME ScheduleInv, TypeOK, InstallSchedule
    PROVE  ScheduleInv'
<1>. DEFINE next == IF cmd.activate THEN "activate" ELSE "scheduled"
<1>0. /\ cmd # None /\ cmd.at = "install" /\ last' = last /\ dirty' = dirty /\ Staged /\ ScheduleTyped
      /\ OnPlatform /\ Linked /\ UNCHANGED <<jobs, platform, reach, runtime>>
      /\ cmd' = [cmd EXCEPT !.at = next] /\ disk' = With(Artifacts(ScheduleKind), runtime)
  BY DEF InstallSchedule, At, Goto, surroundings, ScheduleInv
<1>1. /\ cmd' # None /\ cmd'.at = next /\ cmd'.op = cmd.op /\ cmd'.activate = cmd.activate
  BY <1>0, Goes DEF Stages
<1>2. /\ disk' \in [Files -> Nat]
      /\ \A f \in Files : disk'[f] = IF f \in Artifacts(ScheduleKind) THEN runtime ELSE disk[f]
  <2>1. runtime \in Nat
    BY <1>0 DEF ScheduleTyped
  <2>. QED
    BY <1>0, <2>1, WithIs
<1>3. ScheduleKind' = ScheduleKind /\ disk'["link"] = disk["link"]
  BY <1>0, <1>2, Kind DEF ScheduleKind, Files
<1>4. ScheduleTyped' /\ OnPlatform' /\ Linked'
  <2>1. OnPlatform'
    BY <1>0, <1>2, Kind DEF ScheduleTyped, OnPlatform, Files, Artifacts, ScheduleKind
  <2>. QED
    BY <1>0, <1>2, <1>3, <2>1 DEF ScheduleTyped, Linked
<1>5. Installed'
  BY <1>0, <1>2, <1>3, Kind DEF Installed
<1>6. Initializing /\ (cmd.activate => Freed') /\ (~dirty => Silent')
  BY <1>0, <1>3 DEF Staged, Freed, Silent
<1>7. Staged'
  BY <1>0, <1>1, <1>5, <1>6 DEF Staged, Before, After, Initializing, Activating
<1>. QED
  BY <1>0, <1>1, <1>4, <1>7, StepsOn

LEMMA ActivateLaunchdKeeps ==
    ASSUME ScheduleInv, TypeOK, ActivateLaunchd
    PROVE  ScheduleInv'
<1>0. /\ cmd # None /\ cmd.at = "activate" /\ ScheduleKind = "launchd" /\ Staged /\ ScheduleTyped
      /\ OnPlatform /\ Linked /\ UNCHANGED <<disk, platform, reach, runtime>>
  BY DEF ActivateLaunchd, At, surroundings, ScheduleInv
<1>1. /\ platform = "darwin" /\ Activating /\ disk["plist"] = runtime /\ runtime # 0
      /\ (~dirty => Silent) /\ ScheduleKind' = "launchd"
  BY <1>0, Kind DEF Staged, Installed, Artifacts, ScheduleTyped, ScheduleKind
<1>2. CASE jobs' = [jobs EXCEPT !["launchd"] = 0] /\ Fail
  <2>1. /\ jobs' \in [Kinds -> Nat] /\ jobs'["systemd"] = jobs["systemd"] /\ jobs'["cron"] = jobs["cron"]
        /\ jobs'["launchd"] = 0
    BY <1>0, <1>2 DEF ScheduleTyped, Kinds
  <2>2. ScheduleTyped' /\ OnPlatform' /\ Linked'
    BY <1>0, <1>2, <2>1 DEF ScheduleTyped, OnPlatform, Linked, Fail, End
  <2>3. ~dirty => Clean'
    BY <1>0, <1>1, <2>1 DEF Clean, Silent, Kinds
  <2>. QED
    BY <1>0, <1>2, <2>2, <2>3, FailsClean DEF Fail
<1>3. CASE jobs' = [jobs EXCEPT !["launchd"] = disk["plist"]] /\ Goto("mark")
  <2>0. UNCHANGED <<last, dirty>> /\ cmd' = [cmd EXCEPT !.at = "mark"]
    BY <1>3 DEF Goto
  <2>1. /\ cmd' # None /\ cmd'.at = "mark" /\ cmd'.op = cmd.op /\ cmd'.activate = cmd.activate
    BY <1>0, <2>0, Goes DEF Stages
  <2>2. /\ jobs' \in [Kinds -> Nat] /\ jobs'["systemd"] = 0 /\ jobs'["cron"] = 0
        /\ jobs'["launchd"] = runtime
    BY <1>0, <1>1, <1>3 DEF ScheduleTyped, OnPlatform, Kinds
  <2>3. ScheduleTyped' /\ OnPlatform' /\ Linked'
    BY <1>0, <1>1, <2>0, <2>2 DEF ScheduleTyped, OnPlatform, Linked
  <2>4. Scheduled'
    <3>1. CheckedKind' = "launchd"
      BY <1>0, <1>1 DEF CheckedKind
    <3>. QED
      BY <1>0, <1>1, <2>2, <3>1 DEF Scheduled, CheckInstalled, CheckLive, Readable, CheckLaunchdLive,
                                    Present, Artifacts
  <2>5. Activated'
    BY <1>0, <1>1, <2>2, <2>4 DEF Activated, Installed, Artifacts, Alone, Kinds
  <2>6. Staged'
    BY <1>0, <1>1, <2>1, <2>5 DEF Staged, Before, After, Activating, Initializing
  <2>. QED
    BY <1>0, <2>0, <2>1, <2>3, <2>6, StepsOn
<1>. QED
  BY <1>2, <1>3 DEF ActivateLaunchd

LEMMA ActivateSystemdKeeps ==
    ASSUME ScheduleInv, TypeOK, ActivateSystemd
    PROVE  ScheduleInv'
<1>0. /\ cmd # None /\ cmd.at = "activate" /\ ScheduleKind = "systemd" /\ Staged /\ ScheduleTyped
      /\ OnPlatform /\ Linked /\ UNCHANGED <<platform, reach, runtime>>
  BY DEF ActivateSystemd, At, surroundings, ScheduleInv
<1>1. /\ platform = "linux" /\ Activating /\ disk["service"] = runtime /\ disk["timer"] = runtime
      /\ (~dirty => Silent) /\ ScheduleKind' = "systemd" /\ runtime \in Nat
  BY <1>0, Kind DEF Staged, Installed, Artifacts, ScheduleTyped, ScheduleKind
<1>2. CASE Fail /\ UNCHANGED files
  BY <1>0, <1>1, <1>2, FailsAsItWas DEF files, Silent, Clean
<1>3. CASE jobs' = [jobs EXCEPT !["systemd"] = disk["service"]] /\ disk' = With({"link"}, 1) /\ Goto("stripOld")
  <2>0. UNCHANGED <<last, dirty>> /\ cmd' = [cmd EXCEPT !.at = "stripOld"]
    BY <1>3 DEF Goto
  <2>1. /\ cmd' # None /\ cmd'.at = "stripOld" /\ cmd'.op = cmd.op /\ cmd'.activate = cmd.activate
    BY <1>0, <2>0, Goes DEF Stages
  <2>2. /\ jobs' \in [Kinds -> Nat] /\ jobs'["systemd"] = runtime /\ jobs'["cron"] = jobs["cron"]
        /\ jobs'["launchd"] = jobs["launchd"]
    BY <1>0, <1>1, <1>3 DEF ScheduleTyped, Kinds
  <2>3. disk' \in [Files -> Nat] /\ \A f \in Files : disk'[f] = IF f = "link" THEN 1 ELSE disk[f]
    BY <1>0, <1>3, WithIs DEF Files
  <2>4. ScheduleTyped' /\ OnPlatform' /\ Linked'
    BY <1>0, <1>1, <2>0, <2>2, <2>3 DEF ScheduleTyped, OnPlatform, Linked, Files
  <2>5. Installed' /\ disk'["link"] # 0 /\ (~dirty => jobs'["cron"] = 0)
    BY <1>0, <1>1, <2>2, <2>3 DEF Installed, Artifacts, Files, Silent, Kinds
  <2>6. Staged'
    BY <1>0, <1>1, <2>0, <2>1, <2>2, <2>5 DEF Staged, Before, After, Activating, Initializing
  <2>. QED
    BY <1>0, <2>0, <2>1, <2>4, <2>6, StepsOn
<1>. QED
  BY <1>2, <1>3 DEF ActivateSystemd

LEMMA StripInstalledCronKeeps ==
    ASSUME ScheduleInv, TypeOK, StripInstalledCron
    PROVE  ScheduleInv'
<1>0. /\ cmd # None /\ cmd.at = "stripOld" /\ Staged /\ ScheduleTyped /\ OnPlatform /\ Linked
      /\ UNCHANGED <<platform, reach, runtime, last, dirty>> /\ cmd' = [cmd EXCEPT !.at = "mark"]
      /\ disk' = Without({"cron"})
      /\ jobs' = IF "crontab" \in reach THEN [jobs EXCEPT !["cron"] = 0] ELSE jobs
  BY DEF StripInstalledCron, At, Goto, surroundings, ScheduleInv
<1>1. /\ ScheduleKind = "systemd" /\ platform = "linux" /\ Activating /\ disk["service"] = runtime
      /\ disk["timer"] = runtime /\ runtime # 0 /\ disk["link"] # 0 /\ jobs["systemd"] = runtime
      /\ (~dirty => jobs["cron"] = 0) /\ jobs["launchd"] = 0
      /\ ScheduleKind' = "systemd" /\ {"systemctl", "manager"} \subseteq reach
  BY <1>0, Kind DEF Staged, Installed, Artifacts, ScheduleTyped, ScheduleKind, OnPlatform
<1>2. /\ cmd' # None /\ cmd'.at = "mark" /\ cmd'.op = cmd.op /\ cmd'.activate = cmd.activate
  BY <1>0, Goes DEF Stages
<1>3. /\ disk' \in [Files -> Nat] /\ disk'["cron"] = 0 /\ disk'["service"] = runtime
      /\ disk'["timer"] = runtime /\ disk'["link"] # 0 /\ disk'["plist"] = disk["plist"]
  BY <1>0, <1>1, WithoutIs DEF Files
<1>4. /\ jobs' \in [Kinds -> Nat] /\ jobs'["systemd"] = runtime /\ jobs'["launchd"] = 0
      /\ jobs'["cron"] # 0 => dirty /\ "crontab" \notin reach
  BY <1>0, <1>1 DEF ScheduleTyped, Kinds
<1>5. ScheduleTyped' /\ OnPlatform' /\ Linked'
  BY <1>0, <1>1, <1>3, <1>4 DEF ScheduleTyped, OnPlatform, Linked
<1>6. Scheduled'
  <2>1. CheckedKind' = "systemd"
    BY <1>0, <1>1, <1>3 DEF CheckedKind, HasSystemdArtifact, Present
  <2>2. Artifacts("systemd") = {"service", "timer"}
    BY DEF Artifacts
  <2>3. CheckInstalled'
    BY <1>0, <1>1, <1>3, <2>1, <2>2 DEF CheckInstalled, Readable, Present
  <2>4. CheckLive'
    BY <1>0, <1>1, <1>3, <1>4, <2>1, <2>2 DEF CheckLive, Readable, CheckSystemdLive, Present
  <2>. QED
    BY <2>3, <2>4 DEF Scheduled
<1>7. Activated'
  BY <1>0, <1>1, <1>3, <1>4, <1>6 DEF Activated, Installed, Artifacts, Alone, Kinds
<1>8. Staged'
  BY <1>0, <1>1, <1>2, <1>7 DEF Staged, Before, After, Activating, Initializing
<1>. QED
  BY <1>0, <1>2, <1>5, <1>8, StepsOn

LEMMA ActivateCronKeeps ==
    ASSUME ScheduleInv, TypeOK, ActivateCron
    PROVE  ScheduleInv'
<1>0. /\ cmd # None /\ cmd.at = "activate" /\ ScheduleKind = "cron" /\ Staged /\ ScheduleTyped
      /\ OnPlatform /\ Linked /\ UNCHANGED <<disk, platform, reach, runtime>>
  BY DEF ActivateCron, At, surroundings, ScheduleInv
<1>1. /\ platform = "linux" /\ Activating /\ Freed /\ disk["cron"] = runtime
      /\ (~dirty => Silent) /\ ScheduleKind' = "cron" /\ runtime \in Nat /\ Installed
  BY <1>0, Kind DEF Staged, Installed, Artifacts, ScheduleTyped, ScheduleKind
<1>2. CASE "crontab" \notin reach
  BY <1>0, <1>1, <1>2, FailsAsItWas DEF ActivateCron, Silent, Clean
<1>3. CASE "crontab" \in reach
  <2>0. /\ UNCHANGED <<last, dirty>> /\ cmd' = [cmd EXCEPT !.at = "dropUnits"]
        /\ jobs' = [jobs EXCEPT !["cron"] = disk["cron"]]
    BY <1>3 DEF ActivateCron, Goto
  <2>1. /\ cmd' # None /\ cmd'.at = "dropUnits" /\ cmd'.op = cmd.op /\ cmd'.activate = cmd.activate
    BY <1>0, <2>0, Goes DEF Stages
  <2>2. /\ jobs' \in [Kinds -> Nat] /\ jobs'["cron"] = runtime /\ jobs'["systemd"] = 0
        /\ jobs'["launchd"] = jobs["launchd"]
    BY <1>0, <1>1, <2>0 DEF ScheduleTyped, Kinds, Freed
  <2>3. ScheduleTyped' /\ OnPlatform' /\ Linked' /\ Freed' /\ Installed'
    BY <1>0, <1>1, <2>0, <2>2 DEF ScheduleTyped, OnPlatform, Linked, Freed, Installed
  <2>4. Staged'
    BY <1>0, <1>1, <1>3, <2>0, <2>1, <2>2, <2>3 DEF Staged, Before, After, Activating, Initializing
  <2>. QED
    BY <1>0, <2>0, <2>1, <2>3, <2>4, StepsOn
<1>. QED
  BY <1>2, <1>3

LEMMA DropUnitsKeeps ==
    ASSUME ScheduleInv, TypeOK, DropUnits
    PROVE  ScheduleInv'
<1>0. /\ cmd # None /\ cmd.at = "dropUnits" /\ Staged /\ ScheduleTyped /\ OnPlatform /\ Linked
      /\ UNCHANGED <<jobs, platform, reach, runtime, last, dirty>> /\ cmd' = [cmd EXCEPT !.at = "mark"]
      /\ disk' = Without({"service", "timer", "link"})
  BY DEF DropUnits, At, Goto, surroundings, ScheduleInv
<1>1. /\ ScheduleKind = "cron" /\ platform = "linux" /\ Activating /\ disk["cron"] = runtime
      /\ runtime # 0 /\ jobs["cron"] = runtime /\ jobs["systemd"] = 0 /\ jobs["launchd"] = 0
      /\ ScheduleKind' = "cron" /\ "crontab" \in reach
  BY <1>0, Kind DEF Staged, Installed, Freed, Artifacts, ScheduleTyped, ScheduleKind, OnPlatform
<1>2. /\ cmd' # None /\ cmd'.at = "mark" /\ cmd'.op = cmd.op /\ cmd'.activate = cmd.activate
  BY <1>0, Goes DEF Stages
<1>3. /\ disk' \in [Files -> Nat] /\ disk'["service"] = 0 /\ disk'["timer"] = 0 /\ disk'["link"] = 0
      /\ disk'["cron"] = runtime /\ disk'["plist"] = disk["plist"]
  BY <1>0, <1>1, WithoutIs DEF Files
<1>5. ScheduleTyped' /\ OnPlatform' /\ Linked'
  BY <1>0, <1>1, <1>3 DEF ScheduleTyped, OnPlatform, Linked
<1>6. Scheduled'
  <2>1. CheckedKind' = "cron"
    BY <1>0, <1>1, <1>3 DEF CheckedKind, HasSystemdArtifact, Present
  <2>2. Artifacts("cron") = {"cron"}
    BY DEF Artifacts
  <2>3. CheckInstalled'
    BY <1>0, <1>1, <1>3, <2>1, <2>2 DEF CheckInstalled, Readable, Present
  <2>4. CheckLive'
    BY <1>0, <1>1, <1>3, <2>1, <2>2 DEF CheckLive, Readable, CheckCronLive, Present
  <2>. QED
    BY <2>3, <2>4 DEF Scheduled
<1>7. Activated'
  BY <1>0, <1>1, <1>3, <1>6 DEF Activated, Installed, Artifacts, Alone, Kinds
<1>8. Staged'
  BY <1>0, <1>1, <1>2, <1>7 DEF Staged, Before, After, Activating, Initializing
<1>. QED
  BY <1>0, <1>2, <1>5, <1>8, StepsOn

LEMMA ActivateScheduleKeeps ==
    ASSUME ScheduleInv, TypeOK, ActivateSchedule
    PROVE  ScheduleInv'
<1>0. /\ cmd # None /\ cmd.at = "mark" /\ Staged /\ ScheduleTyped /\ OnPlatform /\ Linked
      /\ UNCHANGED <<jobs, platform, reach, runtime, last, dirty>> /\ cmd' = [cmd EXCEPT !.at = "scheduled"]
      /\ disk' = With({"marker"}, 1)
  BY DEF ActivateSchedule, At, Goto, surroundings, ScheduleInv
<1>1. Activating /\ Activated
  BY <1>0 DEF Staged
<1>2. /\ cmd' # None /\ cmd'.at = "scheduled" /\ cmd'.op = cmd.op /\ cmd'.activate = cmd.activate
  BY <1>0, Goes DEF Stages
<1>3. disk' \in [Files -> Nat] /\ \A f \in Files : disk'[f] = IF f = "marker" THEN 1 ELSE disk[f]
  BY <1>0, WithIs DEF Files
<1>4. ScheduleTyped' /\ OnPlatform' /\ Linked'
  BY <1>0, <1>3 DEF ScheduleTyped, OnPlatform, Linked, Files
<1>5. disk'["marker"] # 0 /\ \A f \in Files \ {"marker"} : disk'[f] = disk[f]
  BY <1>3 DEF Files
<1>6. ScheduleKind' = ScheduleKind /\ Installed'
  BY <1>0, <1>1, <1>5, Kind DEF ScheduleKind, Activated, Installed, Files
<1>7. Scheduled'
  <2>1. CheckedKind' = CheckedKind
    BY <1>0, <1>5 DEF CheckedKind, HasSystemdArtifact, Present, Files
  <2>2. \A f \in Artifacts(CheckedKind) : f \in Files \ {"marker"}
    BY <1>0 DEF Artifacts, CheckedKind, Files, ScheduleTyped
  <2>3. CheckInstalled' /\ Readable'
    BY <1>0, <1>1, <1>5, <2>1, <2>2 DEF Activated, Scheduled, CheckInstalled, Readable, Present
  <2>4. CheckLive'
    BY <1>0, <1>1, <1>5, <2>1, <2>3 DEF Activated, Scheduled, CheckLive, CheckLaunchdLive, CheckSystemdLive,
                                        CheckCronLive, Present, Files
  <2>. QED
    BY <2>3, <2>4 DEF Scheduled
<1>8. Activated'
  BY <1>0, <1>1, <1>6, <1>7 DEF Activated, Alone
<1>9. Staged'
  BY <1>0, <1>1, <1>2, <1>5, <1>8 DEF Staged, Before, After, Activating, Initializing
<1>. QED
  BY <1>0, <1>2, <1>4, <1>9, StepsOn

LEMMA RemoveArtifactsKeeps ==
    ASSUME ScheduleInv, TypeOK, RemoveArtifacts
    PROVE  ScheduleInv'
<1>. DEFINE gone == IF platform = "darwin" THEN {"plist", "cron", "marker"} ELSE Files \ {"plist"}
<1>0. /\ cmd # None /\ cmd.at = "remove" /\ Staged /\ ScheduleTyped /\ OnPlatform /\ Linked
      /\ UNCHANGED <<jobs, platform, reach, runtime, last, dirty>> /\ cmd' = [cmd EXCEPT !.at = "stripAll"]
      /\ disk' = Without(gone)
  BY DEF RemoveArtifacts, At, Goto, surroundings, ScheduleInv
<1>1. /\ cmd' # None /\ cmd'.at = "stripAll" /\ cmd'.op = cmd.op /\ cmd'.activate = cmd.activate
  BY <1>0, Goes DEF Stages
<1>2. disk' \in [Files -> Nat] /\ \A f \in Files : disk'[f] = IF f \in gone THEN 0 ELSE disk[f]
  BY <1>0, WithoutIs
<1>3. \A f \in Files : disk'[f] = 0
  BY <1>0, <1>2 DEF OnPlatform, ScheduleTyped, Files
<1>4. Uninstalls /\ Freed /\ (~dirty => Silent)
  BY <1>0 DEF Staged
<1>5. ScheduleTyped' /\ OnPlatform' /\ Linked'
  BY <1>0, <1>2, <1>3, <1>4 DEF ScheduleTyped, OnPlatform, Linked, Files, Freed
<1>6. Freed' /\ (~dirty => Silent')
  BY <1>0, <1>3, <1>4 DEF Freed, Silent, Files
<1>7. Staged'
  BY <1>0, <1>1, <1>3, <1>4, <1>6 DEF Staged, Before, After, Uninstalls
<1>. QED
  BY <1>0, <1>1, <1>5, <1>7, StepsOn

LEMMA UninstallLinuxKeeps ==
    ASSUME ScheduleInv, TypeOK, UninstallLinux
    PROVE  ScheduleInv'
<1>0. /\ cmd # None /\ cmd.at = "stripAll" /\ Staged /\ ScheduleTyped /\ OnPlatform /\ Linked
      /\ UNCHANGED <<disk, platform, reach, runtime>> /\ End(TRUE)
      /\ jobs' = IF platform = "linux" /\ "crontab" \in reach THEN [jobs EXCEPT !["cron"] = 0] ELSE jobs
  BY DEF UninstallLinux, At, surroundings, ScheduleInv
<1>1. Uninstalls /\ Freed /\ (~dirty => Silent) /\ \A f \in Files : disk[f] = 0
  BY <1>0 DEF Staged
<1>2. cmd' = None /\ last' = [op |-> "uninstall", activate |-> FALSE, ok |-> TRUE] /\ dirty' = dirty
  <2>1. cmd.activate = FALSE
    BY <1>0, <1>1 DEF Uninstalls, TypeOK, Running
  <2>. QED
    BY <1>0, <1>1, <2>1 DEF End, Uninstalls, ScheduleTyped
<1>3. /\ jobs' \in [Kinds -> Nat] /\ jobs'["systemd"] = 0 /\ jobs'["launchd"] = jobs["launchd"]
      /\ jobs'["cron"] = 0 \/ (jobs'["cron"] = jobs["cron"] /\ "crontab" \notin reach)
  BY <1>0, <1>1 DEF ScheduleTyped, OnPlatform, Freed, Kinds
<1>4. ScheduleTyped' /\ OnPlatform' /\ Linked'
  BY <1>0, <1>2, <1>3 DEF ScheduleTyped, OnPlatform, Linked
<1>5. ~dirty => Clean'
  BY <1>0, <1>1, <1>3 DEF Clean, Silent, Kinds, Files
<1>6. OneSchedule'
  BY <1>0, <1>1, <1>2, <1>3 DEF OneSchedule, Present, Silent, Kinds
<1>. QED
  BY <1>2, <1>4, <1>5, <1>6 DEF ScheduleInv

LEMMA StepsKeepSchedule ==
    ASSUME ScheduleInv, TypeOK, ScheduleStep
    PROVE  ScheduleInv'
BY InstallInitScheduleKeeps, DeactivateLaunchdKeeps, DisableTimerKeeps, StripActivatedCronKeeps, UnmarkKeeps,
   InstallScheduleKeeps, ActivateLaunchdKeeps, ActivateSystemdKeeps, StripInstalledCronKeeps,
   ActivateCronKeeps, DropUnitsKeeps, ActivateScheduleKeeps, UninstallLaunchdKeeps, RemoveArtifactsKeeps,
   UninstallLinuxKeeps DEF ScheduleStep

-----------------------------------------------------------------------------
(* The other steps of the commands, and what happens around them.          *)
LEMMA BeginningsKeep ==
    ASSUME ScheduleInv, TypeOK, StartInit \/ Uninstall
    PROVE  ScheduleInv'
<1>1. CASE StartInit
  <2>0. PICK op \in left.ops \ {"uninstall"}, activate \in BOOLEAN, offbox \in left.offbox, k \in kits :
           cmd' = [Idle EXCEPT !.op = op, !.activate = activate, !.offbox = offbox, !.key = k]
    BY <1>1 DEF StartInit
  <2>1. op \in Commands /\ offbox \in Answers /\ k \in Nat
    BY DEF TypeOK, InstanceTypes
  <2>2. cmd' \in Running /\ cmd'.at = "load" /\ cmd'.op # "uninstall"
    BY <2>0, <2>1 DEF Idle, Running, Commands, Answers
  <2>3. cmd = None /\ last' = None /\ UNCHANGED <<platform, reach, runtime, disk, jobs, dirty>>
    BY <1>1 DEF StartInit, files, surroundings
  <2>. QED
    BY <2>2, <2>3, RunningIsSome, Begins DEF Before
<1>2. CASE Uninstall
  <2>1. cmd' = [Idle EXCEPT !.op = "uninstall", !.at = "deactivate"]
    BY <1>2 DEF Uninstall, StartUninstall
  <2>2. cmd' \in Running /\ cmd'.at = "deactivate" /\ ~cmd'.activate
    BY <2>1 DEF Idle, Running, Commands, Answers, Stages
  <2>3. cmd = None /\ last' = None /\ UNCHANGED <<platform, reach, runtime, disk, jobs, dirty>>
    BY <1>2 DEF Uninstall, StartUninstall, files, surroundings
  <2>. QED
    BY <2>2, <2>3, RunningIsSome, Begins DEF Before
<1>. QED
  BY <1>1, <1>2

(* The command has the configuration, or the migration failed under it.    *)
LEMMA LoadedKeeps ==
    ASSUME ScheduleInv, TypeOK, cmd # None, cmd.at = "load",
           UNCHANGED <<platform, reach, runtime, disk, jobs>>,
           \/ Fail
           \/ UNCHANGED <<last, dirty>> /\ \E n \in Nat : cmd' = [cmd EXCEPT !.at = "write", !.recipient = n]
    PROVE  ScheduleInv'
<1>1. CASE Fail
  BY <1>1, FailsAsItWas DEF ScheduleInv, Staged, Before
<1>2. ASSUME UNCHANGED <<last, dirty>>, NEW n \in Nat, cmd' = [cmd EXCEPT !.at = "write", !.recipient = n]
      PROVE  ScheduleInv'
  <2>1. cmd \in Running
    BY DEF TypeOK
  <2>2. cmd' \in Running /\ cmd'.at = "write" /\ cmd'.op = cmd.op /\ cmd'.activate = cmd.activate
    BY <1>2, <2>1 DEF Running
  <2>. QED
    BY <1>2, <2>2, RunningIsSome, MovesAmong DEF Before
<1>. QED
  BY <1>1, <1>2

LEMMA ReadersKeepSchedule ==
    ASSUME SetupInv, ScheduleInv, NEW r \in Readers,
           LoadConfig(r) \/ LookForState(r) \/ MigrateLegacyState(r) \/ MigrateLegacyConfig(r)
    PROVE  ScheduleInv'
<1>0. TypeOK /\ UNCHANGED <<platform, reach, runtime, disk, jobs>>
  BY DEF SetupInv, LoadConfig, LookForState, MigrateLegacyState, MigrateLegacyConfig, files, surroundings, schedulerVars
<1>1. CASE UNCHANGED <<cmd, last, dirty>>
  BY <1>0, <1>1, StandsStill
<1>2. CASE r = "cli" /\ ~UNCHANGED <<cmd, last, dirty>>
  <2>1. cmd # None /\ cmd.at = "load"
    <3>1. CASE LoadConfig(r)
      BY <1>2, <3>1 DEF LoadConfig, At
    <3>2. CASE ~LoadConfig(r)
      <4>1. loads["cli"] # None
        BY <1>2, <3>2 DEF LookForState, MigrateLegacyState, MigrateLegacyConfig, StateIsMoved
      <4>. QED
        BY <4>1 DEF SetupInv, Migrated
    <3>. QED
      BY <3>1, <3>2
  <2>2. Fail \/ (UNCHANGED <<last, dirty>> /\ \E n \in Nat : cmd' = [cmd EXCEPT !.at = "write", !.recipient = n])
    <3>1. CASE LoadConfig(r)
      <4>. DEFINE n == IF config = None THEN 0 ELSE config.recipient
      <4>1. cmd' = [cmd EXCEPT !.at = "write", !.recipient = n] /\ UNCHANGED <<last, dirty>>
        BY <1>2, <3>1 DEF LoadConfig, Loaded
      <4>2. n \in Nat
        BY <1>0 DEF TypeOK, Configurations
      <4>. QED
        BY <4>1, <4>2
    <3>2. CASE MigrateLegacyState(r)
      BY <1>2, <3>2 DEF MigrateLegacyState
    <3>3. CASE MigrateLegacyConfig(r)
      <4>. DEFINE migrated == [loads[r].seen EXCEPT !.v = 2]
                  n == migrated.recipient
      <4>0. loads[r] \in Loads
        BY <3>3, ReaderSteps DEF MigrateLegacyConfig, StateIsMoved
      <4>1. migrated \in Configurations
        BY <4>0 DEF Loads, Configurations
      <4>. HIDE DEF migrated
      <4>2. migrated # None /\ migrated.recipient \in Nat
        BY <4>1, InstancesAssumption DEF Configurations
      <4>3. Loaded(r, migrated)
        BY <3>3 DEF MigrateLegacyConfig, migrated
      <4>4. cmd' = [cmd EXCEPT !.at = "write", !.recipient = n] /\ UNCHANGED <<last, dirty>>
        BY <1>2, <4>2, <4>3 DEF Loaded
      <4>. QED
        BY <4>2, <4>4
    <3>4. CASE LookForState(r)
      BY <1>2, <3>4 DEF LookForState, schedulerVars
    <3>. QED
      BY <3>1, <3>2, <3>3, <3>4
  <2>. QED
    BY <1>0, <2>1, <2>2, LoadedKeeps
<1>3. CASE r = "job"
  BY <1>0, <1>3, StandsStill
     DEF LoadConfig, LookForState, MigrateLegacyState, MigrateLegacyConfig, Loaded, schedulerVars
<1>. QED
  BY <1>1, <1>2, <1>3 DEF Readers

LEMMA CommandsKeepSchedule ==
    ASSUME TypeOK, ScheduleInv,
           \/ WriteInitConfig \/ FinishInit \/ CancelWizard \/ MatchResident \/ SkipOffbox
           \/ ChooseKey \/ DeliverRecoveryKit \/ WriteIdentity \/ WriteOffbox
    PROVE  ScheduleInv'
<1>0. cmd # None /\ UNCHANGED <<platform, reach, runtime, disk, jobs>> /\ Staged /\ cmd \in Running /\ kits \subseteq Nat
  BY DEF WriteInitConfig, FinishInit, CancelWizard, MatchResident, SkipOffbox, ChooseKey, DeliverRecoveryKit,
         WriteIdentity, WriteOffbox, At, files, surroundings, ScheduleInv, TypeOK
<1>1. CASE WriteInitConfig
  <2>0. cmd.at = "write"
    BY <1>1 DEF WriteInitConfig, At
  <2>1. CASE Fail
    BY <1>0, <2>0, <2>1, FailsAsItWas DEF Staged, Before
  <2>2. CASE ~Fail
    <3>. DEFINE n == WithOffbox(config).recipient
    <3>1. UNCHANGED <<last, dirty>> /\ cmd' = [cmd EXCEPT !.at = "schedule", !.recipient = n]
      BY <1>1, <2>2 DEF WriteInitConfig
    <3>2. n \in Nat
      <4>1. cmd.key \in Nat
        BY <1>0 DEF Running
      <4>. QED
        BY <4>1 DEF WithOffbox, SkippedOffbox, Configured, TypeOK, Configurations
    <3>. HIDE DEF n
    <3>3. cmd' \in Running /\ cmd'.at = "schedule" /\ cmd'.op = cmd.op /\ cmd'.activate = cmd.activate
      BY <1>0, <3>1, <3>2 DEF Running, Stages
    <3>. QED
      BY <1>0, <2>0, <3>1, <3>3, RunningIsSome, MovesAmong DEF Before
  <2>. QED
    BY <2>1, <2>2
<1>2. CASE FinishInit \/ MatchResident \/ SkipOffbox \/ WriteOffbox
  <2>1. End(TRUE) /\ cmd.at \in After
    BY <1>2 DEF FinishInit, MatchResident, SkipOffbox, WriteOffbox, At, After
  <2>. QED
    BY <1>0, <2>1, Succeeds
<1>3. CASE CancelWizard
  <2>1. Fail /\ cmd.at \in After
    BY <1>3 DEF CancelWizard, At, After
  <2>2. ~dirty => Clean
    BY <1>0, <2>1, LeavesClean
  <2>. QED
    BY <1>0, <2>1, <2>2, FailsAsItWas
<1>4. CASE ChooseKey
  <2>1. PICK stage \in {"configure", "deliver"}, k \in kits \cup Keys : cmd' = [cmd EXCEPT !.at = stage, !.key = k]
    BY <1>4 DEF ChooseKey, ImportRecoveryIdentity
  <2>2. UNCHANGED <<last, dirty>> /\ cmd.at = "scheduled" /\ k \in Nat
    <3>1. left.keys \in Nat
      BY DEF TypeOK, InstanceTypes
    <3>2. Keys \subseteq Nat
      BY <3>1 DEF Keys
    <3>. QED
      BY <1>0, <1>4, <3>2 DEF ChooseKey, At
  <2>3. cmd' \in Running /\ cmd'.at = stage /\ cmd'.op = cmd.op /\ cmd'.activate = cmd.activate
    BY <1>0, <2>1, <2>2 DEF Running
  <2>. QED
    BY <1>0, <2>2, <2>3, RunningIsSome, MovesAmong DEF After
<1>5. CASE DeliverRecoveryKit \/ WriteIdentity
  <2>1. PICK stage \in {"configure", "offbox"} : Goto(stage)
    BY <1>5 DEF DeliverRecoveryKit, WriteIdentity
  <2>2. /\ UNCHANGED <<last, dirty>> /\ cmd' = [cmd EXCEPT !.at = stage]
        /\ cmd.at \in {"deliver", "configure"}
    BY <1>5, <2>1 DEF DeliverRecoveryKit, WriteIdentity, At, Goto
  <2>3. cmd' # None /\ cmd'.at = stage /\ cmd'.op = cmd.op /\ cmd'.activate = cmd.activate
    BY <1>0, <2>2, Goes
  <2>. QED
    BY <1>0, <2>2, <2>3, MovesAmong DEF After
<1>. QED
  BY <1>1, <1>2, <1>3, <1>4, <1>5

(* A job whose timer or agent a login starts is marked, or tells of itself.*)
LEMMA LoginKeeps ==
    ASSUME ScheduleInv, Login
    PROVE  ScheduleInv'
<1>0. /\ ScheduleTyped /\ OnPlatform /\ UNCHANGED <<disk, platform, reach, runtime>> /\ jobs' = AfterLogin
      /\ cmd' = None /\ last' = None
      /\ dirty' = (dirty \/ cmd # None \/ (disk["plist"] # 0 /\ disk["marker"] = 0))
  BY DEF Login, surroundings, ScheduleInv, Present
<1>1. /\ jobs' \in [Kinds -> Nat] /\ jobs'["launchd"] = disk["plist"] /\ jobs'["cron"] = jobs["cron"]
      /\ jobs'["systemd"] = IF disk["link"] # 0 /\ disk["timer"] # 0 THEN disk["service"] ELSE 0
  BY <1>0 DEF AfterLogin, ScheduleTyped, Kinds, Files, Present
<1>2. ScheduleTyped' /\ OnPlatform' /\ Linked'
  BY <1>0, <1>1 DEF ScheduleTyped, OnPlatform, Linked
<1>3. ~dirty' => Clean'
  BY <1>0, <1>1 DEF ScheduleInv, Clean, Main, Kinds
<1>. QED
  BY <1>0, <1>2, <1>3 DEF ScheduleInv, OneSchedule

LEMMA KillKeeps ==
    ASSUME ScheduleInv, KillCommand
    PROVE  ScheduleInv'
<1>0. /\ ScheduleTyped /\ OnPlatform /\ Linked /\ UNCHANGED <<jobs, platform, reach, runtime>>
      /\ cmd' = None /\ last' = None /\ dirty' = TRUE
      /\ disk' = disk \/ \E some \in SUBSET Artifacts(ScheduleKind) : disk' = With(some, runtime)
  BY DEF KillCommand, surroundings, ScheduleInv
<1>1. /\ disk' \in [Files -> Nat]
      /\ \A f \in Files : disk'[f] = disk[f] \/ f \in Artifacts(ScheduleKind)
      /\ disk["link"] # 0 => disk'["link"] # 0
  <2>1. ASSUME NEW some \in SUBSET Artifacts(ScheduleKind), disk' = With(some, runtime)
        PROVE  /\ disk' \in [Files -> Nat]
               /\ \A f \in Files : disk'[f] = disk[f] \/ f \in Artifacts(ScheduleKind)
               /\ disk["link"] # 0 => disk'["link"] # 0
    <3>1. runtime \in Nat
      BY <1>0 DEF ScheduleTyped
    <3>. QED
      BY <1>0, <2>1, <3>1, WithIs, Kind DEF Files
  <2>2. CASE disk' = disk
    BY <1>0, <2>2 DEF ScheduleTyped
  <2>. QED
    BY <1>0, <2>1, <2>2
<1>2. ScheduleTyped' /\ Linked'
  BY <1>0, <1>1 DEF ScheduleTyped, Linked
<1>3. OnPlatform'
  BY <1>0, <1>1, Kind DEF ScheduleTyped, OnPlatform, Files, Artifacts, ScheduleKind
<1>. QED
  BY <1>0, <1>2, <1>3 DEF ScheduleInv, OneSchedule

LEMMA SurroundingsKeepSchedule ==
    ASSUME ScheduleInv, Surroundings
    PROVE  ScheduleInv'
<1>1. CASE Upgrade
  <2>0. /\ cmd' = cmd /\ cmd = None /\ last' = None /\ UNCHANGED <<disk, jobs, platform, reach, dirty>>
        /\ runtime' = runtime + 1
    BY <1>1 DEF Upgrade, files
  <2>1. ScheduleTyped' /\ OnPlatform' /\ Linked' /\ (Clean' <=> Clean)
    BY <2>0 DEF ScheduleInv, ScheduleTyped, OnPlatform, Linked, Clean
  <2>. QED
    BY <2>0, <2>1 DEF ScheduleInv, OneSchedule
<1>2. CASE \E r \in left.reaches : AnotherShell(r)
  <2>0. /\ cmd' = cmd /\ cmd = None /\ last' = None /\ UNCHANGED <<disk, jobs, platform, runtime, dirty>>
    BY <1>2 DEF AnotherShell, files
  <2>1. ScheduleTyped' /\ OnPlatform' /\ Linked' /\ (Clean' <=> Clean)
    BY <2>0 DEF ScheduleInv, ScheduleTyped, OnPlatform, Linked, Clean
  <2>. QED
    BY <2>0, <2>1 DEF ScheduleInv, OneSchedule
<1>. QED
  BY <1>1, <1>2, LoginKeeps, KillKeeps DEF Surroundings

LEMMA ScheduleInit == Init => ScheduleInv
<1>. SUFFICES ASSUME Init PROVE ScheduleInv
  OBVIOUS
<1>1. /\ platform \in {"darwin", "linux"} /\ disk = [f \in Files |-> 0] /\ jobs = [k \in Kinds |-> 0]
      /\ runtime = 1 /\ cmd = None /\ last = None /\ dirty = FALSE
  BY InstancesAssumption DEF Init, InstanceTypes
<1>2. ScheduleTyped
  <2>1. disk \in [Files -> Nat]
    BY <1>1
  <2>2. jobs \in [Kinds -> Nat]
    BY <1>1
  <2>3. runtime \in Nat \ {0}
    <3>1. runtime = 1
      BY <1>1
    <3>. QED
      BY <3>1
  <2>4. platform \in {"darwin", "linux"} /\ dirty \in BOOLEAN
    BY <1>1
  <2>. QED
    BY <2>1, <2>2, <2>3, <2>4 DEF ScheduleTyped
<1>3. (\A f \in Files : disk[f] = 0) /\ (\A k \in Kinds : jobs[k] = 0)
  BY <1>1
<1>4. OnPlatform /\ Linked /\ Clean
  BY <1>3 DEF OnPlatform, Linked, Clean, Files, Kinds
<1>. QED
  BY <1>1, <1>2, <1>4 DEF ScheduleInv, OneSchedule

LEMMA ScheduleNext == SetupInv /\ ScheduleInv /\ [Next]_vars => ScheduleInv'
<1>. SUFFICES ASSUME SetupInv, ScheduleInv, [Next]_vars
              PROVE  ScheduleInv'
  OBVIOUS
<1>0. TypeOK
  BY DEF SetupInv
<1>1. CASE HourPasses \/ KillReader \/ AddCloudRemote \/ LinkCloudRemote \/ AddFromRecoveryKit
           \/ UnlinkCloudRemote \/ UNCHANGED vars
  <2>1. UNCHANGED <<platform, reach, runtime, disk, jobs, cmd, last, dirty>>
    BY <1>1 DEF HourPasses, Hour, files, KillReader, AddCloudRemote, LinkCloudRemote, AddFromRecoveryKit,
                UnlinkCloudRemote, vars, schedulerVars
  <2>. QED
    BY <2>1, StandsStill
<1>2. CASE StartInit \/ Uninstall \/ ScheduleStep \/ Surroundings
  BY <1>0, <1>2, BeginningsKeep, StepsKeepSchedule, SurroundingsKeepSchedule
<1>3. ASSUME NEW r \in Readers,
             LoadConfig(r) \/ LookForState(r) \/ MigrateLegacyState(r) \/ MigrateLegacyConfig(r)
      PROVE  ScheduleInv'
  BY <1>3, ReadersKeepSchedule
<1>4. CASE \/ WriteInitConfig \/ FinishInit \/ CancelWizard \/ MatchResident \/ SkipOffbox
           \/ ChooseKey \/ DeliverRecoveryKit \/ WriteIdentity \/ WriteOffbox
  BY <1>0, <1>4, CommandsKeepSchedule
<1>. QED
  BY <1>1, <1>2, <1>3, <1>4 DEF Next

(* core/setup.ts, scheduler.ts: a completed command leaves one schedule or  *)
(* none, whatever commands were killed before and from whatever shells     *)
(* they ran.                                                               *)
THEOREM ScheduledOnce == Spec => []OneSchedule
<1>1. ScheduleInv => OneSchedule
  BY DEF ScheduleInv
<1>. QED
  BY <1>1, InitIsSetUp, SetupNext, ScheduleInit, ScheduleNext, PTL DEF Spec

(* doctor/facts.ts: when doctor finds the machine scheduled, the next      *)
(* sweep will run, unless a command was cut short on the way.              *)
THEOREM DoctorIsNotFooled == Spec => []DoctorSeesTheJob
<1>1. ScheduleInv => DoctorSeesTheJob
  <2>. SUFFICES ASSUME ScheduleInv, cmd = None, Scheduled, ~dirty
                PROVE  Runs
    BY DEF DoctorSeesTheJob
  <2>0. Clean /\ ScheduleTyped
    BY DEF ScheduleInv
  <2>1. CheckedKind \in Kinds /\ Main[CheckedKind] \in Artifacts(CheckedKind) \ {"timer"}
    BY <2>0 DEF CheckedKind, Kinds, Main, Artifacts, ScheduleTyped
  <2>2. disk[Main[CheckedKind]] = runtime
    BY <2>1 DEF Scheduled, CheckInstalled
  <2>3. jobs[CheckedKind] # 0
    BY <2>1 DEF Scheduled, CheckLive, CheckLaunchdLive, CheckSystemdLive, CheckCronLive, Kinds
  <2>. QED
    BY <2>0, <2>1, <2>2, <2>3 DEF Clean, Runs
<1>. QED
  BY <1>1, InitIsSetUp, SetupNext, ScheduleInit, ScheduleNext, PTL DEF Spec
=============================================================================
