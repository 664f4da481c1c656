------------------------------ MODULE MCSetup ------------------------------
(***************************************************************************)
(* Setup checked: macOS, Linux from several shells, and the configuration, *)
(* new and of version 1.                                                   *)
(***************************************************************************)
EXTENDS Setup, TLC

Bound(commands, kills, logins, upgrades, shells, keys, links) ==
    [commands |-> commands, kills |-> kills, logins |-> logins, upgrades |-> upgrades,
     shells |-> shells, keys |-> keys, links |-> links]

Desktop == {"systemctl", "standard", "manager", "crontab"}

Instance(system, reaches, ops, offbox, legacy, bound) ==
    [platform |-> system, reaches |-> reaches, ops |-> ops, offbox |-> offbox,
     legacy |-> legacy] @@ bound

MCInstances ==
    {Instance("darwin", {{"crontab"}}, {"init", "uninstall"}, {"keep"}, FALSE, Bound(4, 1, 1, 1, 0, 0, 0)),
     Instance("linux", {Desktop, Desktop \ {"manager"}, Desktop \ {"systemctl"}, Desktop \ {"crontab"},
                       {"crontab"}, {"standard"}},
              {"init", "uninstall"}, {"keep"}, FALSE, Bound(3, 1, 1, 1, 2, 0, 0)),
     Instance("darwin", {{"crontab"}}, {"init", "wizard"}, {"keep", "skip", "remote"}, FALSE, Bound(3, 1, 0, 0, 0, 2, 2)),
     Instance("darwin", {{"crontab"}}, {"init"}, {"keep", "remote"}, TRUE, Bound(1, 2, 0, 0, 0, 0, 0))}
=============================================================================
