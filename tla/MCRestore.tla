----------------------------- MODULE MCRestore -----------------------------
(* Restore checked on instances for each of its actors, half of them with two
   restores one after the other. *)
EXTENDS Restore

Instance(harness_, sources, time, turns, prunings, restores, kills) ==
    [harness |-> harness_, sources |-> sources, time |-> time, turns |-> turns,
     prunings |-> prunings, restores |-> restores, kills |-> kills]

MCInstances ==
    {Instance("claude-code", {}, 2, 3, 1, 1, 0), Instance("codex", {}, 2, 2, 0, 1, 1),
     Instance("codex", {}, 2, 2, 0, 2, 0), Instance("codex", {"mirror"}, 2, 2, 0, 1, 0),
     Instance("gemini", {"remote"}, 2, 2, 1, 2, 0), Instance("claude-code", {"mirror"}, 2, 2, 1, 2, 1)}
=============================================================================
