------------------------------- MODULE MCInstall -------------------------------
(* The commands of a small host for TLC. *)
EXTENDS Install

Plain(op, t, deps) == [op |-> op, tool |-> t, deps |-> deps, force |-> FALSE,
                       snapshot |-> FALSE, purge |-> FALSE, skip |-> {}]
MCSysFiles == <<"sysctl.conf", "limits.conf">>
MCCommands ==
  {[Plain("install", PastelD, TRUE) EXCEPT !.snapshot = TRUE],
   Plain("install", RQService, FALSE), Plain("install", Hermes, FALSE),
   Plain("install", WalletNode, TRUE), Plain("install", SuperNode, TRUE),
   Plain("update", SuperNode, TRUE),
   [Plain("uninstall", WalletNode, TRUE) EXCEPT !.purge = TRUE],
   [Plain("install", DDService, FALSE) EXCEPT !.force = TRUE],
   [Plain("update", PastelD, TRUE) EXCEPT !.snapshot = TRUE],
   [Plain("uninstall", RQService, FALSE) EXCEPT !.purge = TRUE],
   [Plain("uninstall", DDService, FALSE) EXCEPT !.purge = TRUE]}
    \cup {[Plain("update", DDService, FALSE) EXCEPT !.skip = S] : S \in SUBSET Skippable \ {{}}}
=============================================================================
