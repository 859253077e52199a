------------------------------- MODULE MCUpdate -------------------------------
(* A small host for TLC: its files and the updates it is given. *)
EXTENDS Update

\* A mainnet host: preserved and archived, only archived, neither.
MainItem == {"wallet.dat", "blocks", "debug.log"}
MCItem == {"", SubDir} \X MainItem
MCDDItem == {<<"dd", "support_files">>}

MCCommands == {<<"pasteld", {"clean"}>>, <<"pasteld", {"clean", "backup-all"}>>,
               <<"supernode", {"backup-all", "use-snapshot"}>>,
               <<"pasteld", {"no-backup", "backup-all"}>>}
NodeUpdate == {<<"pasteld", {}>>}
=============================================================================
