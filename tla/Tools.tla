-------------------------------- MODULE Tools --------------------------------
(***************************************************************************)
(* The tools pastelup manages and the fixed lists of them its commands      *)
(* walk through.  A tool is named by its constants.ToolType string; a name   *)
(* of the --tool flag ("node", "masternode", ...) is mapped to its tool by   *)
(* toolToToolType.                                                          *)
(***************************************************************************)
EXTENDS Sequences

PastelD == "pasteld"
RQService == "rq-service"
DDService == "dd-service"
DDImgService == "dd-img-server"
SuperNode == "supernode"
WalletNode == "walletnode"
Hermes == "hermes"
Bridge == "bridge"

ToolType == {PastelD, RQService, DDService, DDImgService,
             SuperNode, WalletNode, Hermes, Bridge}

\* The names `update install-service --tool` accepts.
installServiceFlag == {"node", "masternode", "supernode", "walletnode", "dd-service",
                       "rq-service", "hermes", "bridge", "dd-img-service"}

toolToToolType ==
  [n \in installServiceFlag |->
     CASE n \in {"node", "masternode"} -> PastelD
       [] n = "dd-img-service"         -> DDImgService
       [] OTHER                        -> n]

\* What `--solution` expands to, in the order the services are handled.
solutionToTools ==
  [supernode  |-> <<"masternode", "supernode", "dd-service",
                    "rq-service", "hermes", "dd-img-service">>,
   walletnode |-> <<"node", "walletnode", "rq-service">>]

\* The lists of the `stop` sub-commands.
stopWallet    == <<WalletNode, RQService, PastelD, Bridge>>
stopSuperNode == <<SuperNode, RQService, DDImgService, DDService, PastelD, Hermes>>
stopAll       == <<SuperNode, RQService, WalletNode, DDImgService,
                   DDService, PastelD, Hermes, Bridge>>
stopSNService == <<SuperNode, Hermes>>

\* The order the `start` sub-commands start their services in; hermes follows
\* supernode because runSuperNodeService ends with runHermesService.
startWallet    == <<PastelD, RQService, Bridge, WalletNode>>
startSuperNode == <<PastelD, RQService, DDService, SuperNode, Hermes>>
startSNService == <<SuperNode, Hermes>>

\* The services an update of the given component stops first.
appToServiceMap ==
  [t \in ToolType |->
     CASE t = WalletNode -> <<PastelD, RQService, WalletNode>>
       [] t = SuperNode  -> <<PastelD, RQService, DDService, SuperNode, Hermes>>
       [] OTHER          -> <<t>>]

\* The part of a list that concerns the tools of a host under study.
OnHost(list, tools) == SelectSeq(list, LAMBDA t : t \in tools)

=============================================================================
