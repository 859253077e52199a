--------------------------- MODULE MCServiceManager ---------------------------
(* Instances of ServiceManager for TLC: hosts with some of the tools, and the *)
(* lists of the commands restricted to them.                                *)
EXTENDS ServiceManager

Lists(ls) == {OnHost(l, Name) : l \in ls} \ {<<>>}

NodeHost == {PastelD, DDService}
ScriptHost == {DDImgService, Bridge}
HermesHost == {PastelD, Hermes}

MCStopLists == Lists({stopWallet, stopSuperNode, stopAll, stopSNService}
                       \cup {<<t>> : t \in ToolType})
MCStartLists == Lists({startWallet, startSuperNode, startSNService}
                        \cup {<<t>> : t \in ToolType})
MCServiceLists == Lists({solutionToTools[s] : s \in DOMAIN solutionToTools}
                          \cup {<<n>> : n \in installServiceFlag})

\* The commands of a supernode on the whole host, and the service of the node.
SuperNodeStop == Lists({stopSuperNode})
SuperNodeStart == Lists({startSuperNode})
SuperNodeService == Lists({solutionToTools["supernode"], <<"node">>})
=============================================================================
