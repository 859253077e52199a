-------------------------------- MODULE Pasteld --------------------------------
(***************************************************************************)
(* The nodes that init and start work on: one pasteld a host, with a lock on  *)
(* its data directory, an RPC server that answers only when the node is       *)
(* loaded, and perhaps a systemd unit.  What the commands see of it.          *)
(*                                                                           *)
(* runPastelNode of cmd/start.go; StopPastelDAndWait, GetPastelInfo and       *)
(* WaitingForPastelDToStart of cmd/common.go; services/pastelcore.            *)
(***************************************************************************)
EXTENDS MasternodeConf

CONSTANT Plain   \* how a node is started that is no masternode

\* A masternode is started with its private key.
Role == Key \cup {Plain}

VARIABLES
  node,      \* Host -> its pasteld: how far it is, as what it was started, and
             \*         the masternode.conf it has read
  starting,  \* Host -> the processes that were started in the background; of two alike
             \*         one gets the lock, and the other, which is assumed to come to it
             \*         while the first holds it, exits
  units,     \* what pasteld is started as by its service, on hosts that have one
  managed    \* the hosts where systemd keeps it running

nodeVars == <<node, starting, units, managed>>
Status == {"off", "crashed", "loading", "ready", "stopping"}

NodeTypeOK ==
  /\ node \in [Host -> [is : Status, as : Role, sees : Content]]
  /\ starting \in [Host -> SUBSET Role]
  /\ units \in UNION {[H -> Role] : H \in SUBSET Host}
  /\ managed \subseteq DOMAIN units

Down(h) == node[h].is \in {"off", "crashed"}
Answers(h) == node[h].is = "ready"

\* A unit that was installed for a masternode has the key masternode.conf had then.
NodesInit ==
  /\ units \in UNION {[H -> {0, Plain}] : H \in IF "unit" \in Cases THEN SUBSET Host ELSE {{}}}
  /\ node \in [Host -> [is : {"off", "ready"} \cup ({"loading"} \cap Cases),
                        as : {0, Plain}, sees : UNION {{conf[h]} : h \in Host}]]
  /\ managed \in SUBSET {h \in DOMAIN units : node[h].is # "off"}
  /\ \A h \in Host : /\ node[h].sees = conf[h]
                     /\ node[h].as = IF h \in managed THEN units[h] ELSE Plain
  /\ starting = [h \in Host |-> {}]

-----------------------------------------------------------------------------
(* What happens on a host by itself. *)
Boots(h, r) == node' = [node EXCEPT ![h] = [is |-> "loading", as |-> r, sees |-> conf[h]]]

\* A second pasteld does not get the lock and exits.
PasteldStarts(h, r) ==
  /\ r \in starting[h]
  /\ starting' = [starting EXCEPT ![h] = @ \ {r}]
  /\ IF Down(h) THEN Boots(h, r) ELSE UNCHANGED node
  /\ UNCHANGED <<units, managed>>

UnitStarts(h) ==
  /\ h \in managed /\ Down(h) /\ Boots(h, units[h])
  /\ UNCHANGED <<starting, units, managed>>

Loads(h) ==
  /\ node[h].is = "loading" /\ node' = [node EXCEPT ![h].is = "ready"]
  /\ UNCHANGED <<starting, units, managed>>

Exits(h) ==
  /\ ~Down(h)
  /\ node' = [node EXCEPT ![h].is = IF @ = "stopping" THEN "off" ELSE "crashed"]
  /\ UNCHANGED <<starting, units, managed>>

HostStep(h) == UnitStarts(h) \/ Loads(h) \/ Exits(h) \/ \E r \in Role : PasteldStarts(h, r)

-----------------------------------------------------------------------------
(* What the commands do. *)

\* Variant: the start is taken for the service's whether or not there is one.
TakesForService(h, r) ==
  /\ managed' = managed \cup {h}
  /\ UNCHANGED <<node, starting, units>>
\* runPastelNode up to the wait: the service if there is one, whatever the node is
\* to be started as; a process of its own if there is none or systemctl fails.
StartService(h) ==
  /\ h \in DOMAIN units /\ managed' = managed \cup {h}
  /\ UNCHANGED <<node, starting, units>>
Launch(h, r) ==
  /\ h \notin managed
  /\ starting' = [starting EXCEPT ![h] = @ \cup {r}]
  /\ UNCHANGED <<node, units, managed>>
runPastelNode(h, r) == StartService(h) \/ Launch(h, r)

\* Variant: the node is left running.
DontStop(h) == UNCHANGED nodeVars
\* StopPastelDAndWait: the stop is sent and ten seconds are waited, whether or not
\* the node is gone by then.  A node that loads refuses it, but the refusal is in
\* the answer, which the client does not look at.
StopPastelDAndWait(h) ==
  /\ \/ Answers(h) /\ node' = [node EXCEPT ![h].is = "stopping"]
     \/ node[h].is = "loading" /\ UNCHANGED node
  /\ UNCHANGED <<starting, units, managed>>
=============================================================================
