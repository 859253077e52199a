----------------------------- MODULE MCInventory -----------------------------
\* One group whose first server has a user of its own; two groups of one server,
\* the first with a user, the second with a port; both together.
EXTENDS Inventory

Given(ip, port, user, key) == [ip |-> ip, port |-> port, user |-> user, key |-> key]
Host(s) == CASE s = "a" -> Given("host a", "", "root", "")
             [] s = "b" -> Given("host b", "", "", "b.pem")
             [] s = "c" -> Given("host c", "2222", "", "")
             [] s = "d" -> Given("", "", "", "")
Common == "sn" :> Given("", "", "ubuntu", "") @@ "wn" :> Given("", "", "", "wn.pem")

File(groupOf) ==
  [own |-> [s \in DOMAIN groupOf |-> Host(s)], groupOf |-> groupOf,
   common |-> [g \in Range(groupOf) |-> Common[g]]]
Run(m, filter, file) ==
  [mode |-> m, filter |-> filter, own |-> file.own, groupOf |-> file.groupOf,
   common |-> file.common]

OneGroup == File("a" :> "sn" @@ "b" :> "sn")
TwoGroups == File("a" :> "sn" @@ "c" :> "wn")
Both == File("a" :> "sn" @@ "b" :> "sn" @@ "c" :> "wn" @@ "d" :> "wn")

MCParallel == {Run("parallel", {}, OneGroup), Run("parallel", {}, TwoGroups)}
MCCommands == MCParallel \cup {Run("serial", f, Both) : f \in {{}, {"sn"}}}
                \cup {Run("single", {}, Both)}
=============================================================================
