------------------------------ MODULE MCSupernode ------------------------------
EXTENDS Supernode, TLC

Flags(op, new) ==
  {c \in Command : /\ c.op = op /\ c.new \in new /\ c.pkey = c.pid
                   /\ op # "init" => ~c.pkey
                   /\ op = "masternode" => ~c.activate}

\* Every command; the PastelID is brought when the private key is.
AllCommands == Flags("init", BOOLEAN) \cup Flags("start", {FALSE}) \cup Flags("masternode", {FALSE})
\* With a pasteld unit one command is run.
Units == units # <<>> => runs < 2
Symmetry == Permutations(Stamp) \cup Permutations(Addr) \cup Permutations(Name)
=============================================================================
