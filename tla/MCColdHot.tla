------------------------------- MODULE MCColdHot -------------------------------
EXTENDS ColdHot, FiniteSets, TLC

\* The PastelID is brought when the private key is.
AllCommands == {c \in Command : c.pkey = c.pid}
\* One host with a pasteld unit at a time, and then one command.
Units == units # <<>> => Cardinality(DOMAIN units) = 1 /\ runs < 2
Symmetry == Permutations(Stamp) \cup Permutations(Addr) \cup Permutations(Name)
=============================================================================
