---------------------------- MODULE ManagedService ----------------------------
(***************************************************************************)
(* What the service manager promises of every tool, whatever commands are    *)
(* run: a service is registered before it is started, is stopped before it is  *)
(* unregistered, and while it is not stopped systemd keeps it up.            *)
(***************************************************************************)
CONSTANT Tool

VARIABLE status   \* Tool -> "absent", "stopped" or "running"

Status == {"absent", "stopped", "running"}

Init == status = [t \in Tool |-> "absent"]

Register(t) == status[t] = "absent" /\ status' = [status EXCEPT ![t] = "stopped"]

StartUnit(t) == status[t] = "stopped" /\ status' = [status EXCEPT ![t] = "running"]

StopUnit(t) == status[t] = "running" /\ status' = [status EXCEPT ![t] = "stopped"]

Unregister(t) == status[t] = "stopped" /\ status' = [status EXCEPT ![t] = "absent"]

\* A reboot restarts the services of a set S of registered ones.
Boot(S) == status' = [t \in Tool |-> IF status[t] = "absent" THEN "absent"
                                     ELSE IF t \in S THEN "running" ELSE "stopped"]

Next == \/ \E t \in Tool : Register(t) \/ StartUnit(t) \/ StopUnit(t) \/ Unregister(t)
        \/ \E S \in SUBSET Tool : Boot(S)

Spec == Init /\ [][Next]_status
=============================================================================
