------------------------------ MODULE MCTargets ------------------------------
(* One process of targets/ at a time: a load generator or a cluster probe,    *)
(* and the constants of their TLC run.                                        *)
EXTENDS TargetDrivers, ClusterProbes

\* Three operations where the clients share a belief or a connection is reused.
MCBudget == [redis |-> 3, rqlite |-> 3, etcd |-> 2, consul |-> 2]

NoDriver ==
    /\ driver = "consul" /\ conf = [args |-> FALSE, plan |-> "profile", mix |-> "known", bad |-> 0]
    /\ stage = "exited" /\ asked = 0 /\ belief = 0 /\ stopped = FALSE /\ left = 0 /\ nextId = 0
    /\ op = <<>> /\ pc = <<>> /\ cur = <<>> /\ att = <<>> /\ live = <<>> /\ conn = <<>>
    /\ hist = [id \in Id |-> <<>>] /\ werr = "none" /\ mismatch = FALSE /\ exit = -1

NoProbe ==
    /\ probe = "status" /\ want = "named" /\ group = {} /\ term = <<>> /\ names = <<>>
    /\ master = <<>> /\ winner = <<0>> /\ phase = "done" /\ attempt = 1 /\ view = <<>>
    /\ since = 1 /\ reigns = {} /\ bound = {} /\ outcome = "none"

Init == (DriverInit /\ NoProbe) \/ (ProbeInit /\ NoDriver)

Next == (DriverNext /\ UNCHANGED probeVars) \/ (ProbeNext /\ UNCHANGED driverVars)

\* The program goes on, and its deadline comes.
Spec ==
    /\ Init /\ [][Next]_<<driverVars, probeVars>>
    /\ WF_driverVars(Drive /\ UNCHANGED probeVars)
    /\ WF_driverVars(SetupDeadline /\ UNCHANGED probeVars)
==============================================================================
