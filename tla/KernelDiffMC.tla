---------------------------- MODULE KernelDiffMC ----------------------------
(***************************************************************************)
(* KernelDiff with two ports and two chains that every fault tells apart.  *)
(***************************************************************************)
EXTENDS KernelDiff

\* The points a rule admits: each dimension pinned to a set of values.
Pin(ways, ifaces, protos, ports) ==
  {q \in HeaderSpace : q.way \in ways /\ q.iif \in ifaces /\ q.proto \in protos /\ q.port \in ports}

Either == {"there", "back"}

TwoChains ==
  {[policy |-> "drop",
    rules |-> <<[match |-> Pin({"there"}, {"lo"}, {"udp"}, {1}), action |-> "drop"],
                [match |-> Pin(Either, Ifaces, {"udp"}, Ports), action |-> "accept"]>>],
   [policy |-> "accept",
    rules |-> <<[match |-> Pin(Either, {"wire"}, {"icmp"}, Ports), action |-> "drop"],
                [match |-> Pin(Either, {"lo"}, {"icmp"}, Ports), action |-> "accept"]>>]}

AllFaults == <<"LastMatch", "IgnoreInterface", "IgnoreProtocol", "IgnorePorts", "RejectPermits">>

\* A plain run long enough to vary every dimension, each fault injected by
\* itself, and a self-test of two faults.
Invocations ==
  {[self_test |-> FALSE, faults |-> <<NoFault>>, packets |-> 3]}
    \cup {[self_test |-> FALSE, faults |-> <<AllFaults[k]>>, packets |-> 1] : k \in DOMAIN AllFaults}
    \cup {[self_test |-> TRUE, faults |-> <<"LastMatch", "IgnorePorts">>, packets |-> 1]}
=============================================================================
