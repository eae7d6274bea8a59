----------------------------- MODULE KernelHook -----------------------------
(***************************************************************************)
(* What the differential harness runs against, as far as the harness uses  *)
(* it: the input hook of a network namespace with a prefilter in front of  *)
(* the chain under test, the counters of that chain, and a network that    *)
(* delays, duplicates and loses datagrams.                                 *)
(*                                                                         *)
(* A datagram is [way, iif, proto, port]: towards a probed address or back *)
(* from it, where it arrives, its protocol, and its port, 0 for one whose  *)
(* protocol has none.  A counter is known by whether it has moved.         *)
(***************************************************************************)
EXTENDS ChainModel, FiniteSets

CONSTANTS
  Ports,                    \* port numbers, 0 excluded
  MaxInFlight               \* bound on datagrams in the network at once

Ifaces == {"lo", "wire"}

\* The points of the header space, ports free for a protocol without them.
HeaderSpace ==
  [way : {"there", "back"}, iif : Ifaces, proto : {"udp", "icmp"}, port : Ports]

\* What random_packet draws.
Probes ==
  [way : {"there"}, iif : Ifaces, proto : {"udp"}, port : Ports]
    \cup [way : {"there"}, iif : Ifaces, proto : {"icmp"}, port : {0}]

\* An echo reply or an unreachable, on the loopback where both ends live.
Reply == [way |-> "back", iif |-> "lo", proto |-> "icmp", port |-> 0]

Datagrams == Probes \cup {Reply}

\* A portless datagram stands at every port of the model's space.
PointsOf(d) ==
  {p \in Packets : /\ p.way = d.way /\ p.iif = d.iif /\ p.proto = d.proto
                   /\ d.port \in {0, p.port}}

ASSUME PortsAssumption == Ports \subseteq Nat \ {0} /\ Ports # {} /\ IsFiniteSet(Ports)
ASSUME InFlightAssumption == MaxInFlight \in Nat
ASSUME SpaceAssumption == Packets = HeaderSpace

VARIABLES
  prefilter,                \* what the prefilter admits
  loaded,                   \* chains under test in the kernel: none or one
  counted,                  \* rule numbers whose counter is not zero
  in_flight                 \* datagram -> copies on their way

kernel_vars == <<prefilter, loaded, counted, in_flight>>

\* The rule the kernel's first match fires on; 0 is the sentinel at the end.
KernelDecider(chain, d) ==
  LET firing == {i \in DOMAIN chain.rules : PointsOf(d) \subseteq chain.rules[i].match}
  IN IF firing = {} THEN 0 ELSE Least(firing)

KernelPermits(chain, d) ==
  Permits(IF KernelDecider(chain, d) = 0 THEN chain.policy
          ELSE chain.rules[KernelDecider(chain, d)].action)

\* Mutant: the shape the prefilter had first, dropping only what comes back.
Admitted_AllForward(d) == prefilter = Datagrams \/ d.way = "there"

Admitted(d) == d \in prefilter

KernelInit ==
  /\ prefilter = Datagrams
  /\ loaded = {}
  /\ counted = {}
  /\ in_flight = [d \in Datagrams |-> 0]

\* The copies of every datagram, told apart by a number.
Copies(flight) == UNION {{d} \X (1 .. flight[d]) : d \in Datagrams}

Room == Cardinality(Copies(in_flight)) < MaxInFlight

\* A copy reaches the hook.  If the prefilter lets it through, the chain counts
\* it at the rule that decides it, and a permitted probe on the loopback may
\* draw an answer.
Deliver(d) ==
  LET taken == [in_flight EXCEPT ![d] = @ - 1]
  IN /\ in_flight[d] > 0
     /\ \E chain \in loaded :
          \/ /\ Admitted(d)
             /\ counted' = counted \cup {KernelDecider(chain, d)}
             /\ \/ in_flight' = taken
                \/ /\ d.way = "there" /\ d.iif = "lo" /\ KernelPermits(chain, d)
                   /\ in_flight' = [taken EXCEPT ![Reply] = @ + 1]
          \/ /\ ~Admitted(d)
             /\ in_flight' = taken
             /\ UNCHANGED counted
     /\ UNCHANGED <<prefilter, loaded>>

\* A copy is lost, or arrives while no chain counts it.
Lose(d) ==
  /\ in_flight[d] > 0
  /\ in_flight' = [in_flight EXCEPT ![d] = @ - 1]
  /\ UNCHANGED <<prefilter, loaded, counted>>
=============================================================================
