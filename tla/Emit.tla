-------------------------------- MODULE Emit --------------------------------
(***************************************************************************)
(* kerneldiff/emit.rs and the round trip of the differential harness: a    *)
(* chain written out as nftables for the kernel, and read back by the      *)
(* frontend before the kernel is asked about it.                           *)
(***************************************************************************)
EXTENDS Frontend, Rendering

CONSTANTS
  AddressBits,              \* an address is a value of so many bits
  Generated                 \* the chains the harness makes up

ASSUME AddressBitsAssumption ==
  AddressBits \in Nat /\ Addresses = 0 .. (2^AddressBits - 1)

\* A fact of arithmetic that the provers, to whom ^ is any operator, have to be told.
ASSUME AddressPowersAssumption ==
  \A n \in 0 .. AddressBits : 2^n \in Nat \ {0} /\ 2^(n + 1) = 2 * 2^n

port_max == 65535

ASSUME PortNumbersAssumption == PortNumbers \subseteq 0 .. port_max

IsPlain(atoms) == [negated |-> FALSE, atoms |-> atoms]

PortNames == DOMAIN proto_number

\* The keyword of a port match, for a match on one protocol that has ports.
PortName(match) == {name \in PortNames : match.proto = {proto_number[name]}}

\* Nothing for a field that is not constrained; the prefixes of an address set
\* and the ranges of a port set otherwise.
addr_expr(set) ==
  IF set = Addresses THEN <<>>
  ELSE <<[kind |-> "dim", dim |-> "saddr", value |-> IsPlain(ToSet(PrefixesOf(set, AddressBits)))]>>

port_expr(name, set) ==
  IF set = PortNumbers THEN <<>>
  ELSE <<[kind |-> "l4", proto |-> name, value |-> IsPlain(ToSet(RangesOf(set)))]>>

iif_expr(iif) ==
  IF iif.form # "one of" THEN <<>>
  ELSE <<[kind |-> "iifname", meta |-> FALSE, value |-> [negated |-> FALSE, names |-> iif.names]]>>

\* Mutant: the protocol is left to the port match.
proto_expr_ByPort(match) ==
  IF Cardinality(match.proto) # 1 \/ PortName(match) # {} THEN <<>>
  ELSE <<[kind |-> "dim", dim |-> "proto", value |-> IsPlain({match.proto})]>>

\* One protocol is named; any other set goes unsaid.
proto_expr(match) ==
  IF Cardinality(match.proto) # 1 THEN <<>>
  ELSE <<[kind |-> "dim", dim |-> "proto", value |-> IsPlain({match.proto})]>>

\* A port constraint on anything but tcp or udp alone is given up on.
Expressible(match) == PortName(match) # {} \/ match.dport = PortNumbers

\* `counter` alone.
Counter == [kind |-> "aside", takes |-> "nothing", alone |-> TRUE]

rule(r) ==
  iif_expr(r.match.iif) \o proto_expr(r.match) \o addr_expr(r.match.saddr)
    \o (IF PortName(r.match) = {} THEN <<>>
        ELSE port_expr(CHOOSE name \in PortName(r.match) : TRUE, r.match.dport))
    \o <<Counter, [kind |-> "verdict", action |-> r.action, with |-> FALSE]>>

\* The counter the harness polls on: a rule with no verdict.
Sentinel == <<Counter>>

chain_with(c, sentinel) ==
  <<[type |-> "filter", hook |-> c.hook,
     policy |-> {IF c.policy = "accept" THEN "accept" ELSE "drop"},
     rules |-> [l \in DOMAIN c.rules |-> rule(c.rules[l])]
                 \o (IF sentinel THEN <<Sentinel>> ELSE <<>>)]>>

\* What the generator makes up: one protocol, addresses and ports that exist, and
\* an interface by name if at all.
GeneratedRule ==
  [match : {match \in Match : /\ Cardinality(match.proto) = 1
                             /\ match.saddr # {} /\ match.dport # {}
                             /\ match.iif.form # "none of"
                             /\ Expressible(match)},
   action : {"accept", "drop"}]

ASSUME GeneratedAssumption ==
  Generated \subseteq [hook : {"input"}, policy : {"accept", "drop"}, rules : Seq(GeneratedRule)]

\* What each chain is written as, for the round trip and for the kernel.
RoundTrip == [c \in Generated |-> chain_with(c, FALSE)]
ForKernel == [c \in Generated |-> chain_with(c, TRUE)]

EmittedFiles == {RoundTrip[c] : c \in Generated} \cup {ForKernel[c] : c \in Generated}

(***************************************************************************)
(* Correctness.                                                            *)
(***************************************************************************)
\* The round trip of the harness: a chain written by the emitter is read by the
\* frontend as that chain, hook, policy, verdicts and every predicate, and the
\* text meant for the kernel alone, with its sentinel, is never taken for a chain.
EmittedParsesBack ==
  pc \in {"resolved", "refused"} /\ text \in EmittedFiles =>
    IF pc = "resolved" THEN \E c \in Generated : text = RoundTrip[c] /\ chains = <<c>>
    ELSE (\E c \in Generated : text = ForKernel[c]) \/ TooMany(table)
=============================================================================
