----------------------------- MODULE FrontendMC -----------------------------
(***************************************************************************)
(* Frontend on every one-rule file of up to MaxStatements statements, on   *)
(* each hook, on files of several chains and rules, and on every chain of  *)
(* one rule the harness makes up, and some of two.                         *)
(***************************************************************************)
EXTENDS Emit

CONSTANTS
  dmz, eth, lan, wan,       \* interface names, in this order
  MaxStatements             \* bound on the statements of a rule

SortedNames == <<dmz, eth, lan, wan>>

Is(atoms) == [negated |-> FALSE, atoms |-> atoms]
IsNot(atoms) == [negated |-> TRUE, atoms |-> atoms]

Saddr(value) == [kind |-> "dim", dim |-> "saddr", value |-> value]
Proto(value) == [kind |-> "dim", dim |-> "proto", value |-> value]
Port(proto, value) == [kind |-> "l4", proto |-> proto, value |-> value]
Iifname(meta, negated, names) ==
  [kind |-> "iifname", meta |-> meta, value |-> [negated |-> negated, names |-> names]]
Verdict(what) == [kind |-> "verdict", action |-> what, with |-> FALSE]
RejectWith == [kind |-> "verdict", action |-> "reject", with |-> TRUE]
Unfinished(takes) == [kind |-> "aside", takes |-> takes, alone |-> FALSE]
Outside(alone) == [kind |-> "outside", alone |-> alone]

SomeStatements ==
  {Saddr(Is({{1}})), Saddr(IsNot({{1}, {2}})), Saddr(Is({{2}, {2, 3}})),
   Proto(IsNot({{6}})), Proto(Is({{6}, {1}})),
   Port("tcp", Is({{1}})), Port("tcp", Is({{}})), Port("udp", IsNot({{2}})),
   Iifname(FALSE, FALSE, {eth}), Iifname(FALSE, TRUE, {dmz, lan}), Iifname(TRUE, FALSE, {eth, lan}),
   Verdict("accept"), Verdict("drop"),
   RejectWith, Counter, Unfinished("word"), Unfinished("token"), Outside(FALSE), Outside(TRUE)}

File(type, hook, policy, rules) ==
  [type |-> type, hook |-> hook, policy |-> policy, rules |-> rules]

OneRule ==
  {<<File("filter", hook, {}, <<statements>>)>> :
     hook \in Hooks, statements \in BoundedSeq(SomeStatements, MaxStatements) \ {<<>>}}

TwoRules ==
  <<<<Iifname(FALSE, FALSE, {lan}), Verdict("accept")>>,
    <<Port("udp", Is({{2}})), Verdict("drop")>>>>

\* A counter without its number at the end of a line, and of the chain.
RunOn(first, second) == <<first \o <<Unfinished("token")>>, second>>

OpenCounter == <<Verdict("accept"), Unfinished("token")>>

SeveralChains ==
  {<<>>,
   <<File("filter", "input", {"drop"}, TwoRules), File("filter", "output", {"accept"}, <<>>)>>,
   <<File("filter", "forward", {"drop"}, TwoRules), File("nat", "prerouting", {}, <<>>)>>,
   <<File("filter", "input", {}, <<>>), File("none", "input", {}, TwoRules)>>,
   <<File("filter", "input", {}, TwoRules),
     File("filter", "input", {"drop"}, <<<<Outside(FALSE), Verdict("drop")>>>>)>>,
   <<File("filter", "input", {}, RunOn(<<Saddr(Is({{1}}))>>, <<Verdict("drop")>>))>>,
   <<File("filter", "input", {}, RunOn(<<Verdict("accept")>>, <<Proto(Is({{6}, {1}}))>>)),
     File("filter", "forward", {}, RunOn(<<Iifname(TRUE, FALSE, {eth})>>, OpenCounter))>>}

\* A prefix, a host or any address; a protocol; a port where there are ports; one
\* interface or any.
SomeMatches ==
  {match \in [saddr : {Addresses, {1}, {2, 3}}, proto : {{1}, {6}, {17}},
              dport : {PortNumbers, {1}, {2}},
              iif : {AnyInterface, [form |-> "one of", names |-> {eth}]}] :
     match.proto \cap PortBearing = {} => match.dport = PortNumbers}

SomeRules == [match : SomeMatches, action : {"accept", "drop"}]

InputChain(policy, rules) == [hook |-> "input", policy |-> policy, rules |-> rules]

FirstRule == [match |-> [AnyMatch EXCEPT !.proto = {1}], action |-> "accept"]

SomeGenerated ==
  {InputChain(policy, <<r>>) : policy \in {"accept", "drop"}, r \in SomeRules}
    \cup {InputChain("drop", <<FirstRule, r>>) : r \in SomeRules}

SomeFiles == OneRule \cup SeveralChains \cup EmittedFiles
=============================================================================
