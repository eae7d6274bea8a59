------------------------------- MODULE CliMC -------------------------------
(***************************************************************************)
(* Cli with two chain names and a handful of revisions: an edit that       *)
(* loses, one that gains, a chain added, removed or declared twice, and a  *)
(* text the frontend rejects.                                              *)
(***************************************************************************)
EXTENDS Cli, TLC

CONSTANTS p1, p2, p3

TwoNames == <<"forward", "input">>

Body(policy, match, action) == [policy |-> policy, rules |-> <<[match |-> match, action |-> action]>>]

Opens == Body("drop", {p1}, "accept")
OpensAll ==
  [policy |-> "drop",
   rules |-> <<[match |-> {p1}, action |-> "accept"], [match |-> {p2}, action |-> "accept"],
               [match |-> {p3}, action |-> "accept"]>>]
Closes == Body("accept", {p1}, "drop")

\* A covered rule, a needless one, and one that is both.
Layers ==
  [policy |-> "drop",
   rules |-> <<[match |-> {p1}, action |-> "accept"], [match |-> {p1, p2}, action |-> "drop"],
               [match |-> {p2}, action |-> "reject"], [match |-> {p1}, action |-> "accept"]>>]

Refuses == [policy |-> "drop", rules |-> <<>>]

In(name, body) == [name |-> name, body |-> body]

SomeTexts ==
  {Rejected, <<>>, <<In("input", Opens)>>, <<In("input", Closes)>>, <<In("input", Refuses)>>,
   <<In("input", OpensAll), In("forward", Closes)>>,
   <<In("forward", Opens), In("forward", Refuses)>>,
   <<In("forward", Layers), In("input", Layers)>>}

\* Every text as a file, and two branches that move.
SomeBranches ==
  {<<text>> : text \in SomeTexts}
    \cup {<<<<In("input", Opens)>>, <<In("input", Closes)>>>>,
          <<<<In("input", OpensAll), In("forward", Closes)>>, Rejected>>}

(***************************************************************************)
(* What the words of an assertion file stand for, and the packets' fields. *)
(***************************************************************************)
SomeAddressText ==
  [t \in {"10.0.0.1", "10.0.0.2", "10.0.0.0/30"} |->
     CASE t = "10.0.0.1" -> {1} [] t = "10.0.0.2" -> {2} [] t = "10.0.0.0/30" -> 0 .. 3]
SomeAddressShaped == DOMAIN SomeAddressText \cup {"10.0.0.300"}
SomeRangeText == [t \in {"1-2"} |-> {1, 2}]
SomeProtocolNumber == [t \in {"tcp", "udp"} |-> IF t = "tcp" THEN 6 ELSE 17]

SomeHeader ==
  (p1 :> [src |-> 1, dst |-> 2, proto |-> 6, sport |-> 1, dport |-> 1, iif |-> "eth0", oif |-> "none"])
    @@ (p2 :> [src |-> 2, dst |-> 2, proto |-> 17, sport |-> 1, dport |-> 2, iif |-> "eth1",
               oif |-> "none"])
    @@ (p3 :> [src |-> 3, dst |-> 2, proto |-> 17, sport |-> 2, dport |-> 2, iif |-> "eth1",
               oif |-> "none"])

\* A work limit that two packets no single rule of theirs names run into.
SomeReached == [set \in SUBSET {p1, p2, p3} |-> IF set = {p2, p3} THEN {p2} ELSE set]

\* TOML values.
Number(n) == [type |-> "integer", of |-> n]
Text(t) == [type |-> "string", of |-> t]
List(values) == [type |-> "array", of |-> values]
Table(entries) == [type |-> "table", of |-> entries]

\* A document with some zones and some assertions.
Document(zones, asserts) ==
  {("zones" :> Table(zones)) @@ ("assert" :> List([k \in DOMAIN asserts |-> Table(asserts[k])]))}

Claim(kind, entries) == ("name" :> Text("claim")) @@ ("kind" :> Text(kind)) @@ entries

Corp == "corp" :> List(<<Text("10.0.0.1")>>)

\* Documents that are taken, with every kind of value.
Taken ==
  {{},
   Document(Corp, <<Claim("reachability", "from" :> Text("corp"))>>),
   Document("10.0.0.2" :> Text("10.0.0.1"),
            <<Claim("isolation", ("chain" :> Text("input")) @@ ("from" :> Text("10.0.0.2")))>>),
   Document(Corp,
            <<Claim("isolation", ("iif" :> Text("eth0")) @@ ("proto" :> List(<<Text("udp")>>))),
              Claim("reachability", "sport" :> Text("1-2"))>>),
   Document("any" :> List(<<Text("10.0.0.0/30"), Text("10.0.0.1")>>),
            <<Claim("isolation", ("chain" :> Text("forward")) @@ ("from" :> Text("10.0.0.1"))),
              Claim("reachability", ("chain" :> Text("input")) @@ ("to" :> Text("any"))
                                      @@ ("dport" :> List(<<Number(1), Number(1)>>))
                                      @@ ("proto" :> Number(6)))>>)}

\* Documents with one thing wrong, and one whose assertions the reader never sees.
Wrong ==
  {Document("dmz" :> List(<<>>), <<>>),
   Document("dmz" :> Number(1), <<>>),
   Document(Corp, <<Claim("isolation", "from" :> Text("corpp"))>>),
   Document(Corp, <<Claim("isolation", "from" :> Text("10.0.0.300"))>>),
   Document(Corp, <<Claim("isolation", "dprot" :> Number(1))>>),
   Document(Corp, <<Claim("isolation", "dport" :> Number(99))>>),
   Document(Corp, <<Claim("denial", "dport" :> Number(1))>>),
   Document(Corp, <<"kind" :> Text("isolation")>>),
   Document(Corp, <<Claim("isolation", "proto" :> Text("tpc"))>>),
   {"assert" :> Table("name" :> Text("claim"))},
   {"asserts" :> List(<<Table(Claim("isolation", "dport" :> Number(1)))>>)},
   Document(Corp, <<Claim("isolation", "from" :> Number(1))>>)}

SomePolicies == Taken \cup Wrong

SomeInvocations ==
  [command : {"diff"}, only : {{}, {"input"}}, verify : {FALSE}, allow_vacuous : BOOLEAN,
   fail_on_newly_blocked : BOOLEAN, attest : BOOLEAN, format : {"text"}]
    \cup [command : {"diff"}, only : {{}}, verify : {TRUE}, allow_vacuous : {FALSE},
          fail_on_newly_blocked : BOOLEAN, attest : BOOLEAN, format : {"html", "json"}]
    \cup [command : {"check"}, only : {{}}, verify : BOOLEAN, allow_vacuous : {FALSE},
          fail_on_newly_blocked : {FALSE}, attest : {FALSE}, format : {"text", "html"}]
=============================================================================
