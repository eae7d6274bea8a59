------------------------------- MODULE Policy -------------------------------
(***************************************************************************)
(* policy/eval.rs: what checking an intent assertion against the accept    *)
(* set of a compiled chain establishes.  An assertion is the conjunction   *)
(* of the dimensions it constrains; assertions come from a file            *)
(* (PolicyFile).                                                           *)
(***************************************************************************)
EXTENDS ChainModel, PolicyFile

CONSTANTS
  ChainNames,               \* chain names, in the order the report lists them
  Header                    \* packet -> field -> value; an interface is its name

ASSUME ChainNamesAssumption == ChainNames \in Seq(ToSet(ChainNames))

Outcomes == {"PASS", "FAIL", "VACUOUS"}

\* A constraint that was not written admits everything.
Within(v, constraint) == \A admitted \in constraint : v \in admitted

\* Addresses of an endpoint, if there is one.
Ends(policy, endpoints) == {UNION resolve(policy.zones, e) : e \in endpoints}

assertion_set(policy, a) ==
  {p \in Packets :
     /\ Within(Header[p].src, Ends(policy, a.from)) /\ Within(Header[p].dst, Ends(policy, a.to))
     /\ Within(Header[p].proto, a.proto)
     /\ Within(Header[p].sport, a.sport) /\ Within(Header[p].dport, a.dport)
     /\ Within(Header[p].iif, {{name} : name \in a.iif})
     /\ Within(Header[p].oif, {{name} : name \in a.oif})}

\* The packets that break an assertion.
Offending(policy, model, a) ==
  IF a.kind = "isolation" THEN assertion_set(policy, a) \cap model.accept
  ELSE assertion_set(policy, a) \ model.accept

\* No packet is described, or none that a rule of the chain matches.
Vacuous(policy, model, a) == assertion_set(policy, a) \cap model.matched_any = {}

\* witness: some packet of a set, if there is one.
witness(S) == IF S = {} THEN {} ELSE {CHOOSE p \in S : TRUE}

\* check: an outcome and, for a failure, a counterexample.
check(policy, model, a) ==
  LET broken == witness(Offending(policy, model, a))
  IN IF Vacuous(policy, model, a) THEN [label |-> "VACUOUS", counterexample |-> {}]
     ELSE [label |-> IF broken = {} THEN "PASS" ELSE "FAIL", counterexample |-> broken]
=============================================================================
