------------------------------ MODULE Frontend ------------------------------
(***************************************************************************)
(* nft/parse.rs: one nftables file read into chains of rules, one          *)
(* statement per step, and refused whole at the first thing outside the    *)
(* subset.  A file is the base chains of its tables in order, each rule    *)
(* ending its line; tokens are kept where the parser steps over one unread,*)
(* positions and messages are left out.  Address fields behave alike, as   *)
(* do the two ports, so one of each is kept.                               *)
(***************************************************************************)
EXTENDS Symbols, SequencesExt


CONSTANTS
  Addresses, PortNumbers,
  Protocols,                \* by number
  PortBearing,              \* the protocols that have ports
  Files,                    \* the files to read
  OtherRevision             \* names the other revision and the policy may mention

Dims == [saddr |-> Addresses, proto |-> Protocols, dport |-> PortNumbers]

\* The protocols a port match can name.
proto_number == [tcp |-> 6, udp |-> 17]

ASSUME PortBearingAssumption ==
  PortBearing \subseteq Protocols /\ {proto_number.tcp, proto_number.udp} \subseteq PortBearing
ASSUME OtherAssumption == OtherRevision \subseteq SUBSET NameSet

Hooks == {"input", "output", "forward"}

(***************************************************************************)
(* What a rule is written from.  A value is one atom or several in braces, *)
(* with or without `!=`; an atom (a point, a prefix, a range) is the       *)
(* values it stands for, none of them if it is malformed.  A `reject` may  *)
(* say `with` what.  "aside" is a counter, comment or log, and what it     *)
(* takes beyond its end: nothing if it is finished, the next word if a log *)
(* option lacks its value, the next token of any kind if a counter lacks a *)
(* number.  "outside" is every construct rejected where it stands:         *)
(* connection tracking, limits, marks, named sets, jumps, translation,     *)
(* oifname, iif, a wildcard, a service name.  Either may be a word alone.  *)
(***************************************************************************)
Value(domain) == [negated : BOOLEAN, atoms : SUBSET SUBSET domain]

\* An interface statement lists names.
NameList == [negated : BOOLEAN, names : SUBSET NameSet]

Statement ==
  [kind : {"dim"}, dim : {"saddr"}, value : Value(Addresses)]
    \cup [kind : {"dim"}, dim : {"proto"}, value : Value(Protocols)]
    \cup [kind : {"l4"}, proto : DOMAIN proto_number, value : Value(PortNumbers)]
    \cup [kind : {"iifname"}, meta : BOOLEAN, value : NameList]
    \cup [kind : {"verdict"}, action : {"accept", "drop"}, with : {FALSE}]
    \cup [kind : {"verdict"}, action : {"reject"}, with : BOOLEAN]
    \cup [kind : {"aside"}, takes : {"nothing"}, alone : BOOLEAN]
    \cup [kind : {"aside"}, takes : {"word", "token"}, alone : {FALSE}]
    \cup [kind : {"outside"}, alone : BOOLEAN]

ChainText ==
  [type : {"filter", "nat", "none"}, hook : Hooks \cup {"prerouting"},
   policy : {{}, {"accept"}, {"drop"}}, rules : Seq(Seq(Statement))]

ASSUME FilesAssumption == Files \subseteq Seq(ChainText)

Match == [saddr : SUBSET Addresses, proto : SUBSET Protocols, dport : SUBSET PortNumbers,
          iif : IfMatch]

AnyMatch == [saddr |-> Addresses, proto |-> Protocols, dport |-> PortNumbers, iif |-> AnyInterface]

VARIABLES
  text, other,              \* the file, and the names it will share a table with
  pc,
  line,                     \* rules of the chain begun
  rest,                     \* statements of the rule not yet read
  m, action,                \* the rule so far; action: none or one
  ports_constrained,
  chains,                   \* the chains read so far: [hook, policy, rules]
  table                     \* the symbol table

vars == <<text, other, pc, line, rest, m, action, ports_constrained, chains, table>>

Init ==
  /\ text \in Files /\ other \in OtherRevision
  /\ pc = "chain"
  /\ line = 0
  /\ rest = <<>>
  /\ m = AnyMatch /\ action = {} /\ ports_constrained = FALSE
  /\ chains = <<>>
  /\ table = {}

Refuse == pc' = "refused" /\ UNCHANGED <<line, rest, m, action, ports_constrained, chains>>

(***************************************************************************)
(* chain: the declaration.                                                 *)
(***************************************************************************)
\* Mutant: a chain without a policy drops.
PolicyOf_DropByDefault(c) == IF c.policy = {} THEN "drop" ELSE CHOOSE a \in c.policy : TRUE

\* A base chain's policy is accept when none is given.
PolicyOf(c) == IF c.policy = {} THEN "accept" ELSE CHOOSE a \in c.policy : TRUE

DeclareChain ==
  /\ pc = "chain"
  /\ Len(chains) < Len(text)
  /\ LET c == text[Len(chains) + 1]
     IN IF c.type = "filter" /\ c.hook \in Hooks
        THEN /\ chains' = Append(chains, [hook |-> c.hook, policy |-> PolicyOf(c), rules |-> <<>>])
             /\ pc' = "rule" /\ line' = 0
             /\ UNCHANGED <<rest, m, action, ports_constrained>>
        ELSE Refuse
  /\ UNCHANGED <<text, other, table>>

Written == text[Len(chains)].rules
Pushed == Last(chains).rules

StartRule ==
  /\ pc = "rule"
  /\ line < Len(Written)
  /\ line' = line + 1
  /\ rest' = Written[line + 1]
  /\ m' = AnyMatch /\ action' = {} /\ ports_constrained' = FALSE
  /\ pc' = "statement"
  /\ UNCHANGED <<text, other, chains, table>>

EndChain ==
  /\ pc = "rule"
  /\ line = Len(Written)
  /\ pc' = "chain"
  /\ UNCHANGED <<text, other, line, rest, m, action, ports_constrained, chains, table>>

\* The end of the file, after every chain of it.
EndFile ==
  /\ pc = "chain"
  /\ Len(chains) = Len(text)
  /\ pc' = "parsed"
  /\ UNCHANGED <<text, other, line, rest, m, action, ports_constrained, chains, table>>

(***************************************************************************)
(* rule: one statement.                                                    *)
(***************************************************************************)
\* Match::constrain intersects with what is there.
constrain(match, dim, set) == [match EXCEPT ![dim] = @ \cap set]

\* Match::with_iif replaces what is there.
with_iif(match, iif) == [match EXCEPT !.iif = iif]

\* Mutant: each member of a negated set is negated.
Denoted_EachNegated(value, domain) ==
  UNION {IF value.negated THEN domain \ atom ELSE atom : atom \in value.atoms}

\* The union of the atoms, complemented as a whole.
Denoted(value, domain) ==
  IF value.negated THEN domain \ UNION value.atoms ELSE UNION value.atoms

addr_spec(value) == Denoted(value, Addresses)
port_spec(value) == Denoted(value, PortNumbers)
proto_spec(value) == Denoted(value, Protocols)

if_spec(value) == [form |-> IF value.negated THEN "none of" ELSE "one of", names |-> value.names]

\* Braces hold something, and every atom stands for something: no backward
\* range, no number past the field, no unknown protocol.
WellFormed(s) ==
  /\ s.kind \in {"dim", "l4"} => s.value.atoms # {} /\ {} \notin s.value.atoms
  /\ s.kind = "iifname" => s.value.names # {}

\* `ip` and `meta`, with proto_spec for both spellings of the protocol.
ip_match(match, s) ==
  constrain(match, s.dim, IF s.dim = "saddr" THEN addr_spec(s.value) ELSE proto_spec(s.value))

\* A port match implies its protocol.
l4_match(match, s) ==
  constrain(constrain(match, "proto", {proto_number[s.proto]}), "dport", port_spec(s.value))

ReadMatch ==
  /\ pc = "statement"
  /\ rest # <<>>
  /\ LET s == Head(rest)
     IN /\ WellFormed(s)
        /\ \/ /\ s.kind = "dim"
              /\ m' = ip_match(m, s)
              /\ UNCHANGED ports_constrained
           \/ /\ s.kind = "l4"
              /\ m' = l4_match(m, s)
              /\ ports_constrained' = TRUE
           \/ /\ s.kind = "iifname"
              /\ s.meta \/ Last(chains).hook # "output"
              /\ m' = with_iif(m, if_spec(s.value))
              /\ UNCHANGED ports_constrained
  /\ rest' = Tail(rest)
  /\ UNCHANGED <<text, other, pc, line, action, chains, table>>

\* A statement whose first word was taken: a lone word is gone, `meta iifname`
\* is `iifname`, and no statement begins with what any other leaves.
Remainder(s) ==
  CASE s.kind = "verdict" /\ ~s.with -> <<>>
    [] s.kind \in {"aside", "outside"} /\ s.alone -> <<>>
    [] s.kind = "iifname" /\ s.meta -> <<[s EXCEPT !.meta = FALSE]>>
    [] OTHER -> <<[kind |-> "outside", alone |-> FALSE]>>

\* skip_counter, skip_log: neither asks what it takes.  A counter that ends its
\* line takes the end of it, and the rule goes on with the next line.
ReadAside ==
  /\ pc = "statement"
  /\ rest # <<>>
  /\ Head(rest).kind = "aside"
  /\ LET takes == Head(rest).takes
         left == Tail(rest)
     IN \/ /\ takes = "nothing" \/ (takes = "word" /\ left = <<>>)
           /\ rest' = left
           /\ UNCHANGED line
        \/ /\ takes # "nothing" /\ left # <<>>
           /\ rest' = Remainder(Head(left)) \o Tail(left)
           /\ UNCHANGED line
        \/ /\ takes = "token" /\ left = <<>>
           /\ IF line < Len(Written) THEN rest' = Written[line + 1] /\ line' = line + 1
              ELSE rest' = <<>> /\ UNCHANGED line
  /\ UNCHANGED <<text, other, pc, m, action, ports_constrained, chains, table>>

\* Mutant: the last verdict counts.
Settles_Last(current) == TRUE

\* set_action: a rule has one verdict.
Settles(current) == current = {}

\* `reject with` goes to the end of the line, whatever is there.
ReadVerdict ==
  /\ pc = "statement"
  /\ rest # <<>>
  /\ Head(rest).kind = "verdict"
  /\ IF Settles(action)
     THEN /\ action' = {Head(rest).action}
          /\ rest' = IF Head(rest).with THEN <<>> ELSE Tail(rest)
          /\ UNCHANGED <<pc, line, m, ports_constrained, chains>>
     ELSE Refuse
  /\ UNCHANGED <<text, other, table>>

\* Outside the subset, malformed, or `iifname` where the kernel never sets it.
RefuseStatement ==
  /\ pc = "statement"
  /\ rest # <<>>
  /\ LET s == Head(rest)
     IN \/ s.kind = "outside"
        \/ ~WellFormed(s)
        \/ s.kind = "iifname" /\ ~s.meta /\ Last(chains).hook = "output"
  /\ Refuse
  /\ UNCHANGED <<text, other, table>>

\* Mutant: a rule whose matches contradict each other is let through.
is_unsatisfiable_Never(match) == FALSE

is_unsatisfiable(match) == \E dim \in DOMAIN Dims : match[dim] = {}

\* check_soundness: the predicate can hold, and ports come with a protocol that
\* has them.
Sound ==
  /\ ~is_unsatisfiable(m)
  /\ ports_constrained => m.proto # Protocols /\ m.proto \subseteq PortBearing

EndRule ==
  /\ pc = "statement"
  /\ rest = <<>>
  /\ IF action # {} /\ Sound
     THEN /\ chains' = [chains EXCEPT ![Len(chains)].rules =
                          Append(@, [match |-> m, action |-> CHOOSE a \in action : TRUE])]
          /\ pc' = "rule"
          /\ UNCHANGED <<line, rest, m, action, ports_constrained>>
     ELSE Refuse
  /\ UNCHANGED <<text, other, table>>

(***************************************************************************)
(* The table over both revisions.                                          *)
(***************************************************************************)
interface_names ==
  UNION {UNION {c.rules[l].match.iif.names : l \in DOMAIN c.rules} : c \in ToSet(chains)}

BuildTable ==
  /\ pc = "parsed"
  /\ table' = interface_names \cup other
  /\ pc' = IF TooMany(table') THEN "refused" ELSE "resolved"
  /\ UNCHANGED <<text, other, line, rest, m, action, ports_constrained, chains>>

Next ==
  \/ DeclareChain \/ StartRule \/ EndChain \/ EndFile
  \/ ReadMatch \/ ReadAside \/ ReadVerdict \/ RefuseStatement \/ EndRule \/ BuildTable

Spec == Init /\ [][Next]_vars

\* Layout::match_bdd: is a point of the header space in the match?
Admits(match, tab, point) ==
  /\ \A dim \in DOMAIN Dims : point[dim] \in match[dim]
  /\ point.iif \in resolve(match.iif, tab)

(***************************************************************************)
(* Correctness.                                                            *)
(***************************************************************************)
TypeOK ==
  /\ pc \in {"chain", "rule", "statement", "parsed", "resolved", "refused"}
  /\ pc \in {"rule", "statement"} => Len(Pushed) <= line /\ line <= Len(Written)
  /\ rest \in Seq(Statement)
  /\ m \in Match /\ action \subseteq {"accept", "drop", "reject"}
  /\ table \subseteq NameSet
  /\ \A k \in DOMAIN chains :
       /\ chains[k].hook = text[k].hook /\ chains[k].policy \in {"accept", "drop"}
       /\ \A l \in DOMAIN chains[k].rules :
            LET match == chains[k].rules[l].match
            IN match \in Match /\ \A dim \in DOMAIN Dims : match[dim] # {}

\* What netfilter does with a packet: portless protocols carry port 0 here.
KernelPackets ==
  [saddr : Addresses, proto : PortBearing, dport : PortNumbers, iif : NameSet]
    \cup [saddr : Addresses, proto : Protocols \ PortBearing, dport : {0}, iif : NameSet]

\* `x` is among the values written, or `!=` was and it is not.
Among(x, value) == (\E atom \in value.atoms : x \in atom) # value.negated

StatementMatches(s, k) ==
  CASE s.kind = "dim" -> Among(k[s.dim], s.value)
    [] s.kind = "l4" -> k.proto = proto_number[s.proto] /\ Among(k.dport, s.value)
    [] s.kind = "iifname" -> (k.iif \in s.value.names) # s.value.negated
    [] OTHER -> TRUE

KernelMatches(statements, k) == \A n \in DOMAIN statements : StatementMatches(statements[n], k)

\* The points of the model's space that stand for a packet.
PointsOf(k, tab) ==
  [saddr : {k.saddr}, proto : {k.proto},
   dport : IF k.proto \in PortBearing THEN {k.dport} ELSE PortNumbers,
   iif : IndicesOf(tab, k.iif)]

Occurrences(statements, kind) == {n \in DOMAIN statements : statements[n].kind = kind}

\* The rules the model means to be exact about: at most one interface match,
\* and none where the kernel has no input interface.
Modelled(hook, statements) ==
  /\ Cardinality(Occurrences(statements, "iifname")) <= 1
  /\ hook = "output" => Occurrences(statements, "iifname") = {}

\* A counter or a log that has all its values.
Finished(s) == s.kind = "aside" => s.takes = "nothing"

\* The rules the parser passes nothing over in: every aside is finished, and
\* nothing follows `reject with`.
Plain(statements) ==
  \A n \in DOMAIN statements :
    /\ Finished(statements[n])
    /\ statements[n].kind = "verdict" /\ statements[n].with => n = Len(statements)

AllPlain == \A c \in ToSet(text) : \A l \in DOMAIN c.rules : Plain(c.rules[l])

\* A rule is in the subset if every statement is, it has one verdict, and no
\* dimension is constrained away.
InSubset(hook, statements) ==
  LET on(kind, dim) ==
        {n \in Occurrences(statements, kind) : kind = "l4" \/ statements[n].dim = dim}
      passes(v, kind, dim) == \A n \in on(kind, dim) : Among(v, statements[n].value)
  IN /\ Occurrences(statements, "outside") = {}
     /\ \A n \in DOMAIN statements : WellFormed(statements[n]) /\ Finished(statements[n])
     /\ Cardinality(Occurrences(statements, "verdict")) = 1
     /\ \A n \in Occurrences(statements, "iifname") : statements[n].meta \/ hook # "output"
     /\ \E v \in Addresses : passes(v, "dim", "saddr")
     /\ \E v \in PortNumbers : passes(v, "l4", "dport")
     /\ \E v \in Protocols :
          /\ passes(v, "dim", "proto")
          /\ \A n \in Occurrences(statements, "l4") : proto_number[statements[n].proto] = v

\* A file in which nothing is passed over is taken whole or not at all: it is
\* refused exactly when some chain or rule of it is outside the subset or it names
\* too many interfaces, and what is taken has every chain and every rule, in order,
\* with its own verdict, and the kernel's default for a chain that states no policy.
TakenWhole ==
  LET acceptable ==
        \A c \in ToSet(text) : /\ c.type = "filter" /\ c.hook \in Hooks
                               /\ \A l \in DOMAIN c.rules : InSubset(c.hook, c.rules[l])
  IN AllPlain =>
       /\ pc = "refused" => ~acceptable \/ Cardinality(table) > MAX_INTERFACES
       /\ pc = "resolved" =>
            /\ acceptable
            /\ Len(chains) = Len(text)
            /\ \A k \in DOMAIN text :
                 /\ chains[k].policy = "drop" <=> text[k].policy = {"drop"}
                 /\ Len(chains[k].rules) = Len(text[k].rules)
                 /\ \A l \in DOMAIN text[k].rules :
                      \E n \in Occurrences(text[k].rules[l], "verdict") :
                        text[k].rules[l][n].action = chains[k].rules[l].action

\* A rule that is taken of such a file means what netfilter means by it: whatever
\* the order of its statements, each packet the kernel would match has all its
\* points in the model's match, and each one it would not has none.  For a packet
\* without ports this is the obligation of SEMANTICS 4.2.
TranslationIsExact ==
  pc = "resolved" /\ AllPlain =>
    \A c \in DOMAIN text : \A l \in DOMAIN text[c].rules :
      Modelled(text[c].hook, text[c].rules[l]) =>
        \A k \in KernelPackets : \A point \in PointsOf(k, table) :
          Admits(chains[c].rules[l].match, table, point) <=> KernelMatches(text[c].rules[l], k)

\* The names another revision or a policy adds to the table do not change what
\* a rule matches: for any interface of the host that a value stands for, the
\* answer under the shared table is the answer under the file's own.
TableGrowthChangesNothing ==
  pc = "resolved" =>
    \A c \in ToSet(chains) : \A l \in DOMAIN c.rules : \A name \in NameSet :
      \A own \in IndicesOf(interface_names, name), shared \in IndicesOf(table, name) :
        own \in resolve(c.rules[l].match.iif, interface_names)
          <=> shared \in resolve(c.rules[l].match.iif, table)

\* What the documentation of the subset promises: a match the kernel never
\* applies is rejected, so no chain of the output hook matches an input interface.
NoDeadMatchIsTaken ==
  pc = "resolved" =>
    \A c \in ToSet(chains) :
      c.hook = "output" => \A l \in DOMAIN c.rules : c.rules[l].match.iif = AnyInterface

\* What the semantics document says of a rule, that it is a conjunction: a packet
\* admitted by a rule as it was taken passes each match the file writes in it,
\* nothing of it having been passed over.
EveryMatchCounts ==
  pc = "resolved" /\ AllPlain =>
    \A c \in DOMAIN text : \A l \in DOMAIN text[c].rules :
      text[c].hook # "output" =>
        \A k \in KernelPackets : \A point \in PointsOf(k, table) :
          Admits(chains[c].rules[l].match, table, point) =>
            \A n \in DOMAIN text[c].rules[l] : StatementMatches(text[c].rules[l][n], k)
=============================================================================
