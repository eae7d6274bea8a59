--------------------------- MODULE FrontendProofs ---------------------------
(***************************************************************************)
(* Proofs about Frontend and the symbol table, for every file, every set   *)
(* of names and every header space, and about what Emit writes.            *)
(***************************************************************************)
EXTENDS Emit, ListingProofs, SequenceTheorems

(***************************************************************************)
(* The symbol table.                                                       *)
(***************************************************************************)
LEMMA NamesFinite == IsFiniteSet(NameSet)
<1>1. AllNames \in [1 .. Len(AllNames) -> NameSet] /\ Len(AllNames) \in Nat
  BY NamesAssumption
<1>2. AllNames \in Surjection(1 .. Len(AllNames), NameSet)
  BY <1>1 DEF Surjection, NameSet
<1>3. IsFiniteSet(1 .. Len(AllNames))
  BY <1>1, FS_Interval
<1> QED
  BY <1>2, <1>3, FS_Surjection

LEMMA PlaceType ==
  ASSUME NEW name \in NameSet
  PROVE  Place(name) \in DOMAIN AllNames /\ Place(name) \in Int /\ AllNames[Place(name)] = name
<1>1. \E k \in DOMAIN AllNames : AllNames[k] = name
  BY DEF NameSet
<1>2. DOMAIN AllNames = 1 .. Len(AllNames)
  BY NamesAssumption
<1> QED
  BY <1>1, <1>2 DEF Place

\* Indices follow the order of names.
LEMMA IndexIncreases ==
  ASSUME NEW tab \in SUBSET NameSet, NEW a \in tab, NEW b \in tab, Place(a) < Place(b)
  PROVE  index_of(tab, a) < index_of(tab, b)
<1> DEFINE before(name) == {n \in tab : Place(n) < Place(name)}
<1>1. IsFiniteSet(tab)
  BY NamesFinite, FS_Subset
<1>2. IsFiniteSet(before(a)) /\ IsFiniteSet(before(b))
  BY <1>1, FS_Subset
<1>3. before(a) \subseteq before(b)
  BY PlaceType
<1>4. a \in before(b) /\ a \notin before(a)
  BY PlaceType
<1>5. Cardinality(before(a)) \in Nat /\ Cardinality(before(b)) \in Nat
  BY <1>2, FS_CardinalityType
<1> HIDE DEF before
<1>6. Cardinality(before(a)) <= Cardinality(before(b)) /\ Cardinality(before(a)) # Cardinality(before(b))
  BY <1>2, <1>3, <1>4, FS_Subset
<1>7. Cardinality(before(a)) < Cardinality(before(b))
  BY <1>5, <1>6
<1> QED
  BY <1>7 DEF index_of, before

\* No two names of a table share an index.
LEMMA IndexInjective ==
  ASSUME NEW tab \in SUBSET NameSet, NEW a \in tab, NEW b \in tab, index_of(tab, a) = index_of(tab, b)
  PROVE  a = b
<1>1. Place(a) \in Int /\ Place(b) \in Int /\ AllNames[Place(a)] = a /\ AllNames[Place(b)] = b
  BY PlaceType
<1>2. \A x \in tab : index_of(tab, x) \in Nat
  <2> TAKE x \in tab
  <2>1. IsFiniteSet({n \in tab : Place(n) < Place(x)})
    BY NamesFinite, FS_Subset
  <2> QED
    BY <2>1, FS_CardinalityType DEF index_of
<1>3. CASE Place(a) < Place(b)
  BY <1>2, <1>3, IndexIncreases
<1>4. CASE Place(b) < Place(a)
  BY <1>2, <1>4, IndexIncreases
<1>5. CASE Place(a) = Place(b)
  BY <1>1, <1>5
<1> QED
  BY <1>1, <1>3, <1>4, <1>5

\* In a table that is not too long every name has an index of the dimension.
LEMMA IndexInRange ==
  ASSUME NEW tab \in SUBSET NameSet, ~TooMany(tab), NEW a \in tab
  PROVE  index_of(tab, a) \in Indices
<1> DEFINE before == {n \in tab : Place(n) < Place(a)}
<1>1. IsFiniteSet(tab) /\ IsFiniteSet(before)
  BY NamesFinite, FS_Subset
<1>2. before \subseteq tab /\ a \notin before
  BY PlaceType
<1>3. Cardinality(before) \in Nat /\ Cardinality(tab) \in Nat
  BY <1>1, FS_CardinalityType
<1> HIDE DEF before
<1>4. Cardinality(before) <= Cardinality(tab) /\ Cardinality(before) # Cardinality(tab)
  BY <1>1, <1>2, FS_Subset
<1>5. Cardinality(before) < MAX_INTERFACES
  BY <1>3, <1>4, LimitAssumption DEF TooMany
<1> QED
  BY <1>3, <1>5, LimitAssumption DEF index_of, before, Indices

\* An interface match names the interfaces of the host it admits.
Named(match, name) ==
  /\ match.form = "one of" => name \in match.names
  /\ match.form = "none of" => name \notin match.names

\* Whatever table holds a match's names, it resolves to the values of the
\* interfaces it names, and to no value of another.
LEMMA ResolveExact ==
  ASSUME NEW match \in IfMatch, NEW tab \in SUBSET NameSet, ~TooMany(tab), match.names \subseteq tab,
         NEW name \in NameSet, NEW k \in IndicesOf(tab, name)
  PROVE  k \in resolve(match, tab) <=> Named(match, name)
<1>1. match.form \in {"any", "one of", "none of"}
  BY DEF IfMatch
<1>2. k \in Indices
  BY IndexInRange DEF IndicesOf
<1>3. k \in Pointed(tab, match.names) <=> name \in match.names
  <2>1. CASE name \in tab
    <3>1. k = index_of(tab, name)
      BY <2>1 DEF IndicesOf
    <3>2. k \in Pointed(tab, match.names) => name \in match.names
      <4> SUFFICES ASSUME NEW n \in match.names \cap tab, k = index_of(tab, n) PROVE n = name
        BY DEF Pointed
      <4> QED
        BY <2>1, <3>1, IndexInjective
    <3> QED
      BY <2>1, <3>1, <3>2 DEF Pointed
  <2>2. CASE name \notin tab
    BY <2>2 DEF IndicesOf, Pointed
  <2> QED
    BY <2>1, <2>2
<1> QED
  BY <1>1, <1>2, <1>3 DEF resolve, Named

(***************************************************************************)
(* What has been read of a rule after n of its statements.                 *)
(***************************************************************************)
\* What one statement leaves of a dimension.
Leaves(s, dim, v) ==
  /\ s.kind = "dim" /\ s.dim = dim => Among(v, s.value)
  /\ s.kind = "l4" /\ dim = "proto" => v = proto_number[s.proto]
  /\ s.kind = "l4" /\ dim = "dport" => Among(v, s.value)

DimsRead(match, statements, n) ==
  /\ match.saddr = {v \in Addresses : \A k \in 1 .. n : Leaves(statements[k], "saddr", v)}
  /\ match.proto = {v \in Protocols : \A k \in 1 .. n : Leaves(statements[k], "proto", v)}
  /\ match.dport = {v \in PortNumbers : \A k \in 1 .. n : Leaves(statements[k], "dport", v)}

\* The last interface statement counts.
IfRead(match, statements, n) ==
  \/ /\ \A k \in 1 .. n : statements[k].kind # "iifname"
     /\ match.iif = AnyInterface
  \/ \E k \in 1 .. n :
       /\ statements[k].kind = "iifname"
       /\ \A j \in (k + 1) .. n : statements[j].kind # "iifname"
       /\ match.iif = if_spec(statements[k].value)

PortsRead(ported, statements, n) == ported <=> \E k \in 1 .. n : statements[k].kind = "l4"

VerdictRead(acts, statements, n) ==
  \/ /\ acts = {}
     /\ \A k \in 1 .. n : statements[k].kind # "verdict"
  \/ \E k \in 1 .. n :
       /\ statements[k].kind = "verdict"
       /\ \A j \in 1 .. n : statements[j].kind = "verdict" => j = k
       /\ acts = {statements[k].action}

Allowed(hook, s) ==
  /\ s.kind # "outside"
  /\ WellFormed(s) /\ Finished(s)
  /\ s.kind = "iifname" => s.meta \/ hook # "output"

ReadAs(match, acts, ported, hook, statements, n) ==
  /\ match \in Match
  /\ DimsRead(match, statements, n)
  /\ IfRead(match, statements, n)
  /\ PortsRead(ported, statements, n)
  /\ VerdictRead(acts, statements, n)
  /\ \A k \in 1 .. n : Allowed(hook, statements[k])

LEMMA StatementShape ==
  ASSUME NEW s \in Statement
  PROVE  /\ s.kind \in {"dim", "l4", "iifname", "verdict", "aside", "outside"}
         /\ s.kind = "dim" => \/ s.dim = "saddr" /\ s.value \in Value(Addresses)
                              \/ s.dim = "proto" /\ s.value \in Value(Protocols)
         /\ s.kind = "l4" => s.proto \in {"tcp", "udp"} /\ s.value \in Value(PortNumbers)
         /\ s.kind = "iifname" => s.meta \in BOOLEAN /\ s.value \in NameList
         /\ s.kind = "verdict" =>
              s.action \in {"accept", "drop", "reject"} /\ s.with \in BOOLEAN
         /\ s.kind = "aside" => s.takes \in {"nothing", "word", "token"} /\ s.alone \in BOOLEAN
  BY DEF Statement, proto_number

LEMMA DenotedExact ==
  ASSUME NEW domain, NEW value \in Value(domain), NEW v \in domain
  PROVE  v \in Denoted(value, domain) <=> Among(v, value)
<1>1. value.negated \in BOOLEAN
  BY DEF Value
<1>2. v \in UNION value.atoms <=> \E atom \in value.atoms : v \in atom
  OBVIOUS
<1>3. CASE value.negated = TRUE
  BY <1>2, <1>3 DEF Denoted, Among
<1>4. CASE value.negated = FALSE
  BY <1>2, <1>4 DEF Denoted, Among
<1> QED
  BY <1>1, <1>3, <1>4

LEMMA ReadNothing ==
  ASSUME NEW hook, NEW statements
  PROVE  ReadAs(AnyMatch, {}, FALSE, hook, statements, 0)
<1>1. AnyMatch \in Match
  BY DEF AnyMatch, Match, AnyInterface, IfMatch
<1>2. AnyMatch.saddr = Addresses /\ AnyMatch.proto = Protocols /\ AnyMatch.dport = PortNumbers
      /\ AnyMatch.iif = AnyInterface
  BY DEF AnyMatch
<1>3. 1 .. 0 = {}
  OBVIOUS
<1> QED
  BY <1>1, <1>2, <1>3 DEF ReadAs, DimsRead, IfRead, PortsRead, VerdictRead

\* One more statement intersects each dimension with what it leaves of it.
LEMMA DimsReadNext ==
  ASSUME NEW match \in Match, NEW next \in Match, NEW statements, NEW n \in Nat,
         DimsRead(match, statements, n),
         next.saddr = {v \in match.saddr : Leaves(statements[n + 1], "saddr", v)},
         next.proto = {v \in match.proto : Leaves(statements[n + 1], "proto", v)},
         next.dport = {v \in match.dport : Leaves(statements[n + 1], "dport", v)}
  PROVE  DimsRead(next, statements, n + 1)
<1>1. \A dim : \A v : (\A k \in 1 .. (n + 1) : Leaves(statements[k], dim, v))
               <=> /\ \A k \in 1 .. n : Leaves(statements[k], dim, v)
                   /\ Leaves(statements[n + 1], dim, v)
  <2> HIDE DEF Leaves
  <2>1. 1 .. (n + 1) = (1 .. n) \cup {n + 1}
    OBVIOUS
  <2> QED
    BY <2>1
<1> QED
  BY <1>1 DEF DimsRead

LEMMA ReadDim ==
  ASSUME NEW match \in Match, NEW s \in Statement, s.kind = "dim"
  PROVE  /\ ip_match(match, s) \in Match
         /\ ip_match(match, s).saddr = {v \in match.saddr : Leaves(s, "saddr", v)}
         /\ ip_match(match, s).proto = {v \in match.proto : Leaves(s, "proto", v)}
         /\ ip_match(match, s).dport = {v \in match.dport : Leaves(s, "dport", v)}
         /\ ip_match(match, s).iif = match.iif
<1>1. /\ match.saddr \subseteq Addresses /\ match.proto \subseteq Protocols
      /\ match.dport \subseteq PortNumbers
  BY DEF Match
<1>2. CASE s.dim = "saddr"
  <2>1. s.value \in Value(Addresses)
    BY StatementShape, <1>2
  <2>2. ip_match(match, s) = [match EXCEPT !["saddr"] = @ \cap Denoted(s.value, Addresses)]
    BY <1>2 DEF ip_match, constrain, addr_spec
  <2>3. \A v \in Addresses : v \in Denoted(s.value, Addresses) <=> Leaves(s, "saddr", v)
    BY <1>2, <2>1, DenotedExact DEF Leaves
  <2>4. \A v : Leaves(s, "proto", v) /\ Leaves(s, "dport", v)
    BY <1>2 DEF Leaves
  <2>5. ip_match(match, s).saddr = {v \in match.saddr : Leaves(s, "saddr", v)}
    BY <1>1, <2>2, <2>3 DEF Match
  <2>6. /\ ip_match(match, s).proto = match.proto
        /\ ip_match(match, s).dport = match.dport
        /\ ip_match(match, s).iif = match.iif
    BY <2>2 DEF Match
  <2>7. ip_match(match, s) \in Match
    BY <2>2 DEF Match
  <2> QED
    BY <2>4, <2>5, <2>6, <2>7
<1>3. CASE s.dim = "proto"
  <2>1. s.value \in Value(Protocols)
    BY StatementShape, <1>3
  <2>2. ip_match(match, s) = [match EXCEPT !["proto"] = @ \cap Denoted(s.value, Protocols)]
    BY <1>3 DEF ip_match, constrain, proto_spec
  <2>3. \A v \in Protocols : v \in Denoted(s.value, Protocols) <=> Leaves(s, "proto", v)
    BY <1>3, <2>1, DenotedExact DEF Leaves
  <2>4. \A v : Leaves(s, "saddr", v) /\ Leaves(s, "dport", v)
    BY <1>3 DEF Leaves
  <2>5. ip_match(match, s).proto = {v \in match.proto : Leaves(s, "proto", v)}
    BY <1>1, <2>2, <2>3 DEF Match
  <2>6. /\ ip_match(match, s).saddr = match.saddr
        /\ ip_match(match, s).dport = match.dport
        /\ ip_match(match, s).iif = match.iif
    BY <2>2 DEF Match
  <2>7. ip_match(match, s) \in Match
    BY <2>2 DEF Match
  <2> QED
    BY <2>4, <2>5, <2>6, <2>7
<1> QED
  BY <1>2, <1>3, StatementShape

LEMMA ReadL4 ==
  ASSUME NEW match \in Match, NEW s \in Statement, s.kind = "l4"
  PROVE  /\ l4_match(match, s) \in Match
         /\ l4_match(match, s).saddr = {v \in match.saddr : Leaves(s, "saddr", v)}
         /\ l4_match(match, s).proto = {v \in match.proto : Leaves(s, "proto", v)}
         /\ l4_match(match, s).dport = {v \in match.dport : Leaves(s, "dport", v)}
         /\ l4_match(match, s).iif = match.iif
<1>1. match.dport \subseteq PortNumbers
  BY DEF Match
<1>2. s.value \in Value(PortNumbers)
  BY StatementShape
<1>3. l4_match(match, s) =
        [match EXCEPT !["proto"] = @ \cap {proto_number[s.proto]},
                      !["dport"] = @ \cap Denoted(s.value, PortNumbers)]
  BY DEF l4_match, constrain, port_spec, Match
<1>4. \A v \in PortNumbers : v \in Denoted(s.value, PortNumbers) <=> Leaves(s, "dport", v)
  BY <1>2, DenotedExact DEF Leaves
<1>5. \A v : /\ Leaves(s, "saddr", v)
             /\ Leaves(s, "proto", v) <=> v = proto_number[s.proto]
  BY DEF Leaves
<1>6. /\ l4_match(match, s).saddr = match.saddr
      /\ l4_match(match, s).proto = match.proto \cap {proto_number[s.proto]}
      /\ l4_match(match, s).dport = match.dport \cap Denoted(s.value, PortNumbers)
      /\ l4_match(match, s).iif = match.iif
  BY <1>3 DEF Match
<1>7. l4_match(match, s) \in Match
  BY <1>3 DEF Match
<1> QED
  BY <1>1, <1>4, <1>5, <1>6, <1>7

\* What a statement does to the rule in hand.
MovesOn(match, acts, ported, s, next, nextActs, nextPorted) ==
  \/ /\ s.kind = "dim" /\ next = ip_match(match, s)
     /\ nextActs = acts /\ nextPorted = ported
  \/ /\ s.kind = "l4" /\ next = l4_match(match, s)
     /\ nextActs = acts /\ nextPorted = TRUE
  \/ /\ s.kind = "iifname" /\ next = with_iif(match, if_spec(s.value))
     /\ nextActs = acts /\ nextPorted = ported
  \/ /\ s.kind = "aside" /\ next = match
     /\ nextActs = acts /\ nextPorted = ported
  \/ /\ s.kind = "verdict" /\ acts = {} /\ next = match
     /\ nextActs = {s.action} /\ nextPorted = ported

LEMMA ReadNext ==
  ASSUME NEW hook, NEW statements \in Seq(Statement), NEW n \in 0 .. (Len(statements) - 1),
         NEW match, NEW acts, NEW ported \in BOOLEAN, NEW s, s = statements[n + 1],
         ReadAs(match, acts, ported, hook, statements, n), Allowed(hook, s),
         NEW moved, NEW movedActs, NEW movedPorted,
         MovesOn(match, acts, ported, s, moved, movedActs, movedPorted)
  PROVE  ReadAs(moved, movedActs, movedPorted, hook, statements, n + 1)
<1>1. n \in Nat /\ s \in Statement /\ match \in Match
  BY DEF ReadAs
<1>2. 1 .. (n + 1) = (1 .. n) \cup {n + 1}
  BY <1>1
<1>3. \A k \in 1 .. (n + 1) : Allowed(hook, statements[k])
  BY <1>2 DEF ReadAs
<1>4. ASSUME NEW next, s.kind # "iifname", next.iif = match.iif
      PROVE  IfRead(next, statements, n + 1)
  <2>1. CASE /\ \A k \in 1 .. n : statements[k].kind # "iifname"
             /\ match.iif = AnyInterface
    BY <1>2, <1>4, <2>1 DEF IfRead
  <2>2. ASSUME NEW k \in 1 .. n, statements[k].kind = "iifname",
               \A j \in (k + 1) .. n : statements[j].kind # "iifname",
               match.iif = if_spec(statements[k].value)
        PROVE  IfRead(next, statements, n + 1)
    <3>1. k \in 1 .. (n + 1) /\ \A j \in (k + 1) .. (n + 1) : j \in (k + 1) .. n \/ j = n + 1
      BY <1>1
    <3> QED
      BY <1>4, <2>2, <3>1 DEF IfRead
  <2> QED
    BY <2>1, <2>2 DEF ReadAs, IfRead
<1>5. s.kind # "l4" => PortsRead(ported, statements, n + 1)
  BY <1>2 DEF ReadAs, PortsRead
<1>6. s.kind # "verdict" => VerdictRead(acts, statements, n + 1)
  BY <1>2 DEF ReadAs, VerdictRead
<1>7. ASSUME s.kind \notin {"dim", "l4"} PROVE \A dim, v : Leaves(s, dim, v)
  BY <1>7 DEF Leaves
<1>8. ASSUME NEW next \in Match, s.kind \notin {"dim", "l4"}, next.saddr = match.saddr,
             next.proto = match.proto, next.dport = match.dport
      PROVE  DimsRead(next, statements, n + 1)
  BY <1>1, <1>7, <1>8, DimsReadNext DEF ReadAs
<1>9. ASSUME s.kind = "dim"
      PROVE  ReadAs(ip_match(match, s), acts, ported, hook, statements, n + 1)
  <2>1. DimsRead(ip_match(match, s), statements, n + 1)
    BY <1>1, <1>9, ReadDim, DimsReadNext DEF ReadAs
  <2> QED
    BY <1>1, <1>3, <1>4, <1>5, <1>6, <1>9, <2>1, ReadDim DEF ReadAs
<1>10. ASSUME s.kind = "l4"
       PROVE  ReadAs(l4_match(match, s), acts, TRUE, hook, statements, n + 1)
  <2>1. DimsRead(l4_match(match, s), statements, n + 1)
    BY <1>1, <1>10, ReadL4, DimsReadNext DEF ReadAs
  <2>2. PortsRead(TRUE, statements, n + 1)
    BY <1>2, <1>10 DEF PortsRead
  <2> QED
    BY <1>1, <1>3, <1>4, <1>6, <1>10, <2>1, <2>2, ReadL4 DEF ReadAs
<1>11. ASSUME s.kind = "iifname"
       PROVE  ReadAs(with_iif(match, if_spec(s.value)), acts, ported, hook, statements, n + 1)
  <2> DEFINE next == with_iif(match, if_spec(s.value))
  <2>1. /\ s.value \in NameList
        /\ s.value.names # {}
    BY <1>1, <1>11, StatementShape DEF Allowed, WellFormed
  <2>2. if_spec(s.value) \in IfMatch
    <3>1. s.value.names \in (SUBSET NameSet) \ {{}}
      BY <2>1 DEF NameList
    <3>2. PICK form \in {"one of", "none of"} :
                 if_spec(s.value) = [form |-> form, names |-> s.value.names]
      BY DEF if_spec
    <3>3. [form |-> form, names |-> s.value.names] \in
            [form : {"one of", "none of"}, names : (SUBSET NameSet) \ {{}}]
      BY <3>1
    <3> QED
      BY <3>2, <3>3 DEF IfMatch
  <2>3. /\ next \in Match
        /\ next.saddr = match.saddr /\ next.proto = match.proto /\ next.dport = match.dport
        /\ next.iif = if_spec(s.value)
    BY <1>1, <2>2 DEF with_iif, Match
  <2>4. IfRead(next, statements, n + 1)
    <3>1. n + 1 \in 1 .. (n + 1) /\ (n + 2) .. (n + 1) = {}
      BY <1>1
    <3> QED
      BY <1>11, <2>3, <3>1 DEF IfRead
  <2> HIDE DEF next
  <2> QED
    BY <1>3, <1>5, <1>6, <1>8, <1>11, <2>3, <2>4 DEF ReadAs, next
<1>12. ASSUME s.kind = "aside" PROVE ReadAs(match, acts, ported, hook, statements, n + 1)
  BY <1>1, <1>3, <1>4, <1>5, <1>6, <1>8, <1>12 DEF ReadAs
<1>13. ASSUME s.kind = "verdict", acts = {}
       PROVE  ReadAs(match, {s.action}, ported, hook, statements, n + 1)
  <2>1. \A k \in 1 .. n : statements[k].kind # "verdict"
    BY <1>13 DEF ReadAs, VerdictRead
  <2>2. VerdictRead({s.action}, statements, n + 1)
    BY <1>2, <1>13, <2>1 DEF VerdictRead
  <2> QED
    BY <1>1, <1>3, <1>4, <1>5, <1>8, <1>13, <2>2 DEF ReadAs
<1> QED
  BY <1>9, <1>10, <1>11, <1>12, <1>13 DEF MovesOn

(***************************************************************************)
(* A rule that was read whole and let through.                             *)
(***************************************************************************)
Verdicts == {"accept", "drop", "reject"}

RuleTaken(taken, hook, statements) ==
  /\ ~is_unsatisfiable(taken.match)
  /\ \E ported \in BOOLEAN :
       ReadAs(taken.match, {taken.action}, ported, hook, statements, Len(statements))

\* The values that pass a dimension's statements are the ones InSubset asks for.
Passing(statements, dim, v) == \A k \in 1 .. Len(statements) : Leaves(statements[k], dim, v)

LEMMA SubsetByDimension ==
  ASSUME NEW hook, NEW statements \in Seq(Statement)
  PROVE  InSubset(hook, statements) <=>
           /\ \A n \in 1 .. Len(statements) : Allowed(hook, statements[n])
           /\ Cardinality(Occurrences(statements, "verdict")) = 1
           /\ \E v \in Addresses : Passing(statements, "saddr", v)
           /\ \E v \in PortNumbers : Passing(statements, "dport", v)
           /\ \E v \in Protocols : Passing(statements, "proto", v)
<1> DEFINE on(kind, dim) ==
             {n \in Occurrences(statements, kind) : kind = "l4" \/ statements[n].dim = dim}
           passes(v, kind, dim) == \A n \in on(kind, dim) : Among(v, statements[n].value)
<1>1. DOMAIN statements = 1 .. Len(statements)
  OBVIOUS
<1>2. \A n \in 1 .. Len(statements) : statements[n] \in Statement
  OBVIOUS
<1>3. \A v : passes(v, "dim", "saddr") <=> Passing(statements, "saddr", v)
  BY <1>1 DEF Occurrences, Passing, Leaves
<1>4. \A v : passes(v, "l4", "dport") <=> Passing(statements, "dport", v)
  BY <1>1, <1>2, StatementShape DEF Occurrences, Passing, Leaves
<1>5. \A v : /\ passes(v, "dim", "proto")
             /\ \A n \in Occurrences(statements, "l4") : proto_number[statements[n].proto] = v
             <=> Passing(statements, "proto", v)
  BY <1>1, <1>2, StatementShape DEF Occurrences, Passing, Leaves
<1>6. /\ Occurrences(statements, "outside") = {}
      /\ \A n \in DOMAIN statements : WellFormed(statements[n]) /\ Finished(statements[n])
      /\ \A n \in Occurrences(statements, "iifname") : statements[n].meta \/ hook # "output"
      <=> \A n \in 1 .. Len(statements) : Allowed(hook, statements[n])
  BY <1>1 DEF Occurrences, Allowed
<1> HIDE DEF passes
<1> QED
  BY <1>3, <1>4, <1>5, <1>6 DEF InSubset, passes

LEMMA OneVerdict ==
  ASSUME NEW statements \in Seq(Statement), NEW acts,
         VerdictRead(acts, statements, Len(statements))
  PROVE  Cardinality(Occurrences(statements, "verdict")) = 1 <=> acts # {}
<1>1. DOMAIN statements = 1 .. Len(statements)
  OBVIOUS
<1>2. CASE acts = {}
  <2>1. Occurrences(statements, "verdict") = {}
    BY <1>1, <1>2 DEF VerdictRead, Occurrences
  <2>2. Cardinality({}) = 0
    BY FS_EmptySet
  <2> QED
    BY <1>2, <2>1, <2>2
<1>3. CASE acts # {}
  <2>1. PICK k \in 1 .. Len(statements) :
          /\ statements[k].kind = "verdict"
          /\ \A j \in 1 .. Len(statements) : statements[j].kind = "verdict" => j = k
    BY <1>3 DEF VerdictRead
  <2>2. Occurrences(statements, "verdict") = {k}
    BY <1>1, <2>1 DEF Occurrences
  <2> QED
    BY <1>3, <2>2, FS_Singleton
<1> QED
  BY <1>2, <1>3

\* A dimension of what was read is empty exactly when no value passes.
LEMMA SatisfiableByDimension ==
  ASSUME NEW statements \in Seq(Statement), NEW match \in Match,
         DimsRead(match, statements, Len(statements))
  PROVE  is_unsatisfiable(match) <=>
           ~ /\ \E v \in Addresses : Passing(statements, "saddr", v)
             /\ \E v \in PortNumbers : Passing(statements, "dport", v)
             /\ \E v \in Protocols : Passing(statements, "proto", v)
<1>1. DOMAIN Dims = {"saddr", "proto", "dport"}
  BY DEF Dims
<1>2. is_unsatisfiable(match) <=> match.saddr = {} \/ match.proto = {} \/ match.dport = {}
  BY <1>1 DEF is_unsatisfiable
<1> QED
  BY <1>2 DEF DimsRead, Passing

\* A port match leaves one protocol, which has ports.
LEMMA PortsAreSound ==
  ASSUME NEW statements \in Seq(Statement), NEW match \in Match, NEW n \in 0 .. Len(statements),
         DimsRead(match, statements, n), PortsRead(TRUE, statements, n)
  PROVE  match.proto # Protocols /\ match.proto \subseteq PortBearing
<1>1. PICK k \in 1 .. n : statements[k].kind = "l4"
  BY DEF PortsRead
<1>2. statements[k].proto \in {"tcp", "udp"}
  BY <1>1, StatementShape
<1>3. match.proto \subseteq {proto_number[statements[k].proto]}
  BY <1>1 DEF DimsRead, Leaves
<1>4. proto_number.tcp = 6 /\ proto_number.udp = 17
  BY DEF proto_number
<1>5. 6 \in Protocols /\ 17 \in Protocols /\ 6 \in PortBearing /\ 17 \in PortBearing
  BY <1>4, PortBearingAssumption
<1>6. proto_number[statements[k].proto] \in {6, 17}
  BY <1>2, <1>4
<1> QED
  BY <1>3, <1>5, <1>6

\* A rule is taken exactly when it is in the subset.
LEMMA TakenInSubset ==
  ASSUME NEW hook, NEW statements \in Seq(Statement), NEW taken, RuleTaken(taken, hook, statements)
  PROVE  /\ InSubset(hook, statements)
         /\ \E n \in Occurrences(statements, "verdict") : statements[n].action = taken.action
<1>1. PICK ported \in BOOLEAN :
        ReadAs(taken.match, {taken.action}, ported, hook, statements, Len(statements))
  BY DEF RuleTaken
<1>2. Cardinality(Occurrences(statements, "verdict")) = 1
  BY <1>1, OneVerdict DEF ReadAs
<1>3. /\ \E v \in Addresses : Passing(statements, "saddr", v)
      /\ \E v \in PortNumbers : Passing(statements, "dport", v)
      /\ \E v \in Protocols : Passing(statements, "proto", v)
  BY <1>1, SatisfiableByDimension DEF ReadAs, RuleTaken
<1>4. InSubset(hook, statements)
  BY <1>1, <1>2, <1>3, SubsetByDimension DEF ReadAs
<1>5. PICK n \in 1 .. Len(statements) :
        statements[n].kind = "verdict" /\ {taken.action} = {statements[n].action}
  BY <1>1 DEF ReadAs, VerdictRead
<1>6. n \in Occurrences(statements, "verdict")
  BY <1>5 DEF Occurrences
<1> QED
  BY <1>4, <1>5, <1>6

LEMMA RefusedOutsideSubset ==
  ASSUME NEW hook, NEW statements \in Seq(Statement), NEW n \in 0 .. Len(statements),
         NEW match, NEW acts, NEW ported \in BOOLEAN,
         ReadAs(match, acts, ported, hook, statements, n),
         \/ n < Len(statements) /\ ~Allowed(hook, statements[n + 1])
         \/ n < Len(statements) /\ statements[n + 1].kind = "verdict" /\ acts # {}
         \/ n = Len(statements) /\ acts = {}
         \/ n = Len(statements) /\ is_unsatisfiable(match)
         \/ n = Len(statements) /\ ported /\ ~(match.proto # Protocols /\ match.proto \subseteq PortBearing)
  PROVE  ~InSubset(hook, statements)
<1>1. CASE n < Len(statements) /\ ~Allowed(hook, statements[n + 1])
  <2>1. n + 1 \in 1 .. Len(statements)
    BY <1>1
  <2> QED
    BY <1>1, <2>1, SubsetByDimension
<1>2. CASE n < Len(statements) /\ statements[n + 1].kind = "verdict" /\ acts # {}
  <2>1. PICK k \in 1 .. n : statements[k].kind = "verdict"
    BY <1>2 DEF ReadAs, VerdictRead
  <2>2. /\ k \in Occurrences(statements, "verdict")
        /\ n + 1 \in Occurrences(statements, "verdict")
        /\ k # n + 1
    BY <1>2, <2>1 DEF Occurrences
  <2>3. IsFiniteSet(Occurrences(statements, "verdict"))
    <3>1. IsFiniteSet(1 .. Len(statements))
      BY FS_Interval
    <3>2. Occurrences(statements, "verdict") \subseteq 1 .. Len(statements)
      BY DEF Occurrences
    <3> QED
      BY <3>1, <3>2, FS_Subset
  <2>4. Cardinality(Occurrences(statements, "verdict")) # 1
    <3> SUFFICES ASSUME Cardinality(Occurrences(statements, "verdict")) = 1 PROVE FALSE
      OBVIOUS
    <3>1. PICK x : Occurrences(statements, "verdict") = {x}
      BY <2>3, FS_Singleton
    <3> QED
      BY <2>2, <3>1
  <2> QED
    BY <2>4, SubsetByDimension
<1>3. CASE n = Len(statements) /\ acts = {}
  BY <1>3, OneVerdict, SubsetByDimension DEF ReadAs
<1>4. CASE n = Len(statements) /\ is_unsatisfiable(match)
  BY <1>4, SatisfiableByDimension, SubsetByDimension DEF ReadAs
<1>5. CASE n = Len(statements) /\ ported /\ ~(match.proto # Protocols /\ match.proto \subseteq PortBearing)
  BY <1>5, PortsAreSound DEF ReadAs
<1> QED
  BY <1>1, <1>2, <1>3, <1>4, <1>5

(***************************************************************************)
(* What a taken rule matches.                                              *)
(***************************************************************************)
LEMMA AtMostOne ==
  ASSUME NEW S, IsFiniteSet(S), Cardinality(S) <= 1, NEW a \in S, NEW b \in S
  PROVE  a = b
<1>1. Cardinality(S) \in Nat
  BY FS_CardinalityType
<1>2. Cardinality(S) # 0
  BY FS_EmptySet
<1>3. PICK x : S = {x}
  BY <1>1, <1>2, FS_Singleton
<1> QED
  BY <1>3

LEMMA Differs ==
  ASSUME NEW x, NEW S, NEW b \in BOOLEAN
  PROVE  ((x \in S) # b) <=> (x \in S <=> ~b)
<1>1. (x \in S) \in BOOLEAN
  OBVIOUS
<1>2. \A P, Q \in BOOLEAN : (P # Q) <=> (P <=> ~Q)
  OBVIOUS
<1> QED
  BY <1>1, <1>2

LEMMA SpecNames ==
  ASSUME NEW v, v.negated \in BOOLEAN, NEW name
  PROVE  Named(if_spec(v), name) <=> (name \in v.names) # v.negated
<1>1. CASE v.negated = TRUE
  <2>1. if_spec(v).form = "none of" /\ if_spec(v).names = v.names
    BY <1>1 DEF if_spec
  <2>2. Named(if_spec(v), name) <=> name \notin v.names
    BY <2>1 DEF Named
  <2> QED
    BY <1>1, <2>2, Differs
<1>2. CASE v.negated = FALSE
  <2>1. if_spec(v).form = "one of" /\ if_spec(v).names = v.names
    BY <1>2 DEF if_spec
  <2>2. Named(if_spec(v), name) <=> name \in v.names
    BY <2>1 DEF Named
  <2> QED
    BY <1>2, <2>2, Differs
<1> QED
  BY <1>1, <1>2

\* With one interface match at most, the interfaces of a rule are those its
\* interface statements admit.
LEMMA InterfacesRead ==
  ASSUME NEW match, NEW statements \in Seq(Statement), NEW name,
         IfRead(match, statements, Len(statements)),
         Cardinality(Occurrences(statements, "iifname")) <= 1
  PROVE  Named(match.iif, name) <=>
           \A n \in 1 .. Len(statements) :
             statements[n].kind = "iifname" =>
               (name \in statements[n].value.names) # statements[n].value.negated
<1>1. CASE /\ \A k \in 1 .. Len(statements) : statements[k].kind # "iifname"
           /\ match.iif = AnyInterface
  BY <1>1 DEF Named, AnyInterface
<1>2. ASSUME NEW k \in 1 .. Len(statements), statements[k].kind = "iifname",
             match.iif = if_spec(statements[k].value)
      PROVE  Named(match.iif, name) <=>
               \A n \in 1 .. Len(statements) :
                 statements[n].kind = "iifname" =>
                   (name \in statements[n].value.names) # statements[n].value.negated
  <2>1. IsFiniteSet(Occurrences(statements, "iifname"))
    <3>1. IsFiniteSet(1 .. Len(statements))
      BY FS_Interval
    <3>2. Occurrences(statements, "iifname") \subseteq 1 .. Len(statements)
      BY DEF Occurrences
    <3> QED
      BY <3>1, <3>2, FS_Subset
  <2>2. \A n \in 1 .. Len(statements) : statements[n].kind = "iifname" => n = k
    <3> SUFFICES ASSUME NEW n \in 1 .. Len(statements), statements[n].kind = "iifname"
                 PROVE  n = k
      OBVIOUS
    <3>1. n \in Occurrences(statements, "iifname") /\ k \in Occurrences(statements, "iifname")
      BY <1>2 DEF Occurrences
    <3> QED
      BY <2>1, <3>1, AtMostOne
  <2>3. statements[k].value.negated \in BOOLEAN
    BY <1>2, StatementShape DEF NameList
  <2>4. Named(match.iif, name) <=> (name \in statements[k].value.names) # statements[k].value.negated
    BY <1>2, <2>3, SpecNames
  <2> QED
    BY <1>2, <2>2, <2>4
<1> QED
  BY <1>1, <1>2 DEF IfRead

\* What a statement asks of a packet, dimension by dimension.
LEMMA StatementByDimension ==
  ASSUME NEW s \in Statement, NEW k
  PROVE  StatementMatches(s, k) <=>
           /\ Leaves(s, "saddr", k.saddr)
           /\ Leaves(s, "proto", k.proto)
           /\ Leaves(s, "dport", k.dport)
           /\ s.kind = "iifname" => (k.iif \in s.value.names) # s.value.negated
<1>1. CASE s.kind = "dim"
  BY <1>1, StatementShape DEF StatementMatches, Leaves
<1>2. CASE s.kind = "l4"
  BY <1>2 DEF StatementMatches, Leaves
<1>3. CASE s.kind = "iifname"
  BY <1>3 DEF StatementMatches, Leaves
<1>4. CASE s.kind \in {"verdict", "aside", "outside"}
  BY <1>4 DEF StatementMatches, Leaves
<1> QED
  BY <1>1, <1>2, <1>3, <1>4, StatementShape

LEMMA TakenExact ==
  ASSUME NEW hook, NEW statements \in Seq(Statement), NEW taken, RuleTaken(taken, hook, statements),
         Modelled(hook, statements), NEW tab \in SUBSET NameSet, ~TooMany(tab),
         taken.match.iif.names \subseteq tab,
         NEW k \in KernelPackets, NEW point \in PointsOf(k, tab)
  PROVE  Admits(taken.match, tab, point) <=> KernelMatches(statements, k)
<1> DEFINE match == taken.match
           Ports == \A n \in 1 .. Len(statements) : statements[n].kind = "l4" => k.proto = proto_number[statements[n].proto]
<1>1. /\ match \in Match
      /\ DimsRead(match, statements, Len(statements))
      /\ IfRead(match, statements, Len(statements))
  BY DEF RuleTaken, ReadAs
<1>2. /\ k.saddr \in Addresses /\ k.proto \in Protocols /\ k.iif \in NameSet
      /\ k.proto \in PortBearing => k.dport \in PortNumbers
  BY PortBearingAssumption DEF KernelPackets
<1>3. /\ point.saddr = k.saddr /\ point.proto = k.proto
      /\ k.proto \in PortBearing => point.dport = k.dport
      /\ k.proto \notin PortBearing => point.dport \in PortNumbers
      /\ point.iif \in IndicesOf(tab, k.iif)
  BY DEF PointsOf
<1>4. Admits(match, tab, point) <=> /\ point.saddr \in match.saddr
                                    /\ point.proto \in match.proto
                                    /\ point.dport \in match.dport
                                    /\ point.iif \in resolve(match.iif, tab)
  <2>1. DOMAIN Dims = {"saddr", "proto", "dport"}
    BY DEF Dims
  <2> QED
    BY <2>1 DEF Admits
<1>5. point.iif \in resolve(match.iif, tab) <=>
        \A n \in 1 .. Len(statements) :
          statements[n].kind = "iifname" =>
            (k.iif \in statements[n].value.names) # statements[n].value.negated
  <2>1. match.iif \in IfMatch
    BY <1>1 DEF Match
  <2>2. point.iif \in resolve(match.iif, tab) <=> Named(match.iif, k.iif)
    BY <1>2, <1>3, <2>1, ResolveExact
  <2> QED
    BY <1>1, <2>2, InterfacesRead DEF Modelled
<1>6. KernelMatches(statements, k) <=>
        /\ Passing(statements, "saddr", k.saddr)
        /\ Passing(statements, "proto", k.proto)
        /\ Passing(statements, "dport", k.dport)
        /\ \A n \in 1 .. Len(statements) :
             statements[n].kind = "iifname" =>
               (k.iif \in statements[n].value.names) # statements[n].value.negated
  BY StatementByDimension DEF KernelMatches, Passing
<1>7. /\ point.saddr \in match.saddr <=> Passing(statements, "saddr", k.saddr)
      /\ point.proto \in match.proto <=> Passing(statements, "proto", k.proto)
  BY <1>1, <1>2, <1>3 DEF DimsRead, Passing
<1>8. Passing(statements, "proto", k.proto) =>
        (point.dport \in match.dport <=> Passing(statements, "dport", k.dport))
  <2>1. CASE k.proto \in PortBearing
    BY <1>1, <1>2, <1>3, <2>1 DEF DimsRead, Passing
  <2>2. CASE k.proto \notin PortBearing
    <3> SUFFICES ASSUME Passing(statements, "proto", k.proto)
                 PROVE  point.dport \in match.dport <=> Passing(statements, "dport", k.dport)
      OBVIOUS
    <3>1. ASSUME NEW n \in 1 .. Len(statements) PROVE statements[n].kind # "l4"
      <4>1. statements[n].kind = "l4" => k.proto = proto_number[statements[n].proto]
        BY DEF Passing, Leaves
      <4>2. statements[n].kind = "l4" => statements[n].proto \in {"tcp", "udp"}
        BY StatementShape
      <4>3. proto_number.tcp \in PortBearing /\ proto_number.udp \in PortBearing
        BY PortBearingAssumption
      <4> QED
        BY <2>2, <4>1, <4>2, <4>3
    <3>2. \A v : Passing(statements, "dport", v)
      <4> SUFFICES ASSUME NEW v, NEW n \in 1 .. Len(statements)
                   PROVE  Leaves(statements[n], "dport", v)
        BY DEF Passing
      <4> QED
        BY <3>1, StatementShape DEF Leaves
    <3> QED
      BY <1>1, <1>3, <2>2, <3>2 DEF DimsRead, Passing
  <2> QED
    BY <2>1, <2>2
<1> QED
  BY <1>4, <1>5, <1>6, <1>7, <1>8

(***************************************************************************)
(* Types, of any file: every chain declared is the text's, every rule      *)
(* pushed can match, and no rule is pushed that was not begun.             *)
(***************************************************************************)
ParsedRule == [match : Match, action : Verdicts]

ParsedChain == [hook : Hooks, policy : {"accept", "drop"}, rules : Seq(ParsedRule)]

Shape ==
  /\ text \in Seq(ChainText) /\ other \subseteq NameSet /\ table \subseteq NameSet
  /\ pc \in {"chain", "rule", "statement", "parsed", "resolved", "refused"}
  /\ line \in Nat
  /\ rest \in Seq(Statement)
  /\ m \in Match /\ action \subseteq Verdicts /\ ports_constrained \in BOOLEAN
  /\ chains \in Seq(ParsedChain)

ChainDeclared(chain, c) ==
  /\ c.type = "filter"
  /\ chain.hook = c.hook /\ chain.policy = PolicyOf(c)
  /\ \A l \in 1 .. Len(chain.rules) : ~is_unsatisfiable(chain.rules[l].match)

Declared ==
  /\ Len(chains) <= Len(text)
  /\ \A k \in 1 .. Len(chains) : ChainDeclared(chains[k], text[k])

InChain ==
  /\ pc \in {"rule", "statement"} => Len(chains) > 0
  /\ pc \in {"parsed", "resolved"} => Len(chains) = Len(text)

Begun ==
  /\ pc = "rule" => Len(Pushed) <= line /\ line <= Len(Written)
  /\ pc = "statement" => Len(Pushed) < line /\ line <= Len(Written)

Tabled == pc = "resolved" => table = interface_names \cup other /\ ~TooMany(table)

Typed == Shape /\ Declared /\ InChain /\ Begun /\ Tabled

LEMMA PolicyType ==
  ASSUME NEW c \in ChainText
  PROVE  PolicyOf(c) \in {"accept", "drop"} /\ (PolicyOf(c) = "drop" <=> c.policy = {"drop"})
<1>1. c.policy \in {{}, {"accept"}, {"drop"}}
  BY DEF ChainText
<1> QED
  BY <1>1 DEF PolicyOf

LEMMA TextShape ==
  ASSUME Shape, NEW k \in 1 .. Len(text)
  PROVE  /\ text[k] \in ChainText
         /\ text[k].rules \in Seq(Seq(Statement))
         /\ \A l \in 1 .. Len(text[k].rules) : text[k].rules[l] \in Seq(Statement)
<1>1. text[k] \in ChainText
  BY DEF Shape
<1>2. text[k].rules \in Seq(Seq(Statement))
  BY <1>1 DEF ChainText
<1> QED
  BY <1>1, <1>2

\* The last chain and what is written of it.
LEMMA LastChain ==
  ASSUME Shape, Declared, InChain, pc \in {"rule", "statement"}
  PROVE  /\ Len(chains) \in 1 .. Len(text) /\ Len(chains) \in DOMAIN chains
         /\ Last(chains) = chains[Len(chains)]
         /\ Last(chains) \in ParsedChain
         /\ Last(chains).hook = text[Len(chains)].hook
         /\ Pushed \in Seq(ParsedRule) /\ Pushed = chains[Len(chains)].rules
         /\ Written \in Seq(Seq(Statement))
<1>1. Len(chains) \in 1 .. Len(text) /\ Len(chains) \in 1 .. Len(chains) /\ Len(chains) \in DOMAIN chains
  BY DEF Shape, Declared, InChain
<1>2. Last(chains) = chains[Len(chains)]
  BY DEF Last
<1>3. chains[Len(chains)] \in ParsedChain
  BY <1>1 DEF Shape
<1>4. ChainDeclared(chains[Len(chains)], text[Len(chains)])
  BY <1>1 DEF Declared
<1> QED
  BY <1>1, <1>2, <1>3, <1>4, TextShape DEF Pushed, Written, ChainDeclared, ParsedChain

\* An interface statement that is well formed is an interface match.
LEMMA InterfaceRead ==
  ASSUME NEW s \in Statement, s.kind = "iifname", WellFormed(s)
  PROVE  if_spec(s.value) \in IfMatch
<1>1. s.value.names \in (SUBSET NameSet) \ {{}}
  BY StatementShape DEF WellFormed, NameList
<1>2. PICK form \in {"one of", "none of"} : if_spec(s.value) = [form |-> form, names |-> s.value.names]
  BY DEF if_spec
<1>3. [form |-> form, names |-> s.value.names] \in
        [form : {"one of", "none of"}, names : (SUBSET NameSet) \ {{}}]
  BY <1>1
<1> QED
  BY <1>2, <1>3 DEF IfMatch

LEMMA TypedInitially == Init => Typed
<1> SUFFICES ASSUME Init PROVE Typed
  OBVIOUS
<1>1. text \in Seq(ChainText) /\ other \subseteq NameSet
  BY FilesAssumption, OtherAssumption DEF Init
<1>2. AnyMatch \in Match
  BY DEF AnyMatch, Match, AnyInterface, IfMatch
<1>3. <<>> \in Seq(Statement) /\ <<>> \in Seq(ParsedChain)
  BY EmptySeq
<1>4. Shape
  BY <1>1, <1>2, <1>3 DEF Init, Shape
<1>5. Declared /\ InChain
  BY <1>1 DEF Init, Declared, InChain
<1> QED
  BY <1>4, <1>5 DEF Init, Typed, Begun, Tabled

LEMMA RefuseTyped ==
  ASSUME Typed, Refuse, UNCHANGED <<text, other, table>>
  PROVE  Typed'
<1>1. pc' = "refused" /\ UNCHANGED <<line, rest, m, action, ports_constrained, chains>>
  BY DEF Refuse
<1>2. Shape'
  BY <1>1 DEF Typed, Shape
<1>3. Declared'
  BY <1>1 DEF Typed, Declared
<1> QED
  BY <1>1, <1>2, <1>3 DEF Typed, InChain, Begun, Tabled

LEMMA DeclareChainTyped == Typed /\ DeclareChain => Typed'
<1> SUFFICES ASSUME Typed, DeclareChain PROVE Typed'
  OBVIOUS
<1> DEFINE c == text[Len(chains) + 1]
           new == [hook |-> c.hook, policy |-> PolicyOf(c), rules |-> <<>>]
<1>1. Shape /\ Declared /\ pc = "chain" /\ text' = text /\ other' = other /\ table' = table
  BY DEF Typed, DeclareChain
<1>2. /\ text \in Seq(ChainText) /\ chains \in Seq(ParsedChain)
      /\ Len(chains) + 1 \in 1 .. Len(text)
  BY DEF Typed, Shape, DeclareChain
<1>3. c \in ChainText
  BY <1>1, <1>2, TextShape
<1>4. CASE c.type = "filter" /\ c.hook \in Hooks
  <2>1. /\ chains' = Append(chains, new) /\ pc' = "rule" /\ line' = 0
        /\ rest' = rest /\ m' = m /\ action' = action /\ ports_constrained' = ports_constrained
    BY <1>4 DEF DeclareChain
  <2>2. new \in ParsedChain
    <3>1. <<>> \in Seq(ParsedRule)
      BY EmptySeq
    <3> QED
      BY <1>3, <1>4, <3>1, PolicyType DEF ParsedChain
  <2>3. new.rules = <<>> /\ ChainDeclared(new, c)
    BY <1>4 DEF ChainDeclared
  <2>4. c.rules \in Seq(Seq(Statement))
    BY <1>3 DEF ChainText
  <2> HIDE DEF new
  <2>5. /\ Len(chains') = Len(chains) + 1
        /\ \A k \in 1 .. Len(chains) : chains'[k] = chains[k]
        /\ chains'[Len(chains) + 1] = new
        /\ chains' \in Seq(ParsedChain)
    BY <1>2, <2>1, <2>2, AppendProperties
  <2>6. Shape'
    BY <1>1, <2>1, <2>5 DEF Shape
  <2>7. Declared'
    <3>1. \A k \in 1 .. Len(chains') : k \in 1 .. Len(chains) \/ k = Len(chains) + 1
      BY <1>2, <2>5
    <3> QED
      BY <1>1, <1>2, <2>3, <2>5, <3>1 DEF Declared
  <2>8. InChain'
    BY <1>2, <2>1, <2>5 DEF InChain
  <2>9. Pushed' = <<>> /\ Written' = c.rules
    <3>1. chains'[Len(chains')] = new
      BY <2>5
    <3> QED
      BY <1>1, <2>3, <2>5, <3>1 DEF Pushed, Written, Last
  <2> QED
    BY <2>1, <2>4, <2>6, <2>7, <2>8, <2>9 DEF Typed, Begun, Tabled
<1>5. CASE ~(c.type = "filter" /\ c.hook \in Hooks)
  BY <1>1, <1>5, RefuseTyped DEF DeclareChain
<1> QED
  BY <1>4, <1>5

LEMMA StartRuleTyped == Typed /\ StartRule => Typed'
<1> SUFFICES ASSUME Typed, StartRule PROVE Typed'
  OBVIOUS
<1>1. /\ Shape /\ Declared /\ InChain /\ pc = "rule" /\ line \in Nat /\ line < Len(Written)
      /\ UNCHANGED <<text, other, chains, table>> /\ line' = line + 1
      /\ rest' = Written[line + 1] /\ m' = AnyMatch /\ action' = {} /\ ports_constrained' = FALSE
      /\ pc' = "statement"
  BY DEF Typed, StartRule, Shape
<1>2. Written \in Seq(Seq(Statement)) /\ Pushed \in Seq(ParsedRule) /\ Len(Pushed) <= line
  BY <1>1, LastChain DEF Typed, Begun
<1>3. Written[line + 1] \in Seq(Statement)
  BY <1>1, <1>2
<1>4. AnyMatch \in Match
  BY DEF AnyMatch, Match, AnyInterface, IfMatch
<1>5. Shape'
  <2>1. rest' \in Seq(Statement)
    BY <1>1, <1>3
  <2>2. line' \in Nat
    BY <1>1
  <2>3. m' \in Match /\ action' \subseteq Verdicts
    BY <1>1, <1>4
  <2>4. ports_constrained' \in BOOLEAN
    BY <1>1
  <2> QED
    BY <1>1, <2>1, <2>2, <2>3, <2>4 DEF Shape
<1>6. Declared' /\ InChain'
  BY <1>1 DEF Declared, InChain
<1>7. Pushed' = Pushed /\ Written' = Written
  BY <1>1 DEF Pushed, Written, Last
<1> QED
  BY <1>1, <1>2, <1>5, <1>6, <1>7 DEF Typed, Begun, Tabled

LEMMA EndChainTyped == Typed /\ EndChain => Typed'
  BY DEF Typed, EndChain, Shape, Declared, InChain, Begun, Tabled

LEMMA EndFileTyped == Typed /\ EndFile => Typed'
  BY DEF Typed, EndFile, Shape, Declared, InChain, Begun, Tabled

\* A step inside a rule, but for its end.
LEMMA InRuleTyped ==
  ASSUME Typed, pc = "statement", pc' = "statement", UNCHANGED <<text, other, chains, table>>,
         line' = line \/ line' = line + 1, line' <= Len(Written),
         rest' \in Seq(Statement), m' \in Match, action' \subseteq Verdicts,
         ports_constrained' \in BOOLEAN
  PROVE  Typed'
<1>1. Pushed' = Pushed /\ Written' = Written
  BY DEF Pushed, Written, Last
<1>2. Pushed \in Seq(ParsedRule) /\ line \in Nat /\ Len(Pushed) < line
  BY LastChain DEF Typed, Shape, Begun
<1>3. Shape'
  BY <1>2 DEF Typed, Shape
<1>4. Declared' /\ InChain'
  BY DEF Typed, Declared, InChain
<1> QED
  BY <1>1, <1>2, <1>3, <1>4 DEF Typed, Begun, Tabled

LEMMA HeadAndTail ==
  ASSUME NEW statements \in Seq(Statement), statements # <<>>
  PROVE  /\ Head(statements) \in Statement /\ Head(statements) = statements[1]
         /\ Tail(statements) \in Seq(Statement) /\ Len(Tail(statements)) = Len(statements) - 1
         /\ \A i \in 1 .. Len(Tail(statements)) : Tail(statements)[i] = statements[i + 1]
<1>1. Len(statements) \in Nat \ {0}
  BY EmptySeq
<1>2. /\ Tail(statements) \in Seq(Statement) /\ Len(Tail(statements)) = Len(statements) - 1
      /\ \A i \in 1 .. Len(Tail(statements)) : Tail(statements)[i] = statements[i + 1]
  BY HeadTailProperties
<1>3. Head(statements) = statements[1] /\ statements[1] \in Statement
  BY <1>1
<1> QED
  BY <1>2, <1>3

LEMMA ReadMatchTyped == Typed /\ ReadMatch => Typed'
<1> SUFFICES ASSUME Typed, ReadMatch PROVE Typed'
  OBVIOUS
<1> DEFINE s == Head(rest)
<1>1. /\ pc = "statement" /\ pc' = "statement" /\ rest # <<>> /\ rest' = Tail(rest)
      /\ UNCHANGED <<text, other, line, chains, table>> /\ action' = action /\ WellFormed(s)
      /\ rest \in Seq(Statement) /\ m \in Match /\ action \subseteq Verdicts
      /\ ports_constrained \in BOOLEAN /\ line <= Len(Written)
  BY DEF ReadMatch, Typed, Shape, Begun
<1>2. s \in Statement /\ Tail(rest) \in Seq(Statement)
  BY <1>1, HeadAndTail
<1>3. \/ s.kind = "dim" /\ m' = ip_match(m, s) /\ ports_constrained' = ports_constrained
      \/ s.kind = "l4" /\ m' = l4_match(m, s) /\ ports_constrained' = TRUE
      \/ /\ s.kind = "iifname" /\ m' = with_iif(m, if_spec(s.value))
         /\ ports_constrained' = ports_constrained
  BY DEF ReadMatch
<1> HIDE DEF s
<1>4. m' \in Match /\ ports_constrained' \in BOOLEAN
  <2>1. CASE s.kind = "dim"
    BY <1>1, <1>2, <1>3, <2>1, ReadDim
  <2>2. CASE s.kind = "l4"
    BY <1>1, <1>2, <1>3, <2>2, ReadL4
  <2>3. CASE s.kind = "iifname"
    <3>1. if_spec(s.value) \in IfMatch
      BY <1>1, <1>2, <2>3, InterfaceRead
    <3>2. m' = with_iif(m, if_spec(s.value)) /\ ports_constrained' = ports_constrained
      BY <1>3, <2>3
    <3> QED
      BY <1>1, <3>1, <3>2 DEF with_iif, Match
  <2> QED
    BY <1>3, <2>1, <2>2, <2>3
<1> QED
  BY <1>1, <1>2, <1>4, InRuleTyped

LEMMA RemainderType ==
  ASSUME NEW s \in Statement
  PROVE  Remainder(s) \in Seq(Statement)
<1>1. <<>> \in Seq(Statement)
  BY EmptySeq
<1>2. [kind |-> "outside", alone |-> FALSE] \in Statement
  BY DEF Statement
<1>3. ASSUME s.kind = "iifname", s.meta PROVE [s EXCEPT !.meta = FALSE] \in Statement
  <2>1. s \in [kind : {"iifname"}, meta : BOOLEAN, value : NameList]
    BY <1>3 DEF Statement
  <2> QED
    BY <2>1 DEF Statement
<1> QED
  BY <1>1, <1>2, <1>3 DEF Remainder

LEMMA ReadAsideTyped == Typed /\ ReadAside => Typed'
<1> SUFFICES ASSUME Typed, ReadAside PROVE Typed'
  OBVIOUS
<1> DEFINE takes == Head(rest).takes
           left == Tail(rest)
<1>1. /\ pc = "statement" /\ pc' = "statement" /\ rest # <<>> /\ line \in Nat
      /\ UNCHANGED <<text, other, m, action, ports_constrained, chains, table>>
      /\ rest \in Seq(Statement) /\ m \in Match /\ action \subseteq Verdicts
      /\ ports_constrained \in BOOLEAN /\ line <= Len(Written) /\ Written \in Seq(Seq(Statement))
  BY LastChain DEF ReadAside, Typed, Shape, Begun
<1>2. left \in Seq(Statement)
  BY <1>1, HeadAndTail
<1>3. \/ rest' = left /\ line' = line
      \/ left # <<>> /\ rest' = Remainder(Head(left)) \o Tail(left) /\ line' = line
      \/ line < Len(Written) /\ rest' = Written[line + 1] /\ line' = line + 1
      \/ rest' = <<>> /\ line' = line
  BY DEF ReadAside
<1> HIDE DEF left
<1>4. rest' \in Seq(Statement) /\ line' <= Len(Written) /\ (line' = line \/ line' = line + 1)
  <2>1. CASE left # <<>> /\ rest' = Remainder(Head(left)) \o Tail(left) /\ line' = line
    <3>1. Remainder(Head(left)) \in Seq(Statement) /\ Tail(left) \in Seq(Statement)
      BY <1>2, <2>1, HeadAndTail, RemainderType
    <3>2. Remainder(Head(left)) \o Tail(left) \in Seq(Statement)
      BY <3>1
    <3> QED
      BY <1>1, <2>1, <3>2
  <2>2. CASE line < Len(Written) /\ rest' = Written[line + 1] /\ line' = line + 1
    BY <1>1, <2>2
  <2>3. CASE (rest' = left \/ rest' = <<>>) /\ line' = line
    <3>1. <<>> \in Seq(Statement)
      BY EmptySeq
    <3> QED
      BY <1>1, <1>2, <2>3, <3>1
  <2> QED
    BY <1>3, <2>1, <2>2, <2>3
<1> QED
  BY <1>1, <1>4, InRuleTyped

LEMMA ReadVerdictTyped == Typed /\ ReadVerdict => Typed'
<1> SUFFICES ASSUME Typed, ReadVerdict PROVE Typed'
  OBVIOUS
<1>1. CASE Settles(action)
  <2>1. /\ pc = "statement" /\ pc' = "statement" /\ rest # <<>> /\ Head(rest).kind = "verdict"
        /\ UNCHANGED <<text, other, line, m, ports_constrained, chains, table>>
        /\ action' = {Head(rest).action}
        /\ rest' = IF Head(rest).with THEN <<>> ELSE Tail(rest)
        /\ rest \in Seq(Statement) /\ m \in Match /\ ports_constrained \in BOOLEAN
        /\ line <= Len(Written)
    BY <1>1 DEF ReadVerdict, Typed, Shape, Begun
  <2>2. Head(rest) \in Statement /\ Tail(rest) \in Seq(Statement) /\ <<>> \in Seq(Statement)
    BY <2>1, HeadAndTail, EmptySeq
  <2>3. action' \subseteq Verdicts
    BY <2>1, <2>2, StatementShape DEF Verdicts
  <2>4. rest' \in Seq(Statement)
    BY <2>1, <2>2
  <2> QED
    BY <2>1, <2>3, <2>4, InRuleTyped
<1>2. CASE ~Settles(action)
  BY <1>2, RefuseTyped DEF ReadVerdict
<1> QED
  BY <1>1, <1>2

\* A rule pushed on the last chain leaves the others as they are.
LEMMA PushRule ==
  ASSUME Shape, Declared, InChain, pc = "statement", NEW taken \in ParsedRule,
         chains' = [chains EXCEPT ![Len(chains)].rules = Append(@, taken)]
  PROVE  /\ chains' \in Seq(ParsedChain) /\ Len(chains') = Len(chains)
         /\ \A k \in 1 .. Len(chains) : k # Len(chains) => chains'[k] = chains[k]
         /\ chains'[Len(chains)].hook = chains[Len(chains)].hook
         /\ chains'[Len(chains)].policy = chains[Len(chains)].policy
         /\ chains'[Len(chains)].rules = Append(Pushed, taken)
         /\ Len(Append(Pushed, taken)) = Len(Pushed) + 1
         /\ \A l \in 1 .. Len(Pushed) : Append(Pushed, taken)[l] = Pushed[l]
         /\ Append(Pushed, taken)[Len(Pushed) + 1] = taken
<1>1. /\ Len(chains) \in 1 .. Len(chains) /\ chains \in Seq(ParsedChain)
      /\ Pushed \in Seq(ParsedRule) /\ Pushed = chains[Len(chains)].rules
      /\ chains[Len(chains)] \in ParsedChain
  BY LastChain DEF Shape, Pushed
<1>2. Append(Pushed, taken) \in Seq(ParsedRule)
  BY <1>1, AppendProperties
<1> DEFINE pushed == [chains[Len(chains)] EXCEPT !.rules = Append(Pushed, taken)]
<1>3. chains' = [chains EXCEPT ![Len(chains)] = pushed]
  BY <1>1
<1>4. /\ pushed \in ParsedChain
      /\ pushed.hook = chains[Len(chains)].hook
      /\ pushed.policy = chains[Len(chains)].policy
      /\ pushed.rules = Append(Pushed, taken)
  BY <1>1, <1>2 DEF ParsedChain
<1> HIDE DEF pushed
<1>5. /\ chains' \in Seq(ParsedChain) /\ Len(chains') = Len(chains)
      /\ \A k \in 1 .. Len(chains) : k # Len(chains) => chains'[k] = chains[k]
      /\ chains'[Len(chains)] = pushed
  <2>1. /\ [chains EXCEPT ![Len(chains)] = pushed] \in Seq(ParsedChain)
        /\ Len([chains EXCEPT ![Len(chains)] = pushed]) = Len(chains)
        /\ \A k \in 1 .. Len(chains) : [chains EXCEPT ![Len(chains)] = pushed][k] =
                                      IF k = Len(chains) THEN pushed ELSE chains[k]
    BY <1>1, <1>4, ExceptSeq
  <2> QED
    BY <1>1, <1>3, <2>1
<1>6. /\ Len(Append(Pushed, taken)) = Len(Pushed) + 1
      /\ \A l \in 1 .. Len(Pushed) : Append(Pushed, taken)[l] = Pushed[l]
      /\ Append(Pushed, taken)[Len(Pushed) + 1] = taken
  BY <1>1, AppendProperties
<1> QED
  BY <1>4, <1>5, <1>6

LEMMA EndRuleTyped == Typed /\ EndRule => Typed'
<1> SUFFICES ASSUME Typed, EndRule PROVE Typed'
  OBVIOUS
<1>1. /\ pc = "statement" /\ UNCHANGED <<text, other, table>>
      /\ Shape /\ Declared /\ InChain /\ action \subseteq Verdicts /\ m \in Match
      /\ line \in Nat /\ Len(Pushed) < line /\ line <= Len(Written)
  BY DEF EndRule, Typed, Shape, Begun
<1>2. /\ Len(chains) \in 1 .. Len(text) /\ chains \in Seq(ParsedChain)
      /\ Pushed = chains[Len(chains)].rules /\ Pushed \in Seq(ParsedRule)
      /\ Len(chains) \in DOMAIN chains
  BY <1>1, LastChain DEF Shape
<1>3. CASE action # {} /\ Sound
  <2> DEFINE taken == [match |-> m, action |-> CHOOSE a \in action : TRUE]
  <2>1. /\ chains' = [chains EXCEPT ![Len(chains)].rules = Append(@, taken)]
        /\ pc' = "rule" /\ UNCHANGED <<line, rest, m, action, ports_constrained>>
    BY <1>3 DEF EndRule
  <2>2. taken \in ParsedRule /\ ~is_unsatisfiable(taken.match)
    BY <1>1, <1>3 DEF ParsedRule, Sound
  <2> HIDE DEF taken
  <2>3. /\ chains' \in Seq(ParsedChain) /\ Len(chains') = Len(chains)
        /\ \A k \in 1 .. Len(chains) : k # Len(chains) => chains'[k] = chains[k]
        /\ chains'[Len(chains)].hook = chains[Len(chains)].hook
        /\ chains'[Len(chains)].policy = chains[Len(chains)].policy
        /\ chains'[Len(chains)].rules = Append(Pushed, taken)
        /\ Len(Append(Pushed, taken)) = Len(Pushed) + 1
        /\ \A l \in 1 .. Len(Pushed) : Append(Pushed, taken)[l] = Pushed[l]
        /\ Append(Pushed, taken)[Len(Pushed) + 1] = taken
    BY <1>1, <2>1, <2>2, PushRule
  <2>4. Shape'
    BY <1>1, <2>1, <2>3 DEF Shape
  <2>5. ChainDeclared(chains'[Len(chains)], text[Len(chains)])
    <3>1. ChainDeclared(chains[Len(chains)], text[Len(chains)])
      BY <1>1, <1>2 DEF Declared
    <3>2. \A l \in 1 .. (Len(Pushed) + 1) : l \in 1 .. Len(Pushed) \/ l = Len(Pushed) + 1
      BY <1>2
    <3> QED
      BY <1>2, <2>2, <2>3, <3>1, <3>2 DEF ChainDeclared
  <2>6. Declared'
    BY <1>1, <2>3, <2>5 DEF Declared
  <2>7. Pushed' = Append(Pushed, taken) /\ Written' = Written
    BY <1>1, <2>3 DEF Pushed, Written, Last
  <2>8. Len(Pushed') <= line
    BY <1>1, <1>2, <2>3, <2>7
  <2> QED
    BY <1>1, <1>2, <2>1, <2>3, <2>4, <2>6, <2>7, <2>8 DEF Typed, InChain, Begun, Tabled
<1>4. CASE ~(action # {} /\ Sound)
  BY <1>1, <1>4, RefuseTyped DEF EndRule
<1> QED
  BY <1>3, <1>4

LEMMA BuildTableTyped == Typed /\ BuildTable => Typed'
<1> SUFFICES ASSUME Typed, BuildTable PROVE Typed'
  OBVIOUS
<1>1. /\ Shape /\ Declared /\ Len(chains) = Len(text)
      /\ pc = "parsed" /\ table' = interface_names \cup other
      /\ pc' = IF TooMany(table') THEN "refused" ELSE "resolved"
      /\ UNCHANGED <<text, other, line, rest, m, action, ports_constrained, chains>>
  BY DEF BuildTable, Typed, InChain
<1>2. interface_names \subseteq NameSet
  <2> SUFFICES ASSUME NEW k \in 1 .. Len(chains), NEW l \in DOMAIN chains[k].rules
               PROVE  chains[k].rules[l].match.iif.names \subseteq NameSet
    BY <1>1 DEF interface_names, ToSet, Shape
  <2>0. chains[k] \in ParsedChain
    BY <1>1 DEF Shape
  <2>1. chains[k].rules \in Seq(ParsedRule)
    BY <2>0 DEF ParsedChain
  <2>2. chains[k].rules[l] \in ParsedRule
    BY <2>1
  <2> QED
    BY <2>2 DEF ParsedRule, Match, IfMatch
<1>3. interface_names' = interface_names
  BY <1>1 DEF interface_names
<1>4. Shape'
  BY <1>1, <1>2 DEF Shape
<1>5. Declared' /\ InChain'
  BY <1>1 DEF Declared, InChain
<1> QED
  BY <1>1, <1>3, <1>4, <1>5 DEF Typed, Begun, Tabled

LEMMA TypedStep == Typed /\ [Next]_vars => Typed'
<1> SUFFICES ASSUME Typed, [Next]_vars PROVE Typed'
  OBVIOUS
<1>1. CASE DeclareChain
  BY <1>1, DeclareChainTyped
<1>2. CASE StartRule
  BY <1>2, StartRuleTyped
<1>3. CASE EndChain
  BY <1>3, EndChainTyped
<1>4. CASE EndFile
  BY <1>4, EndFileTyped
<1>5. CASE ReadMatch
  BY <1>5, ReadMatchTyped
<1>6. CASE ReadAside
  BY <1>6, ReadAsideTyped
<1>7. CASE ReadVerdict
  BY <1>7, ReadVerdictTyped
<1>8. CASE RefuseStatement
  BY <1>8, RefuseTyped DEF RefuseStatement
<1>9. CASE EndRule
  BY <1>9, EndRuleTyped
<1>10. CASE BuildTable
  BY <1>10, BuildTableTyped
<1>11. CASE UNCHANGED vars
  <2>1. UNCHANGED <<text, other, pc, line, rest, m, action, ports_constrained, chains, table>>
    BY <1>11 DEF vars
  <2>2. Pushed' = Pushed /\ Written' = Written /\ interface_names' = interface_names
    BY <2>1 DEF Pushed, Written, Last, interface_names
  <2> QED
    BY <2>1, <2>2 DEF Typed, Shape, Declared, InChain, Begun, Tabled
<1> QED
  BY <1>1, <1>2, <1>3, <1>4, <1>5, <1>6, <1>7, <1>8, <1>9, <1>10, <1>11 DEF Next

\* Whatever the file, what is read of it has these types.
THEOREM AlwaysTyped == Spec => []Typed
  BY TypedInitially, TypedStep, PTL DEF Spec

(***************************************************************************)
(* The inductive invariant, of files in which nothing is passed over:      *)
(* every rule pushed was read whole and let through, the rule in hand is   *)
(* what its statements so far amount to, and a refusal has a cause in the  *)
(* text.                                                                   *)
(***************************************************************************)
Acceptable ==
  \A c \in DOMAIN text :
    /\ text[c].type = "filter" /\ text[c].hook \in Hooks
    /\ \A l \in DOMAIN text[c].rules : InSubset(text[c].hook, text[c].rules[l])

ChainTaken(chain, c) ==
  /\ Len(chain.rules) <= Len(c.rules)
  /\ \A l \in 1 .. Len(chain.rules) : RuleTaken(chain.rules[l], c.hook, c.rules[l])

ChainsTaken ==
  /\ \A k \in 1 .. Len(chains) : ChainTaken(chains[k], text[k])
  /\ \A k \in 1 .. Len(chains) :
       k < Len(chains) \/ pc \in {"chain", "parsed", "resolved"} =>
         Len(chains[k].rules) = Len(text[k].rules)
  /\ pc = "rule" => line = Len(Pushed)

\* n statements of the rule in hand are read and the others are left.
ReadingAt(n) ==
  /\ line = Len(Pushed) + 1 /\ line <= Len(Written)
  /\ LET statements == Written[line]
     IN /\ n \in 0 .. Len(statements)
        /\ Len(rest) = Len(statements) - n
        /\ \A i \in 1 .. Len(rest) : rest[i] = statements[n + i]
        /\ ReadAs(m, action, ports_constrained, Last(chains).hook, statements, n)

Reading == pc = "statement" => \E n \in Nat : ReadingAt(n)

Caused == pc = "refused" => ~Acceptable \/ TooMany(table)

IInv == Typed /\ AllPlain /\ ChainsTaken /\ Reading /\ Caused

\* The statements of the rule in hand.
LEMMA RuleInHand ==
  ASSUME IInv, pc = "statement", NEW n \in Nat, ReadingAt(n)
  PROVE  /\ Len(chains) \in DOMAIN text /\ line \in DOMAIN text[Len(chains)].rules
         /\ Written = text[Len(chains)].rules
         /\ Last(chains).hook = text[Len(chains)].hook
         /\ Written[line] \in Seq(Statement)
         /\ Plain(Written[line])
         /\ Pushed \in Seq(ParsedRule) /\ Pushed = chains[Len(chains)].rules
<1>1. /\ Len(chains) \in 1 .. Len(text)
      /\ Last(chains).hook = text[Len(chains)].hook
      /\ Pushed \in Seq(ParsedRule) /\ Pushed = chains[Len(chains)].rules
      /\ Written \in Seq(Seq(Statement)) /\ Written = text[Len(chains)].rules
  BY LastChain DEF IInv, Typed, Written
<1>2. line \in 1 .. Len(Written)
  BY <1>1 DEF ReadingAt
<1>3. Len(chains) \in DOMAIN text
  BY <1>1 DEF IInv, Typed, Shape
<1>4. line \in DOMAIN text[Len(chains)].rules
  BY <1>1, <1>2
<1>5. Plain(Written[line])
  BY <1>1, <1>3, <1>4 DEF IInv, AllPlain, ToSet
<1> QED
  BY <1>1, <1>2, <1>3, <1>4, <1>5

LEMMA Initially == Init /\ AllPlain => IInv
<1> SUFFICES ASSUME Init, AllPlain PROVE IInv
  OBVIOUS
<1>1. Typed
  BY TypedInitially
<1>2. chains = <<>> /\ pc = "chain"
  BY DEF Init
<1>3. ChainsTaken
  BY <1>2 DEF ChainsTaken
<1> QED
  BY <1>1, <1>2, <1>3 DEF IInv, Reading, Caused

(***************************************************************************)
(* One lemma per action.                                                   *)
(***************************************************************************)
LEMMA StaysPlain == ASSUME AllPlain, text' = text PROVE AllPlain'
  BY DEF AllPlain

LEMMA DeclareChainKeeps == IInv /\ DeclareChain /\ Typed' => IInv'
<1> SUFFICES ASSUME IInv, DeclareChain, Typed' PROVE IInv'
  OBVIOUS
<1> DEFINE c == text[Len(chains) + 1]
           new == [hook |-> c.hook, policy |-> PolicyOf(c), rules |-> <<>>]
<1>1. Shape /\ ChainsTaken /\ pc = "chain" /\ text' = text /\ table' = table /\ AllPlain'
  BY StaysPlain DEF IInv, Typed, DeclareChain
<1>2. /\ text \in Seq(ChainText) /\ chains \in Seq(ParsedChain)
      /\ Len(chains) + 1 \in 1 .. Len(text)
      /\ Len(chains) + 1 \in DOMAIN text
  BY DEF IInv, Typed, Shape, DeclareChain
<1>3. c \in ChainText
  BY <1>1, <1>2, TextShape
<1>4. CASE c.type = "filter" /\ c.hook \in Hooks
  <2>1. chains' = Append(chains, new) /\ pc' = "rule" /\ line' = 0
    BY <1>4 DEF DeclareChain
  <2>2. new.rules = <<>> /\ ChainTaken(new, c)
    <3>1. new.rules = <<>>
      OBVIOUS
    <3>2. c.rules \in Seq(Seq(Statement))
      BY <1>3 DEF ChainText
    <3> QED
      BY <3>1, <3>2 DEF ChainTaken
  <2>3. new \in ParsedChain
    <3>1. <<>> \in Seq(ParsedRule)
      BY EmptySeq
    <3> QED
      BY <1>3, <1>4, <3>1, PolicyType DEF ParsedChain
  <2> HIDE DEF new, c
  <2>4. /\ Len(chains') = Len(chains) + 1
        /\ \A k \in 1 .. Len(chains) : chains'[k] = chains[k]
        /\ chains'[Len(chains) + 1] = new
    BY <1>2, <2>1, <2>3, AppendProperties
  <2>5. ChainsTaken'
    <3>1. \A k \in 1 .. Len(chains') : k \in 1 .. Len(chains) \/ k = Len(chains) + 1
      BY <1>2, <2>4
    <3>2. \A k \in 1 .. Len(chains') : ChainTaken(chains'[k], text[k])
      BY <1>1, <2>2, <2>4, <3>1 DEF ChainsTaken, c
    <3>3. ASSUME NEW k \in 1 .. Len(chains'), k < Len(chains')
          PROVE  Len(chains'[k].rules) = Len(text[k].rules)
      <4>1. k \in 1 .. Len(chains)
        BY <1>2, <2>4, <3>3
      <4>2. Len(chains[k].rules) = Len(text[k].rules)
        BY <1>1, <4>1 DEF ChainsTaken
      <4> QED
        BY <2>4, <4>1, <4>2
    <3>4. Len(Pushed') = 0
      BY <2>2, <2>4 DEF Pushed, Last
    <3> QED
      BY <1>1, <1>2, <2>1, <2>4, <3>2, <3>3, <3>4 DEF ChainsTaken
  <2> QED
    BY <1>1, <2>1, <2>5 DEF IInv, Reading, Caused
<1>5. CASE ~(c.type = "filter" /\ c.hook \in Hooks)
  <2>1. pc' = "refused" /\ UNCHANGED <<line, rest, m, action, ports_constrained, chains>>
    BY <1>5 DEF DeclareChain, Refuse
  <2>2. ~Acceptable
    BY <1>2, <1>5 DEF Acceptable
  <2>3. ~Acceptable'
    BY <1>1, <2>2 DEF Acceptable
  <2>4. ChainsTaken'
    BY <1>1, <2>1 DEF ChainsTaken
  <2> QED
    BY <1>1, <2>1, <2>3, <2>4 DEF IInv, Reading, Caused
<1> QED
  BY <1>4, <1>5

LEMMA StartRuleKeeps == IInv /\ StartRule /\ Typed' => IInv'
<1> SUFFICES ASSUME IInv, StartRule, Typed' PROVE IInv'
  OBVIOUS
<1> DEFINE statements == Written[line + 1]
<1>1. /\ Shape /\ Declared /\ InChain /\ ChainsTaken /\ pc = "rule" /\ line < Len(Written)
      /\ text' = text /\ chains' = chains /\ line' = line + 1
      /\ rest' = statements /\ m' = AnyMatch /\ action' = {} /\ ports_constrained' = FALSE
      /\ pc' = "statement" /\ AllPlain'
  BY StaysPlain DEF IInv, Typed, StartRule
<1>2. /\ Pushed \in Seq(ParsedRule) /\ Written \in Seq(Seq(Statement)) /\ line = Len(Pushed)
  BY <1>1, LastChain DEF ChainsTaken
<1>3. statements \in Seq(Statement)
  BY <1>1, <1>2
<1>4. ChainsTaken'
  BY <1>1 DEF ChainsTaken
<1>5. ReadingAt(0)'
  <2>1. Pushed' = Pushed /\ Written' = Written /\ Last(chains)' = Last(chains)
    BY <1>1 DEF Pushed, Written, Last
  <2>2. ReadAs(AnyMatch, {}, FALSE, Last(chains).hook, statements, 0)
    BY ReadNothing
  <2>3. Written'[line'] = statements
    BY <1>1, <2>1
  <2> HIDE DEF statements
  <2>4. /\ 0 \in 0 .. Len(statements)
        /\ Len(rest') = Len(statements) - 0
        /\ \A i \in 1 .. Len(rest') : rest'[i] = statements[0 + i]
    BY <1>1, <1>3
  <2>5. line' = Len(Pushed') + 1 /\ line' <= Len(Written')
    BY <1>1, <1>2, <2>1
  <2> QED
    BY <1>1, <2>1, <2>2, <2>3, <2>4, <2>5 DEF ReadingAt
<1> QED
  BY <1>1, <1>4, <1>5 DEF IInv, Reading, Caused

LEMMA EndChainKeeps == IInv /\ EndChain /\ Typed' => IInv'
<1> SUFFICES ASSUME IInv, EndChain, Typed' PROVE IInv'
  OBVIOUS
<1>1. /\ Shape /\ Declared /\ InChain /\ ChainsTaken /\ pc = "rule" /\ pc' = "chain"
      /\ line = Len(Written) /\ UNCHANGED <<text, line, chains>> /\ AllPlain'
  BY StaysPlain DEF IInv, Typed, EndChain
<1>2. Len(chains[Len(chains)].rules) = Len(text[Len(chains)].rules)
  BY <1>1, LastChain DEF ChainsTaken, Pushed, Written
<1>3. ChainsTaken'
  <2>1. \A k \in 1 .. Len(chains) : k < Len(chains) \/ k = Len(chains)
    BY <1>1, LastChain
  <2> QED
    BY <1>1, <1>2, <2>1 DEF ChainsTaken
<1> QED
  BY <1>1, <1>3 DEF IInv, Reading, Caused

LEMMA EndFileKeeps == IInv /\ EndFile /\ Typed' => IInv'
<1> SUFFICES ASSUME IInv, EndFile, Typed' PROVE IInv'
  OBVIOUS
<1>1. /\ ChainsTaken /\ pc = "chain" /\ pc' = "parsed"
      /\ UNCHANGED <<text, line, chains>> /\ AllPlain'
  BY StaysPlain DEF IInv, EndFile
<1>2. ChainsTaken'
  BY <1>1 DEF ChainsTaken
<1> QED
  BY <1>1, <1>2 DEF IInv, Reading, Caused

\* What the statement about to be read has in its place.
LEMMA StatementInHand ==
  ASSUME IInv, pc = "statement", rest # <<>>, NEW n \in Nat, ReadingAt(n)
  PROVE  LET statements == Written[line]
         IN /\ statements \in Seq(Statement) /\ n \in 0 .. (Len(statements) - 1)
            /\ n + 1 \in DOMAIN statements
            /\ Head(rest) = statements[n + 1] /\ Head(rest) \in Statement
            /\ Tail(rest) \in Seq(Statement)
            /\ Len(Tail(rest)) = Len(statements) - (n + 1)
            /\ \A i \in 1 .. Len(Tail(rest)) : Tail(rest)[i] = statements[n + 1 + i]
<1> DEFINE statements == Written[line]
<1>1. statements \in Seq(Statement) /\ rest \in Seq(Statement)
  BY RuleInHand DEF IInv, Typed, Shape
<1> HIDE DEF statements
<1>2. /\ n \in 0 .. Len(statements)
      /\ Len(rest) = Len(statements) - n
      /\ \A i \in 1 .. Len(rest) : rest[i] = statements[n + i]
  BY DEF ReadingAt, statements
<1>3. Len(rest) \in Nat \ {0}
  BY <1>1, EmptySeq
<1>4. /\ Head(rest) = rest[1] /\ Head(rest) \in Statement
      /\ Tail(rest) \in Seq(Statement) /\ Len(Tail(rest)) = Len(rest) - 1
      /\ \A i \in 1 .. Len(Tail(rest)) : Tail(rest)[i] = rest[i + 1]
  BY <1>1, HeadAndTail
<1>5. /\ n \in 0 .. (Len(statements) - 1) /\ n + 1 \in DOMAIN statements
      /\ Len(Tail(rest)) = Len(statements) - (n + 1)
  BY <1>1, <1>2, <1>3, <1>4
<1>6. Head(rest) = statements[n + 1]
  BY <1>2, <1>3, <1>4
<1>7. \A i \in 1 .. Len(Tail(rest)) : Tail(rest)[i] = statements[n + 1 + i]
  <2> TAKE i \in 1 .. Len(Tail(rest))
  <2>1. i + 1 \in 1 .. Len(rest) /\ n + (i + 1) = n + 1 + i
    BY <1>2, <1>3, <1>4
  <2> QED
    BY <1>2, <1>4, <2>1
<1> QED
  BY <1>1, <1>4, <1>5, <1>6, <1>7 DEF statements

\* A statement that was read moves the rule in hand one statement on.
LEMMA ReadOn ==
  ASSUME IInv, Typed', pc = "statement", pc' = "statement", rest # <<>>, rest' = Tail(rest),
         UNCHANGED <<text, line, chains>>,
         NEW n \in Nat, ReadingAt(n),
         ReadAs(m', action', ports_constrained', Last(chains).hook, Written[line], n + 1)
  PROVE  IInv'
<1> DEFINE statements == Written[line]
<1>1. ChainsTaken' /\ AllPlain'
  BY StaysPlain DEF IInv, ChainsTaken
<1>2. ReadingAt(n + 1)'
  <2>1. Pushed' = Pushed /\ Written' = Written /\ Last(chains)' = Last(chains)
    BY DEF Pushed, Written, Last
  <2>2. line = Len(Pushed) + 1 /\ line <= Len(Written)
    BY DEF ReadingAt
  <2>3. n + 1 \in 0 .. Len(statements)
    BY StatementInHand
  <2> QED
    BY <2>1, <2>2, <2>3, StatementInHand DEF ReadingAt
<1>3. n + 1 \in Nat
  OBVIOUS
<1>4. Reading'
  BY <1>2, <1>3 DEF Reading
<1> QED
  BY <1>1, <1>4 DEF IInv, Caused

\* A refusal inside a rule that is outside the subset.
LEMMA RefuseOn ==
  ASSUME IInv, Typed', pc = "statement", Refuse, UNCHANGED <<text, other, table>>,
         NEW n \in Nat, ReadingAt(n),
         ~InSubset(Last(chains).hook, Written[line])
  PROVE  IInv'
<1>1. /\ pc' = "refused"
      /\ UNCHANGED <<line, rest, m, action, ports_constrained, chains>>
  BY DEF Refuse
<1>2. ~Acceptable
  BY RuleInHand DEF Acceptable
<1>3. ~Acceptable'
  BY <1>2 DEF Acceptable
<1>4. ChainsTaken' /\ AllPlain'
  BY <1>1, StaysPlain DEF IInv, ChainsTaken
<1> QED
  BY <1>1, <1>3, <1>4 DEF IInv, Reading, Caused

LEMMA ReadMatchKeeps == IInv /\ ReadMatch /\ Typed' => IInv'
<1> SUFFICES ASSUME IInv, ReadMatch, Typed' PROVE IInv'
  OBVIOUS
<1> DEFINE s == Head(rest)
           statements == Written[line]
           hook == Last(chains).hook
<1>1. /\ pc = "statement" /\ pc' = "statement" /\ rest # <<>> /\ rest' = Tail(rest)
      /\ UNCHANGED <<text, line, chains>> /\ action' = action
  BY DEF ReadMatch
<1>2. PICK n \in Nat : ReadingAt(n)
  BY <1>1 DEF IInv, Reading
<1>3. /\ statements \in Seq(Statement) /\ n \in 0 .. (Len(statements) - 1)
      /\ s = statements[n + 1]
  BY <1>1, <1>2, StatementInHand
<1>4. ReadAs(m, action, ports_constrained, hook, statements, n) /\ ports_constrained \in BOOLEAN
  BY <1>2 DEF ReadingAt, IInv, Typed, Shape
<1>5. /\ Allowed(hook, s)
      /\ MovesOn(m, action, ports_constrained, s, m', action', ports_constrained')
  BY <1>1, <1>4 DEF ReadMatch, Allowed, MovesOn, Finished
<1> HIDE DEF s, statements, hook
<1>6. ReadAs(m', action', ports_constrained', hook, statements, n + 1)
  BY <1>3, <1>4, <1>5, ReadNext
<1> QED
  BY <1>1, <1>2, <1>6, ReadOn DEF statements, hook

LEMMA ReadAsideKeeps == IInv /\ ReadAside /\ Typed' => IInv'
<1> SUFFICES ASSUME IInv, ReadAside, Typed' PROVE IInv'
  OBVIOUS
<1> DEFINE s == Head(rest)
           statements == Written[line]
           hook == Last(chains).hook
<1>1. /\ pc = "statement" /\ pc' = "statement" /\ rest # <<>> /\ s.kind = "aside"
      /\ UNCHANGED <<text, m, action, ports_constrained, chains>>
  BY DEF ReadAside
<1>2. PICK n \in Nat : ReadingAt(n)
  BY <1>1 DEF IInv, Reading
<1>3. /\ statements \in Seq(Statement) /\ n \in 0 .. (Len(statements) - 1)
      /\ n + 1 \in DOMAIN statements /\ s = statements[n + 1]
  BY <1>1, <1>2, StatementInHand
<1>4. ReadAs(m, action, ports_constrained, hook, statements, n) /\ ports_constrained \in BOOLEAN
  BY <1>2 DEF ReadingAt, IInv, Typed, Shape
<1>5. Finished(s)
  BY <1>1, <1>2, <1>3, RuleInHand DEF Plain
<1>6. rest' = Tail(rest) /\ line' = line
  BY <1>1, <1>5 DEF ReadAside, Finished
<1>7. /\ Allowed(hook, s)
      /\ MovesOn(m, action, ports_constrained, s, m', action', ports_constrained')
  BY <1>1, <1>5 DEF Allowed, MovesOn, WellFormed
<1> HIDE DEF s, statements, hook
<1>8. ReadAs(m', action', ports_constrained', hook, statements, n + 1)
  BY <1>3, <1>4, <1>7, ReadNext
<1> QED
  BY <1>1, <1>2, <1>6, <1>8, ReadOn DEF statements, hook

LEMMA ReadVerdictKeeps == IInv /\ ReadVerdict /\ Typed' => IInv'
<1> SUFFICES ASSUME IInv, ReadVerdict, Typed' PROVE IInv'
  OBVIOUS
<1> DEFINE s == Head(rest)
           statements == Written[line]
           hook == Last(chains).hook
<1>1. /\ pc = "statement" /\ rest # <<>> /\ s.kind = "verdict"
      /\ UNCHANGED <<text, other, table>>
  BY DEF ReadVerdict
<1>2. PICK n \in Nat : ReadingAt(n)
  BY <1>1 DEF IInv, Reading
<1>3. /\ statements \in Seq(Statement) /\ n \in 0 .. (Len(statements) - 1)
      /\ n + 1 \in DOMAIN statements
      /\ s = statements[n + 1] /\ s \in Statement
      /\ Tail(rest) \in Seq(Statement) /\ Len(Tail(rest)) = Len(statements) - (n + 1)
  BY <1>1, <1>2, StatementInHand
<1>4. /\ ReadAs(m, action, ports_constrained, hook, statements, n)
      /\ ports_constrained \in BOOLEAN
  BY <1>2 DEF ReadingAt, IInv, Typed, Shape
<1>5. CASE action = {}
  <2>1. /\ action' = {s.action} /\ pc' = "statement" /\ line' = line
        /\ m' = m /\ ports_constrained' = ports_constrained /\ chains' = chains
        /\ rest' = IF s.with THEN <<>> ELSE Tail(rest)
    BY <1>1, <1>5 DEF ReadVerdict, Settles
  <2>2. rest' = Tail(rest)
    <3>1. CASE s.with
      <4>1. n + 1 = Len(statements)
        BY <1>1, <1>2, <1>3, <3>1, RuleInHand DEF Plain
      <4> HIDE DEF s, statements
      <4>2. Len(statements) - (n + 1) = 0
        BY <4>1
      <4>3. Tail(rest) \in Seq(Statement) /\ Len(Tail(rest)) = Len(statements) - (n + 1)
        BY <1>3
      <4>4. Tail(rest) = <<>>
        BY <4>2, <4>3, EmptySeq
      <4> QED
        BY <2>1, <3>1, <4>4
    <3>2. CASE ~s.with
      BY <2>1, <3>2
    <3> QED
      BY <3>1, <3>2
  <2>3. Allowed(hook, s)
    BY <1>1 DEF Allowed, WellFormed, Finished
  <2> HIDE DEF s, statements, hook
  <2>4. MovesOn(m, action, ports_constrained, s, m', action', ports_constrained')
    BY <1>1, <1>5, <2>1 DEF MovesOn
  <2>5. ReadAs(m', action', ports_constrained', hook, statements, n + 1)
    BY <1>3, <1>4, <2>3, <2>4, ReadNext
  <2> QED
    BY <1>1, <1>2, <2>1, <2>2, <2>5, ReadOn DEF statements, hook
<1>6. CASE action # {}
  <2>1. Refuse
    BY <1>6 DEF ReadVerdict, Settles
  <2> HIDE DEF s, statements, hook
  <2>2. ~InSubset(hook, statements)
    BY <1>1, <1>3, <1>4, <1>6, RefusedOutsideSubset
  <2> QED
    BY <1>1, <1>2, <2>1, <2>2, RefuseOn DEF statements, hook
<1> QED
  BY <1>5, <1>6

LEMMA RefuseStatementKeeps == IInv /\ RefuseStatement /\ Typed' => IInv'
<1> SUFFICES ASSUME IInv, RefuseStatement, Typed' PROVE IInv'
  OBVIOUS
<1> DEFINE s == Head(rest)
           statements == Written[line]
           hook == Last(chains).hook
<1>1. /\ pc = "statement" /\ rest # <<>> /\ Refuse
      /\ UNCHANGED <<text, other, table>>
      /\ ~Allowed(hook, s)
  BY DEF RefuseStatement, Allowed
<1>2. PICK n \in Nat : ReadingAt(n)
  BY <1>1 DEF IInv, Reading
<1>3. /\ statements \in Seq(Statement) /\ n \in 0 .. (Len(statements) - 1)
      /\ s = statements[n + 1]
  BY <1>1, <1>2, StatementInHand
<1>4. /\ ReadAs(m, action, ports_constrained, hook, statements, n)
      /\ ports_constrained \in BOOLEAN
  BY <1>2 DEF ReadingAt, IInv, Typed, Shape
<1> HIDE DEF s, statements, hook
<1>5. ~InSubset(hook, statements)
  BY <1>1, <1>3, <1>4, RefusedOutsideSubset
<1> QED
  BY <1>1, <1>2, <1>5, RefuseOn DEF statements, hook

LEMMA EndRuleKeeps == IInv /\ EndRule /\ Typed' => IInv'
<1> SUFFICES ASSUME IInv, EndRule, Typed' PROVE IInv'
  OBVIOUS
<1> DEFINE statements == Written[line]
           hook == Last(chains).hook
<1>1. /\ pc = "statement" /\ rest = <<>>
      /\ UNCHANGED <<text, other, table>> /\ AllPlain'
      /\ Shape /\ Declared /\ InChain /\ ChainsTaken
  BY StaysPlain DEF EndRule, IInv, Typed
<1>2. PICK n \in Nat : ReadingAt(n)
  BY <1>1 DEF IInv, Reading
<1>3. /\ Len(chains) \in 1 .. Len(chains) /\ Len(chains) \in DOMAIN text
      /\ hook = text[Len(chains)].hook
      /\ Pushed \in Seq(ParsedRule) /\ Pushed = chains[Len(chains)].rules
      /\ Written = text[Len(chains)].rules
      /\ statements \in Seq(Statement)
  BY <1>1, <1>2, LastChain, RuleInHand DEF Shape
<1>4. /\ ReadAs(m, action, ports_constrained, hook, statements, n) /\ n = Len(statements)
      /\ line = Len(Pushed) + 1 /\ line <= Len(Written)
      /\ action \subseteq Verdicts /\ ports_constrained \in BOOLEAN /\ m \in Match
  BY <1>1, <1>2, <1>3 DEF ReadingAt, Shape
<1>5. CASE action # {} /\ Sound
  <2> DEFINE taken == [match |-> m, action |-> CHOOSE a \in action : TRUE]
  <2>1. /\ chains' = [chains EXCEPT ![Len(chains)].rules = Append(@, taken)]
        /\ pc' = "rule" /\ line' = line
    BY <1>5 DEF EndRule
  <2>2. taken.match = m /\ taken.action \in action
    BY <1>5
  <2>3. taken \in ParsedRule
    BY <1>4, <2>2 DEF ParsedRule
  <2> HIDE DEF taken
  <2>4. action = {taken.action}
    <3>1. PICK k \in 1 .. n : action = {statements[k].action}
      BY <1>4, <1>5 DEF ReadAs, VerdictRead
    <3> QED
      BY <2>2, <3>1
  <2>5. RuleTaken(taken, hook, statements)
    BY <1>4, <1>5, <2>2, <2>4 DEF RuleTaken, Sound
  <2>6. /\ Len(chains') = Len(chains)
        /\ \A k \in 1 .. Len(chains) : k # Len(chains) => chains'[k] = chains[k]
        /\ chains'[Len(chains)].rules = Append(Pushed, taken)
        /\ Len(Append(Pushed, taken)) = Len(Pushed) + 1
        /\ \A l \in 1 .. Len(Pushed) : Append(Pushed, taken)[l] = Pushed[l]
        /\ Append(Pushed, taken)[Len(Pushed) + 1] = taken
    BY <1>1, <2>1, <2>3, PushRule
  <2>7. ChainTaken(chains'[Len(chains)], text[Len(chains)])
    <3>1. ChainTaken(chains[Len(chains)], text[Len(chains)])
      BY <1>1, <1>3 DEF ChainsTaken
    <3>2. ASSUME NEW l \in 1 .. (Len(Pushed) + 1)
          PROVE  RuleTaken(Append(Pushed, taken)[l], hook, Written[l])
      <4>1. CASE l \in 1 .. Len(Pushed)
        <5>1. RuleTaken(Pushed[l], hook, Written[l])
          BY <1>3, <3>1, <4>1 DEF ChainTaken
        <5> QED
          BY <2>6, <4>1, <5>1
      <4>2. CASE l = Len(Pushed) + 1
        BY <1>4, <2>5, <2>6, <4>2
      <4> QED
        BY <1>3, <4>1, <4>2
    <3> QED
      BY <1>3, <1>4, <2>6, <3>2 DEF ChainTaken
  <2>8. ChainsTaken'
    <3>1. \A k \in 1 .. Len(chains') : ChainTaken(chains'[k], text'[k])
      BY <1>1, <2>6, <2>7 DEF ChainsTaken
    <3>2. \A k \in 1 .. Len(chains') : k < Len(chains') => Len(chains'[k].rules) = Len(text'[k].rules)
      BY <1>1, <2>6 DEF ChainsTaken
    <3>3. line' = Len(Pushed')
      BY <1>4, <2>1, <2>6 DEF Pushed, Last
    <3> QED
      BY <2>1, <2>6, <3>1, <3>2, <3>3 DEF ChainsTaken
  <2> QED
    BY <1>1, <2>1, <2>8 DEF IInv, Reading, Caused
<1>6. CASE ~(action # {} /\ Sound)
  <2>1. Refuse
    BY <1>6 DEF EndRule
  <2> HIDE DEF statements, hook
  <2>2. n \in 0 .. Len(statements)
    BY <1>3, <1>4
  <2>3. ~InSubset(hook, statements)
    BY <1>3, <1>4, <1>6, <2>2, RefusedOutsideSubset DEF Sound
  <2> QED
    BY <1>1, <1>2, <2>1, <2>3, RefuseOn DEF statements, hook
<1> QED
  BY <1>5, <1>6

LEMMA BuildTableKeeps == IInv /\ BuildTable /\ Typed' => IInv'
<1> SUFFICES ASSUME IInv, BuildTable, Typed' PROVE IInv'
  OBVIOUS
<1>1. /\ ChainsTaken /\ pc = "parsed" /\ AllPlain'
      /\ pc' = IF TooMany(table') THEN "refused" ELSE "resolved"
      /\ UNCHANGED <<text, line, chains>>
  BY StaysPlain DEF BuildTable, IInv
<1>2. ChainsTaken'
  BY <1>1 DEF ChainsTaken
<1> QED
  BY <1>1, <1>2 DEF IInv, Reading, Caused

LEMMA Step == IInv /\ [Next]_vars => IInv'
<1> SUFFICES ASSUME IInv, [Next]_vars PROVE IInv'
  OBVIOUS
<1>0. Typed'
  BY TypedStep DEF IInv
<1>1. CASE DeclareChain
  BY <1>0, <1>1, DeclareChainKeeps
<1>2. CASE StartRule
  BY <1>0, <1>2, StartRuleKeeps
<1>3. CASE EndChain
  BY <1>0, <1>3, EndChainKeeps
<1>4. CASE EndFile
  BY <1>0, <1>4, EndFileKeeps
<1>5. CASE ReadMatch
  BY <1>0, <1>5, ReadMatchKeeps
<1>6. CASE ReadAside
  BY <1>0, <1>6, ReadAsideKeeps
<1>7. CASE ReadVerdict
  BY <1>0, <1>7, ReadVerdictKeeps
<1>8. CASE RefuseStatement
  BY <1>0, <1>8, RefuseStatementKeeps
<1>9. CASE EndRule
  BY <1>0, <1>9, EndRuleKeeps
<1>10. CASE BuildTable
  BY <1>0, <1>10, BuildTableKeeps
<1>11. CASE UNCHANGED vars
  <2>1. UNCHANGED <<text, other, pc, line, rest, m, action, ports_constrained, chains, table>>
    BY <1>11 DEF vars
  <2>2. Pushed' = Pushed /\ Written' = Written /\ Last(chains)' = Last(chains)
    BY <2>1 DEF Pushed, Written, Last
  <2>3. ChainsTaken' /\ AllPlain'
    BY <2>1, <2>2, StaysPlain DEF IInv, ChainsTaken
  <2>4. Caused'
    BY <2>1 DEF IInv, Caused, Acceptable
  <2>5. \A n : ReadingAt(n)' <=> ReadingAt(n)
    BY <2>1, <2>2 DEF ReadingAt
  <2>6. Reading'
    BY <2>1, <2>5 DEF IInv, Reading
  <2> QED
    BY <1>0, <2>3, <2>4, <2>6 DEF IInv
<1> QED
  BY <1>1, <1>2, <1>3, <1>4, <1>5, <1>6, <1>7, <1>8, <1>9, <1>10, <1>11 DEF Next

\* The invariant holds of every state of a file in which nothing is passed over.
THEOREM Inductive == Spec => [](AllPlain => IInv)
<1>1. Init => (AllPlain => IInv)
  BY Initially
<1>2. (AllPlain => IInv) /\ [Next]_vars => (AllPlain => IInv)'
  <2> SUFFICES ASSUME AllPlain => IInv, [Next]_vars, AllPlain' PROVE IInv'
    OBVIOUS
  <2>1. text' = text
    BY DEF Next, vars, DeclareChain, StartRule, EndChain, EndFile, ReadMatch, ReadAside, ReadVerdict,
           RefuseStatement, EndRule, BuildTable
  <2>2. AllPlain
    BY <2>1 DEF AllPlain
  <2> QED
    BY <2>2, Step
<1> QED
  BY <1>1, <1>2, PTL DEF Spec

(***************************************************************************)
(* What the invariant says of a file.                                      *)
(***************************************************************************)
\* Each chain read so far is the text's, and each rule a satisfiable match.
LEMMA TypesFromInvariant == Typed => TypeOK
<1> SUFFICES ASSUME Typed PROVE TypeOK
  OBVIOUS
<1>1. ASSUME NEW k \in DOMAIN chains
      PROVE  /\ chains[k].hook = text[k].hook /\ chains[k].policy \in {"accept", "drop"}
             /\ \A l \in DOMAIN chains[k].rules :
                  /\ chains[k].rules[l].match \in Match
                  /\ \A dim \in DOMAIN Dims : chains[k].rules[l].match[dim] # {}
  <2>1. k \in 1 .. Len(chains) /\ chains[k] \in ParsedChain /\ ChainDeclared(chains[k], text[k])
    BY DEF Typed, Shape, Declared
  <2>2. chains[k].rules \in Seq(ParsedRule)
    BY <2>1 DEF ParsedChain
  <2>3. ASSUME NEW l \in DOMAIN chains[k].rules
        PROVE  /\ chains[k].rules[l].match \in Match
               /\ \A dim \in DOMAIN Dims : chains[k].rules[l].match[dim] # {}
    <3>1. l \in 1 .. Len(chains[k].rules) /\ chains[k].rules[l] \in ParsedRule
      BY <2>2
    <3> QED
      BY <2>1, <3>1 DEF ParsedRule, ChainDeclared, is_unsatisfiable
  <2> QED
    BY <2>1, <2>3 DEF ChainDeclared, ParsedChain
<1>2. pc \in {"rule", "statement"} => Len(Pushed) <= line /\ line <= Len(Written)
  <2>1. CASE pc = "rule"
    BY <2>1 DEF Typed, Begun
  <2>2. CASE pc = "statement"
    <3>1. Pushed \in Seq(ParsedRule) /\ line \in Nat
      BY <2>2, LastChain DEF Typed, Shape
    <3> QED
      BY <2>2, <3>1 DEF Typed, Begun
  <2> QED
    BY <2>1, <2>2
<1> QED
  BY <1>1, <1>2 DEF TypeOK, Typed, Shape, Verdicts

\* Every chain and every rule of a file that was parsed is there, as written.
LEMMA ParsedWhole ==
  ASSUME IInv, pc = "resolved", NEW k \in DOMAIN text
  PROVE  /\ k \in DOMAIN chains
         /\ text[k] \in ChainText
         /\ chains[k] \in ParsedChain /\ ChainDeclared(chains[k], text[k])
         /\ Len(chains[k].rules) = Len(text[k].rules)
         /\ \A l \in DOMAIN text[k].rules :
              /\ l \in DOMAIN chains[k].rules
              /\ text[k].rules[l] \in Seq(Statement)
              /\ chains[k].rules[l] \in ParsedRule
              /\ RuleTaken(chains[k].rules[l], text[k].hook, text[k].rules[l])
<1>1. /\ Len(chains) = Len(text) /\ text \in Seq(ChainText) /\ chains \in Seq(ParsedChain)
  BY DEF IInv, Typed, InChain, Shape
<1>2. k \in 1 .. Len(text) /\ k \in 1 .. Len(chains) /\ k \in DOMAIN chains
  BY <1>1
<1>3. /\ chains[k] \in ParsedChain /\ ChainDeclared(chains[k], text[k])
      /\ ChainTaken(chains[k], text[k])
      /\ Len(chains[k].rules) = Len(text[k].rules)
  BY <1>1, <1>2 DEF IInv, Typed, Declared, ChainsTaken
<1>4. /\ text[k] \in ChainText /\ text[k].rules \in Seq(Seq(Statement))
  BY <1>2, TextShape DEF IInv, Typed
<1>5. chains[k].rules \in Seq(ParsedRule)
  BY <1>3 DEF ParsedChain
<1>6. ASSUME NEW l \in DOMAIN text[k].rules
      PROVE  /\ l \in DOMAIN chains[k].rules
             /\ text[k].rules[l] \in Seq(Statement)
             /\ chains[k].rules[l] \in ParsedRule
             /\ RuleTaken(chains[k].rules[l], text[k].hook, text[k].rules[l])
  <2>1. l \in 1 .. Len(text[k].rules) /\ l \in 1 .. Len(chains[k].rules)
    BY <1>3, <1>4, <1>5
  <2> QED
    BY <1>3, <1>4, <1>5, <2>1 DEF ChainTaken
<1> QED
  BY <1>2, <1>3, <1>4, <1>6

LEMMA WholeFromInvariant == (AllPlain => IInv) => TakenWhole
<1> SUFFICES ASSUME AllPlain => IInv PROVE TakenWhole
  OBVIOUS
<1>0. CASE ~AllPlain
  BY <1>0 DEF TakenWhole
<1> SUFFICES ASSUME IInv PROVE TakenWhole
  BY <1>0
<1> DEFINE acceptable ==
             \A c \in ToSet(text) :
               /\ c.type = "filter" /\ c.hook \in Hooks
               /\ \A l \in DOMAIN c.rules : InSubset(c.hook, c.rules[l])
<1>1. acceptable <=> Acceptable
  BY DEF Acceptable, ToSet
<1>2. pc = "refused" => ~acceptable \/ Cardinality(table) > MAX_INTERFACES
  BY <1>1 DEF IInv, Caused, TooMany
<1>3. ASSUME pc = "resolved"
      PROVE  /\ Acceptable
             /\ Len(chains) = Len(text)
             /\ \A k \in DOMAIN text :
                  /\ chains[k].policy = "drop" <=> text[k].policy = {"drop"}
                  /\ Len(chains[k].rules) = Len(text[k].rules)
                  /\ \A l \in DOMAIN text[k].rules :
                       \E n \in Occurrences(text[k].rules[l], "verdict") :
                         text[k].rules[l][n].action = chains[k].rules[l].action
  <2>1. Len(chains) = Len(text)
    BY <1>3 DEF IInv, Typed, InChain
  <2>2. ASSUME NEW k \in DOMAIN text
        PROVE  /\ text[k].type = "filter" /\ text[k].hook \in Hooks
               /\ chains[k].policy = "drop" <=> text[k].policy = {"drop"}
               /\ Len(chains[k].rules) = Len(text[k].rules)
    <3>1. /\ text[k] \in ChainText /\ chains[k] \in ParsedChain
          /\ ChainDeclared(chains[k], text[k])
          /\ Len(chains[k].rules) = Len(text[k].rules)
      BY <1>3, ParsedWhole
    <3> QED
      BY <3>1, PolicyType DEF ChainDeclared, ParsedChain
  <2>3. ASSUME NEW k \in DOMAIN text, NEW l \in DOMAIN text[k].rules
        PROVE  /\ InSubset(text[k].hook, text[k].rules[l])
               /\ \E n \in Occurrences(text[k].rules[l], "verdict") :
                    text[k].rules[l][n].action = chains[k].rules[l].action
    <3>1. /\ text[k].rules[l] \in Seq(Statement)
          /\ RuleTaken(chains[k].rules[l], text[k].hook, text[k].rules[l])
      BY <1>3, ParsedWhole
    <3> QED
      BY <3>1, TakenInSubset
  <2> QED
    BY <2>1, <2>2, <2>3 DEF Acceptable
<1> HIDE DEF acceptable
<1> QED
  BY <1>1, <1>2, <1>3 DEF TakenWhole, acceptable

\* A taken rule's names are in the table of its file, and so in the shared one.
LEMMA NamesInTable ==
  ASSUME Typed, pc = "resolved", NEW c \in DOMAIN chains, NEW l \in DOMAIN chains[c].rules
  PROVE  /\ chains[c].rules[l].match.iif \in IfMatch
         /\ chains[c].rules[l].match.iif.names \subseteq interface_names
         /\ table \in SUBSET NameSet /\ interface_names \subseteq table
         /\ ~TooMany(table) /\ ~TooMany(interface_names)
<1>1. /\ chains \in Seq(ParsedChain) /\ table \in SUBSET NameSet
      /\ table = interface_names \cup other /\ ~TooMany(table)
  BY DEF Typed, Shape, Tabled
<1>2. chains[c] \in ParsedChain
  BY <1>1
<1>3. chains[c].rules \in Seq(ParsedRule)
  BY <1>2 DEF ParsedChain
<1>4. chains[c].rules[l] \in ParsedRule
  BY <1>3
<1>5. chains[c].rules[l].match.iif.names \subseteq interface_names
  BY DEF interface_names, ToSet
<1>6. ~TooMany(interface_names)
  <2>1. IsFiniteSet(table)
    BY <1>1, NamesFinite, FS_Subset
  <2>2. IsFiniteSet(interface_names) /\ Cardinality(interface_names) <= Cardinality(table)
    BY <1>1, <2>1, FS_Subset
  <2>3. Cardinality(table) \in Nat /\ Cardinality(interface_names) \in Nat
    BY <2>1, <2>2, FS_CardinalityType
  <2> QED
    BY <1>1, <2>2, <2>3, LimitAssumption DEF TooMany
<1> QED
  BY <1>1, <1>4, <1>5, <1>6 DEF ParsedRule, Match

LEMMA ExactFromInvariant == (AllPlain => IInv) => TranslationIsExact
<1> SUFFICES ASSUME IInv, pc = "resolved", NEW c \in DOMAIN text, NEW l \in DOMAIN text[c].rules,
                    Modelled(text[c].hook, text[c].rules[l]),
                    NEW k \in KernelPackets, NEW point \in PointsOf(k, table)
             PROVE  Admits(chains[c].rules[l].match, table, point)
                      <=> KernelMatches(text[c].rules[l], k)
  BY DEF TranslationIsExact
<1>1. /\ c \in DOMAIN chains /\ l \in DOMAIN chains[c].rules
      /\ text[c].rules[l] \in Seq(Statement)
      /\ RuleTaken(chains[c].rules[l], text[c].hook, text[c].rules[l])
  BY ParsedWhole
<1>2. /\ table \in SUBSET NameSet /\ ~TooMany(table)
      /\ chains[c].rules[l].match.iif.names \subseteq table
  BY <1>1, NamesInTable DEF IInv
<1> QED
  BY <1>1, <1>2, TakenExact

LEMMA GrowthFromInvariant == Typed => TableGrowthChangesNothing
<1> SUFFICES ASSUME Typed, pc = "resolved", NEW c \in DOMAIN chains, NEW l \in DOMAIN chains[c].rules,
                    NEW name \in NameSet,
                    NEW own \in IndicesOf(interface_names, name), NEW shared \in IndicesOf(table, name)
             PROVE  own \in resolve(chains[c].rules[l].match.iif, interface_names)
                      <=> shared \in resolve(chains[c].rules[l].match.iif, table)
  BY DEF TableGrowthChangesNothing, ToSet
<1> DEFINE iif == chains[c].rules[l].match.iif
<1>1. /\ iif \in IfMatch /\ iif.names \subseteq interface_names
      /\ table \in SUBSET NameSet /\ interface_names \in SUBSET NameSet
      /\ iif.names \subseteq table
      /\ ~TooMany(table) /\ ~TooMany(interface_names)
  BY NamesInTable
<1> HIDE DEF iif
<1>2. own \in resolve(iif, interface_names) <=> Named(iif, name)
  BY <1>1, ResolveExact
<1>3. shared \in resolve(iif, table) <=> Named(iif, name)
  BY <1>1, ResolveExact
<1> QED
  BY <1>2, <1>3 DEF iif

\* Every state of a file being read is well typed; what has been taken of it so
\* far is chains and rules of the text, none of them with an empty match.
THEOREM TypeCorrect == Spec => []TypeOK
  BY AlwaysTyped, TypesFromInvariant, PTL

\* nft/parse.rs takes a file in which it passes nothing over whole, or refuses
\* it: whatever is taken has every chain and rule of the file with its own
\* verdict, and a refusal has a cause.
THEOREM WholeOrRefused == Spec => []TakenWhole
  BY Inductive, WholeFromInvariant, PTL

\* A rule taken of such a file means what netfilter means by it, packet by packet, whatever the
\* order of its statements, the header space and the names in the table.
THEOREM Translation == Spec => []TranslationIsExact
  BY Inductive, ExactFromInvariant, PTL

\* The names of the other revision and the policy change no rule's answer for
\* any interface.
THEOREM SharedTable == Spec => []TableGrowthChangesNothing
  BY AlwaysTyped, GrowthFromInvariant, PTL

(***************************************************************************)
(* What the emitter writes is read back.                                   *)
(***************************************************************************)
\* A list holds an element.
Holds(list, x) == \E k \in 1 .. Len(list) : list[k] = x

LEMMA HoldsJoined ==
  ASSUME NEW T, NEW a \in Seq(T), NEW b \in Seq(T)
  PROVE  a \o b \in Seq(T) /\ \A x : Holds(a \o b, x) <=> Holds(a, x) \/ Holds(b, x)
<1>1. /\ a \o b \in Seq(T) /\ Len(a \o b) = Len(a) + Len(b) /\ Len(a) \in Nat /\ Len(b) \in Nat
      /\ \A k \in 1 .. (Len(a) + Len(b)) : (a \o b)[k] = IF k <= Len(a) THEN a[k] ELSE b[k - Len(a)]
  OBVIOUS
<1>2. ASSUME NEW x, Holds(a \o b, x) PROVE Holds(a, x) \/ Holds(b, x)
  <2>1. PICK k \in 1 .. (Len(a) + Len(b)) : (a \o b)[k] = x
    BY <1>1, <1>2 DEF Holds
  <2>2. CASE k <= Len(a)
    <3>1. k \in 1 .. Len(a) /\ a[k] = x
      BY <1>1, <2>1, <2>2
    <3> QED
      BY <3>1 DEF Holds
  <2>3. CASE ~(k <= Len(a))
    <3>1. k - Len(a) \in 1 .. Len(b) /\ b[k - Len(a)] = x
      BY <1>1, <2>1, <2>3
    <3> QED
      BY <3>1 DEF Holds
  <2> QED
    BY <2>2, <2>3
<1>3. ASSUME NEW x, Holds(a, x) PROVE Holds(a \o b, x)
  <2>1. PICK k \in 1 .. Len(a) : a[k] = x
    BY <1>3 DEF Holds
  <2>2. k \in 1 .. Len(a \o b) /\ (a \o b)[k] = x
    BY <1>1, <2>1
  <2> QED
    BY <2>2 DEF Holds
<1>4. ASSUME NEW x, Holds(b, x) PROVE Holds(a \o b, x)
  <2>1. PICK k \in 1 .. Len(b) : b[k] = x
    BY <1>4 DEF Holds
  <2>2. k + Len(a) \in 1 .. Len(a \o b) /\ (a \o b)[k + Len(a)] = x
    BY <1>1, <2>1
  <2> QED
    BY <2>2 DEF Holds
<1> QED
  BY <1>1, <1>2, <1>3, <1>4

\* A list of one element or none.
LEMMA HoldsOne ==
  ASSUME NEW T, NEW x \in T
  PROVE  /\ <<x>> \in Seq(T) /\ \A y : Holds(<<x>>, y) <=> y = x
         /\ <<>> \in Seq(T) /\ \A y : ~Holds(<<>>, y)
  BY DEF Holds

LEMMA PlainAmong ==
  ASSUME NEW atoms, NEW v
  PROVE  Among(v, IsPlain(atoms)) <=> \E atom \in atoms : v \in atom
<1>1. IsPlain(atoms).negated = FALSE /\ IsPlain(atoms).atoms = atoms
  BY DEF IsPlain
<1>2. \A P \in BOOLEAN : (P # FALSE) <=> P
  OBVIOUS
<1>3. (\E atom \in atoms : v \in atom) \in BOOLEAN
  OBVIOUS
<1> QED
  BY <1>1, <1>2, <1>3 DEF Among

\* The terms a set is listed as are a value that denotes it.
LEMMA TermsDenote ==
  ASSUME NEW domain \in SUBSET Nat, NEW U \in SUBSET domain, U # {}, NEW terms, Terms(terms, U)
  PROVE  /\ IsPlain(ToSet(terms)) \in Value(domain)
         /\ ToSet(terms) # {} /\ {} \notin ToSet(terms)
         /\ \A v : Among(v, IsPlain(ToSet(terms))) <=> v \in U
<1>1. ToSet(terms) = {terms[k] : k \in 1 .. Len(terms)}
  BY DEF ToSet, Terms
<1>2. \A v : v \in U <=> \E k \in 1 .. Len(terms) : v \in terms[k]
  BY DEF Terms
<1>3. \A k \in 1 .. Len(terms) : terms[k] # {}
  BY DEF Terms
<1>4. \A v : v \in U <=> \E atom \in ToSet(terms) : v \in atom
  BY <1>1, <1>2
<1>5. ToSet(terms) \in SUBSET SUBSET domain
  BY <1>4
<1>6. IsPlain(ToSet(terms)) \in Value(domain)
  BY <1>5 DEF IsPlain, Value
<1>7. ToSet(terms) # {}
  BY <1>4
<1>8. {} \notin ToSet(terms)
  BY <1>1, <1>3
<1> QED
  BY <1>4, <1>6, <1>7, <1>8, PlainAmong

\* The statements a rule of the generator may be written with.
InterfaceOf(match) ==
  [kind |-> "iifname", meta |-> FALSE, value |-> [negated |-> FALSE, names |-> match.iif.names]]
ProtocolOf(match) == [kind |-> "dim", dim |-> "proto", value |-> IsPlain({match.proto})]
AddressOf(match) ==
  [kind |-> "dim", dim |-> "saddr", value |-> IsPlain(ToSet(PrefixesOf(match.saddr, AddressBits)))]
PortOf(match) ==
  [kind |-> "l4", proto |-> CHOOSE name \in PortName(match) : TRUE,
   value |-> IsPlain(ToSet(RangesOf(match.dport)))]
VerdictOf(r) == [kind |-> "verdict", action |-> r.action, with |-> FALSE]


NamesInterface(match) == match.iif.form = "one of"
NamesPorts(match) == PortName(match) # {} /\ match.dport # PortNumbers

LEMMA MatchShape ==
  ASSUME NEW r \in GeneratedRule
  PROVE  /\ r.match \in Match /\ r.action \in {"accept", "drop"}
         /\ r.match.saddr \in SUBSET Addresses /\ r.match.saddr # {}
         /\ r.match.proto \in SUBSET Protocols /\ Cardinality(r.match.proto) = 1
         /\ r.match.dport \in SUBSET PortNumbers /\ r.match.dport # {}
         /\ r.match.iif \in IfMatch /\ r.match.iif.form # "none of"
         /\ PortName(r.match) # {} \/ r.match.dport = PortNumbers
<1>1. r.match \in Match /\ r.action \in {"accept", "drop"}
  BY DEF GeneratedRule
<1>2. /\ Cardinality(r.match.proto) = 1 /\ r.match.saddr # {} /\ r.match.dport # {}
      /\ r.match.iif.form # "none of" /\ Expressible(r.match)
  BY DEF GeneratedRule
<1>3. /\ r.match.saddr \in SUBSET Addresses /\ r.match.proto \in SUBSET Protocols
      /\ r.match.dport \in SUBSET PortNumbers /\ r.match.iif \in IfMatch
  BY <1>1 DEF Match
<1> QED
  BY <1>1, <1>2, <1>3 DEF Expressible

LEMMA InterfaceWritten ==
  ASSUME NEW r \in GeneratedRule
  PROVE  /\ NamesInterface(r.match) =>
              /\ InterfaceOf(r.match) \in Statement /\ WellFormed(InterfaceOf(r.match))
              /\ if_spec(InterfaceOf(r.match).value) = r.match.iif
         /\ ~NamesInterface(r.match) => r.match.iif = AnyInterface
<1>1. r.match.iif \in IfMatch /\ r.match.iif.form # "none of"
  BY MatchShape
<1>2. \/ r.match.iif \in [form : {"any"}, names : {{}}]
      \/ r.match.iif \in [form : {"one of", "none of"}, names : (SUBSET NameSet) \ {{}}]
  BY <1>1 DEF IfMatch
<1>3. CASE NamesInterface(r.match)
  <2>1. /\ r.match.iif.names \in SUBSET NameSet /\ r.match.iif.names # {}
        /\ r.match.iif = [form |-> "one of", names |-> r.match.iif.names]
    BY <1>2, <1>3 DEF NamesInterface
  <2>2. InterfaceOf(r.match) \in Statement
    BY <2>1 DEF InterfaceOf, Statement, NameList
  <2>3. WellFormed(InterfaceOf(r.match))
    BY <2>1 DEF InterfaceOf, WellFormed
  <2>4. if_spec(InterfaceOf(r.match).value) = r.match.iif
    BY <2>1 DEF InterfaceOf, if_spec
  <2> QED
    BY <1>3, <2>2, <2>3, <2>4
<1>4. CASE ~NamesInterface(r.match)
  <2>1. r.match.iif \in [form : {"any"}, names : {{}}]
    BY <1>1, <1>2, <1>4 DEF NamesInterface
  <2> QED
    BY <1>4, <2>1 DEF AnyInterface
<1> QED
  BY <1>3, <1>4

LEMMA AddressWritten ==
  ASSUME NEW r \in GeneratedRule
  PROVE  /\ AddressOf(r.match) \in Statement /\ WellFormed(AddressOf(r.match))
         /\ \A v : Among(v, AddressOf(r.match).value) <=> v \in r.match.saddr
<1> DEFINE S == r.match.saddr
           terms == PrefixesOf(S, AddressBits)
<1>1. S \in SUBSET (0 .. (2^AddressBits - 1)) /\ S \in SUBSET Addresses /\ S # {}
  BY MatchShape, AddressBitsAssumption
<1>2. AddressBits \in Nat /\ PowersDouble(AddressBits)
  BY AddressBitsAssumption, AddressPowersAssumption DEF PowersDouble
<1>3. Addresses \in SUBSET Nat
  BY AddressBitsAssumption
<1> HIDE DEF S
<1>4. Terms(terms, S)
  BY <1>1, <1>2, PrefixTerms
<1> HIDE DEF terms
<1>5. /\ IsPlain(ToSet(terms)) \in Value(Addresses)
      /\ ToSet(terms) # {} /\ {} \notin ToSet(terms)
      /\ \A v : Among(v, IsPlain(ToSet(terms))) <=> v \in S
  BY <1>1, <1>3, <1>4, TermsDenote
<1>6. AddressOf(r.match) = [kind |-> "dim", dim |-> "saddr", value |-> IsPlain(ToSet(terms))]
  BY DEF AddressOf, terms, S
<1>7. AddressOf(r.match) \in Statement
  BY <1>5, <1>6 DEF Statement
<1>8. IsPlain(ToSet(terms)).atoms = ToSet(terms)
  BY DEF IsPlain
<1>9. WellFormed(AddressOf(r.match))
  BY <1>5, <1>6, <1>8 DEF WellFormed
<1> QED
  BY <1>5, <1>6, <1>7, <1>9 DEF S

LEMMA ProtocolWritten ==
  ASSUME NEW r \in GeneratedRule
  PROVE  /\ ProtocolOf(r.match) \in Statement /\ WellFormed(ProtocolOf(r.match))
         /\ \A v : Among(v, ProtocolOf(r.match).value) <=> v \in r.match.proto
         /\ r.match.proto # {}
<1> DEFINE S == r.match.proto
<1>1. S \in SUBSET Protocols /\ Cardinality(S) = 1
  BY MatchShape
<1>2. S # {}
  BY <1>1, FS_EmptySet
<1>3. ProtocolOf(r.match) = [kind |-> "dim", dim |-> "proto", value |-> IsPlain({S})]
  BY DEF ProtocolOf
<1> HIDE DEF S
<1>4. IsPlain({S}) \in Value(Protocols) /\ IsPlain({S}).atoms = {S}
  BY <1>1 DEF IsPlain, Value
<1>5. ProtocolOf(r.match) \in Statement
  BY <1>3, <1>4 DEF Statement
<1>6. WellFormed(ProtocolOf(r.match))
  BY <1>2, <1>3, <1>4 DEF WellFormed
<1>7. \A v : Among(v, IsPlain({S})) <=> v \in S
  BY PlainAmong
<1> QED
  BY <1>2, <1>3, <1>5, <1>6, <1>7 DEF S

LEMMA PortWritten ==
  ASSUME NEW r \in GeneratedRule, NamesPorts(r.match)
  PROVE  /\ PortOf(r.match) \in Statement /\ WellFormed(PortOf(r.match))
         /\ \A v : Among(v, PortOf(r.match).value) <=> v \in r.match.dport
         /\ r.match.proto = {proto_number[PortOf(r.match).proto]}
<1> DEFINE S == r.match.dport
           terms == RangesOf(S)
           name == CHOOSE name \in PortName(r.match) : TRUE
<1>1. S \in SUBSET PortNumbers /\ S # {}
  BY MatchShape
<1>2. PortNumbers \in SUBSET Nat /\ PortNumbers \in SUBSET (0 .. port_max) /\ port_max \in Nat
  <2>1. port_max \in Nat
    BY DEF port_max
  <2> QED
    BY <2>1, PortNumbersAssumption
<1>3. name \in PortName(r.match)
  BY DEF NamesPorts
<1>4. PortOf(r.match) = [kind |-> "l4", proto |-> name, value |-> IsPlain(ToSet(terms))]
  BY DEF PortOf
<1> HIDE DEF S, name
<1>5. name \in DOMAIN proto_number /\ r.match.proto = {proto_number[name]}
  BY <1>3 DEF PortName, PortNames
<1>6. Terms(terms, S)
  BY <1>1, <1>2, RangeTerms
<1> HIDE DEF terms
<1>7. /\ IsPlain(ToSet(terms)) \in Value(PortNumbers)
      /\ ToSet(terms) # {} /\ {} \notin ToSet(terms)
      /\ \A v : Among(v, IsPlain(ToSet(terms))) <=> v \in S
  BY <1>1, <1>2, <1>6, TermsDenote
<1>8. PortOf(r.match) \in Statement
  BY <1>4, <1>5, <1>7 DEF Statement
<1>9. IsPlain(ToSet(terms)).atoms = ToSet(terms)
  BY DEF IsPlain
<1>10. WellFormed(PortOf(r.match))
  BY <1>4, <1>7, <1>9 DEF WellFormed
<1> QED
  BY <1>4, <1>5, <1>7, <1>8, <1>10 DEF S

\* The statements a rule is written with.
WrittenIn(r, s) ==
  \/ NamesInterface(r.match) /\ s = InterfaceOf(r.match)
  \/ s = ProtocolOf(r.match)
  \/ r.match.saddr # Addresses /\ s = AddressOf(r.match)
  \/ NamesPorts(r.match) /\ s = PortOf(r.match)
  \/ s = Counter
  \/ s = VerdictOf(r)

\* The optional parts of a rule's text, then its verdict.
LEMMA RuleWritten ==
  ASSUME NEW r \in GeneratedRule
  PROVE  /\ rule(r) \in Seq(Statement)
         /\ \A s : Holds(rule(r), s) <=> WrittenIn(r, s)
         /\ \E n \in Nat : /\ Len(rule(r)) = n + 2 /\ rule(r)[n + 2] = VerdictOf(r)
                           /\ \A k \in 1 .. (n + 1) : rule(r)[k].kind # "verdict"
<1> DEFINE A == iif_expr(r.match.iif)
           B == proto_expr(r.match)
           C == addr_expr(r.match.saddr)
           D == IF PortName(r.match) = {} THEN <<>>
                ELSE port_expr(CHOOSE name \in PortName(r.match) : TRUE, r.match.dport)
           E == <<Counter, [kind |-> "verdict", action |-> r.action, with |-> FALSE]>>
           F == ((A \o B) \o C) \o D
<1>1. rule(r) = F \o E
  BY DEF rule
<1>2. A \in Seq(Statement) /\ \A s : Holds(A, s) <=> NamesInterface(r.match) /\ s = InterfaceOf(r.match)
  <2>1. A = IF NamesInterface(r.match) THEN <<InterfaceOf(r.match)>> ELSE <<>>
    BY DEF iif_expr, NamesInterface, InterfaceOf
  <2> HIDE DEF A
  <2>2. CASE NamesInterface(r.match)
    <3>1. InterfaceOf(r.match) \in Statement /\ A = <<InterfaceOf(r.match)>>
      BY <2>1, <2>2, InterfaceWritten
    <3> QED
      BY <2>2, <3>1, HoldsOne
  <2>3. CASE ~NamesInterface(r.match)
    <3>1. A = <<>>
      BY <2>1, <2>3
    <3>2. <<>> \in Seq(Statement) /\ \A s : ~Holds(<<>>, s)
      BY DEF Holds
    <3> QED
      BY <2>3, <3>1, <3>2
  <2> QED
    BY <2>2, <2>3
<1>3. B \in Seq(Statement) /\ \A s : Holds(B, s) <=> s = ProtocolOf(r.match)
  <2>1. B = <<ProtocolOf(r.match)>>
    BY MatchShape DEF proto_expr, ProtocolOf
  <2> HIDE DEF B
  <2>2. ProtocolOf(r.match) \in Statement
    BY ProtocolWritten
  <2> QED
    BY <2>1, <2>2, HoldsOne
<1>4. C \in Seq(Statement) /\ \A s : Holds(C, s) <=> r.match.saddr # Addresses /\ s = AddressOf(r.match)
  <2>1. C = IF r.match.saddr = Addresses THEN <<>> ELSE <<AddressOf(r.match)>>
    BY DEF addr_expr, AddressOf
  <2> HIDE DEF C
  <2>2. AddressOf(r.match) \in Statement
    BY AddressWritten
  <2>3. <<>> \in Seq(Statement) /\ \A s : ~Holds(<<>>, s)
    BY DEF Holds
  <2>4. <<AddressOf(r.match)>> \in Seq(Statement)
        /\ \A s : Holds(<<AddressOf(r.match)>>, s) <=> s = AddressOf(r.match)
    BY <2>2, HoldsOne
  <2> QED
    BY <2>1, <2>3, <2>4
<1>5. D \in Seq(Statement) /\ \A s : Holds(D, s) <=> NamesPorts(r.match) /\ s = PortOf(r.match)
  <2>1. D = IF NamesPorts(r.match) THEN <<PortOf(r.match)>> ELSE <<>>
    BY DEF port_expr, NamesPorts, PortOf
  <2> HIDE DEF D
  <2>2. CASE NamesPorts(r.match)
    <3>1. PortOf(r.match) \in Statement /\ D = <<PortOf(r.match)>>
      BY <2>1, <2>2, PortWritten
    <3> QED
      BY <2>2, <3>1, HoldsOne
  <2>3. CASE ~NamesPorts(r.match)
    <3>1. D = <<>>
      BY <2>1, <2>3
    <3>2. <<>> \in Seq(Statement) /\ \A s : ~Holds(<<>>, s)
      BY DEF Holds
    <3> QED
      BY <2>3, <3>1, <3>2
  <2> QED
    BY <2>2, <2>3
<1>6. /\ E \in Seq(Statement) /\ Len(E) = 2 /\ E[1] = Counter /\ E[2] = VerdictOf(r)
      /\ \A s : Holds(E, s) <=> s = Counter \/ s = VerdictOf(r)
  <2>1. E = <<Counter, VerdictOf(r)>>
    BY DEF VerdictOf
  <2> HIDE DEF E
  <2>2. Counter \in Statement
    BY DEF Counter, Statement
  <2>3. VerdictOf(r) \in Statement
    BY MatchShape DEF VerdictOf, Statement
  <2>4. E \in Seq(Statement) /\ Len(E) = 2 /\ E[1] = Counter /\ E[2] = VerdictOf(r)
    BY <2>1, <2>2, <2>3
  <2>5. \A s : Holds(E, s) <=> s = Counter \/ s = VerdictOf(r)
    <3>1. \A s : Holds(E, s) <=> \E k \in 1 .. 2 : E[k] = s
      BY <2>4 DEF Holds
    <3> QED
      BY <2>4, <3>1
  <2> QED
    BY <2>4, <2>5
<1> HIDE DEF A, B, C, D, E
<1>7. A \o B \in Seq(Statement) /\ \A s : Holds(A \o B, s) <=> Holds(A, s) \/ Holds(B, s)
  BY <1>2, <1>3, HoldsJoined
<1>8. /\ (A \o B) \o C \in Seq(Statement)
      /\ \A s : Holds((A \o B) \o C, s) <=> Holds(A \o B, s) \/ Holds(C, s)
  BY <1>4, <1>7, HoldsJoined
<1> DEFINE G == (A \o B) \o C
<1>9. G \in Seq(Statement) /\ \A s : Holds(G, s) <=> Holds(A \o B, s) \/ Holds(C, s)
  BY <1>8
<1>15. F = G \o D
  BY DEF F
<1> HIDE DEF F, G
<1>21. G \o D \in Seq(Statement) /\ \A s : Holds(G \o D, s) <=> Holds(G, s) \/ Holds(D, s)
  BY <1>5, <1>9, HoldsJoined
<1>22. F \in Seq(Statement) /\ \A s : Holds(F, s) <=> Holds(G, s) \/ Holds(D, s)
  BY <1>15, <1>21
<1>10. F \o E \in Seq(Statement) /\ \A s : Holds(F \o E, s) <=> Holds(F, s) \/ Holds(E, s)
  BY <1>6, <1>22, HoldsJoined
<1>11. \A s : Holds(rule(r), s) <=> WrittenIn(r, s)
  BY <1>1, <1>2, <1>3, <1>4, <1>5, <1>6, <1>7, <1>9, <1>10, <1>22 DEF WrittenIn
<1>12. \A s : Holds(F, s) => s.kind # "verdict"
  <2>1. \A s : Holds(F, s) => \/ s = InterfaceOf(r.match) \/ s = ProtocolOf(r.match)
                             \/ s = AddressOf(r.match) \/ s = PortOf(r.match)
    BY <1>2, <1>3, <1>4, <1>5, <1>7, <1>9, <1>22
  <2>2. /\ InterfaceOf(r.match).kind = "iifname" /\ ProtocolOf(r.match).kind = "dim"
        /\ AddressOf(r.match).kind = "dim" /\ PortOf(r.match).kind = "l4"
    BY DEF InterfaceOf, ProtocolOf, AddressOf, PortOf
  <2> QED
    BY <2>1, <2>2
<1>13. /\ Len(F) \in Nat /\ Len(F \o E) = Len(F) + 2 /\ (F \o E)[Len(F) + 2] = VerdictOf(r)
       /\ (F \o E)[Len(F) + 1] = Counter
       /\ \A k \in 1 .. Len(F) : (F \o E)[k] = F[k]
  <2>1. F \in Seq(Statement) /\ E \in Seq(Statement)
    BY <1>6, <1>22
  <2>2. /\ Len(F) \in Nat /\ Len(F \o E) = Len(F) + Len(E)
        /\ \A k \in 1 .. (Len(F) + Len(E)) : (F \o E)[k] = IF k <= Len(F) THEN F[k] ELSE E[k - Len(F)]
    BY <2>1
  <2>3. Len(E) = 2 /\ E[1] = Counter /\ E[2] = VerdictOf(r)
    BY <1>6
  <2>4. Len(F) + 1 \in 1 .. (Len(F) + 2) /\ Len(F) + 2 \in 1 .. (Len(F) + 2)
    BY <2>2
  <2> QED
    BY <2>2, <2>3, <2>4
<1>14. \A k \in 1 .. (Len(F) + 1) : (F \o E)[k].kind # "verdict"
  <2> SUFFICES ASSUME NEW k \in 1 .. (Len(F) + 1) PROVE (F \o E)[k].kind # "verdict"
    OBVIOUS
  <2>1. CASE k \in 1 .. Len(F)
    <3>1. Holds(F, F[k])
      BY <2>1 DEF Holds
    <3> QED
      BY <1>12, <1>13, <2>1, <3>1
  <2>2. CASE k = Len(F) + 1
    BY <1>13, <2>2 DEF Counter
  <2> QED
    BY <1>13, <2>1, <2>2
<1> QED
  BY <1>1, <1>10, <1>11, <1>13, <1>14

\* What the statements of a written rule leave of each dimension is the rule's.
LEMMA RulePasses ==
  ASSUME NEW r \in GeneratedRule
  PROVE  /\ \A v \in Addresses : Passing(rule(r), "saddr", v) <=> v \in r.match.saddr
         /\ \A v \in Protocols : Passing(rule(r), "proto", v) <=> v \in r.match.proto
         /\ \A v \in PortNumbers : Passing(rule(r), "dport", v) <=> v \in r.match.dport
<1>1. \A dim, v : Passing(rule(r), dim, v) <=> \A s : WrittenIn(r, s) => Leaves(s, dim, v)
  <2>1. \A dim, v : Passing(rule(r), dim, v) <=> \A s : Holds(rule(r), s) => Leaves(s, dim, v)
    BY DEF Passing, Holds
  <2> QED
    BY <2>1, RuleWritten
<1>2. \A dim, v : Leaves(InterfaceOf(r.match), dim, v)
  BY DEF InterfaceOf, Leaves
<1>3. \A dim, v : Leaves(Counter, dim, v) /\ Leaves(VerdictOf(r), dim, v)
  BY DEF Counter, VerdictOf, Leaves
<1>4. \A dim, v : Leaves(AddressOf(r.match), dim, v) <=> (dim = "saddr" => v \in r.match.saddr)
  <2>1. \A v : Among(v, AddressOf(r.match).value) <=> v \in r.match.saddr
    BY AddressWritten
  <2>2. AddressOf(r.match).kind = "dim" /\ AddressOf(r.match).dim = "saddr"
    BY DEF AddressOf
  <2> QED
    BY <2>1, <2>2 DEF Leaves
<1>5. \A dim, v : Leaves(ProtocolOf(r.match), dim, v) <=> (dim = "proto" => v \in r.match.proto)
  <2>1. \A v : Among(v, ProtocolOf(r.match).value) <=> v \in r.match.proto
    BY ProtocolWritten
  <2>2. ProtocolOf(r.match).kind = "dim" /\ ProtocolOf(r.match).dim = "proto"
    BY DEF ProtocolOf
  <2> QED
    BY <2>1, <2>2 DEF Leaves
<1>6. ASSUME NamesPorts(r.match)
      PROVE  \A dim, v : Leaves(PortOf(r.match), dim, v) <=>
                           /\ dim = "proto" => v \in r.match.proto
                           /\ dim = "dport" => v \in r.match.dport
  <2>1. /\ \A v : Among(v, PortOf(r.match).value) <=> v \in r.match.dport
        /\ r.match.proto = {proto_number[PortOf(r.match).proto]}
    BY <1>6, PortWritten
  <2>2. PortOf(r.match).kind = "l4"
    BY DEF PortOf
  <2> QED
    BY <2>1, <2>2 DEF Leaves
<1>7. ~NamesPorts(r.match) => r.match.dport = PortNumbers
  BY MatchShape DEF NamesPorts
<1>8. \A v \in Addresses : Passing(rule(r), "saddr", v) <=> v \in r.match.saddr
  BY <1>1, <1>2, <1>3, <1>4, <1>5, <1>6 DEF WrittenIn
<1>9. \A v : Passing(rule(r), "proto", v) <=> v \in r.match.proto
  BY <1>1, <1>2, <1>3, <1>4, <1>5, <1>6 DEF WrittenIn
<1>10. \A v \in PortNumbers : Passing(rule(r), "dport", v) <=> v \in r.match.dport
  BY <1>1, <1>2, <1>3, <1>4, <1>5, <1>6, <1>7 DEF WrittenIn
<1> QED
  BY <1>8, <1>9, <1>10

\* A written rule is in the subset.
LEMMA WrittenInSubset ==
  ASSUME NEW r \in GeneratedRule
  PROVE  InSubset("input", rule(r))
<1>1. rule(r) \in Seq(Statement) /\ \A s : Holds(rule(r), s) <=> WrittenIn(r, s)
  BY RuleWritten
<1>2. \A s : WrittenIn(r, s) => Allowed("input", s)
  <2>1. NamesInterface(r.match) => Allowed("input", InterfaceOf(r.match))
    BY InterfaceWritten DEF Allowed, Finished, InterfaceOf
  <2>2. Allowed("input", ProtocolOf(r.match))
    BY ProtocolWritten DEF Allowed, Finished, ProtocolOf
  <2>3. Allowed("input", AddressOf(r.match))
    BY AddressWritten DEF Allowed, Finished, AddressOf
  <2>4. NamesPorts(r.match) => Allowed("input", PortOf(r.match))
    BY PortWritten DEF Allowed, Finished, PortOf
  <2>5. Allowed("input", Counter) /\ Allowed("input", VerdictOf(r))
    BY DEF Allowed, Finished, Counter, VerdictOf, WellFormed
  <2> QED
    BY <2>1, <2>2, <2>3, <2>4, <2>5 DEF WrittenIn
<1>3. \A n \in 1 .. Len(rule(r)) : Allowed("input", rule(r)[n])
  BY <1>1, <1>2 DEF Holds
<1>4. Cardinality(Occurrences(rule(r), "verdict")) = 1
  <2>1. PICK n \in Nat : /\ Len(rule(r)) = n + 2 /\ rule(r)[n + 2] = VerdictOf(r)
                         /\ \A k \in 1 .. (n + 1) : rule(r)[k].kind # "verdict"
    BY RuleWritten
  <2>2. VerdictOf(r).kind = "verdict"
    BY DEF VerdictOf
  <2>3. DOMAIN rule(r) = 1 .. (n + 2)
    BY <1>1, <2>1
  <2>4. Occurrences(rule(r), "verdict") = {n + 2}
    BY <2>1, <2>2, <2>3 DEF Occurrences
  <2> QED
    BY <2>4, FS_Singleton
<1>5. /\ \E v \in Addresses : Passing(rule(r), "saddr", v)
      /\ \E v \in PortNumbers : Passing(rule(r), "dport", v)
      /\ \E v \in Protocols : Passing(rule(r), "proto", v)
  BY MatchShape, ProtocolWritten, RulePasses
<1> QED
  BY <1>1, <1>3, <1>4, <1>5, SubsetByDimension

\* Nothing of a written rule is passed over.
LEMMA WrittenPlain ==
  ASSUME NEW r \in GeneratedRule
  PROVE  Plain(rule(r))
<1>1. rule(r) \in Seq(Statement) /\ \A s : Holds(rule(r), s) <=> WrittenIn(r, s)
  BY RuleWritten
<1>2. \A s : WrittenIn(r, s) => Finished(s) /\ (s.kind = "verdict" => s.with = FALSE)
  BY DEF WrittenIn, InterfaceOf, ProtocolOf, AddressOf, PortOf, Counter, VerdictOf, Finished
<1>3. \A n \in DOMAIN rule(r) : Holds(rule(r), rule(r)[n])
  BY <1>1 DEF Holds
<1> QED
  BY <1>1, <1>2, <1>3 DEF Plain

\* What is taken of a written rule is that rule.
LEMMA WrittenIsTaken ==
  ASSUME NEW r \in GeneratedRule, NEW taken \in ParsedRule, RuleTaken(taken, "input", rule(r))
  PROVE  taken = r
<1> DEFINE st == rule(r)
<1>1. PICK ported \in BOOLEAN : ReadAs(taken.match, {taken.action}, ported, "input", st, Len(st))
  BY DEF RuleTaken
<1>2. \A s : Holds(st, s) <=> WrittenIn(r, s)
  BY RuleWritten
<1> HIDE DEF st
<1>3. /\ DimsRead(taken.match, st, Len(st)) /\ IfRead(taken.match, st, Len(st))
      /\ VerdictRead({taken.action}, st, Len(st))
  BY <1>1 DEF ReadAs
<1>4. /\ r.match.saddr \in SUBSET Addresses /\ r.match.proto \in SUBSET Protocols
      /\ r.match.dport \in SUBSET PortNumbers
  BY MatchShape
<1>5. /\ taken.match.saddr = r.match.saddr /\ taken.match.proto = r.match.proto
      /\ taken.match.dport = r.match.dport
  <2>1. /\ taken.match.saddr = {v \in Addresses : Passing(st, "saddr", v)}
        /\ taken.match.proto = {v \in Protocols : Passing(st, "proto", v)}
        /\ taken.match.dport = {v \in PortNumbers : Passing(st, "dport", v)}
    BY <1>3 DEF DimsRead, Passing
  <2>2. /\ \A v \in Addresses : Passing(st, "saddr", v) <=> v \in r.match.saddr
        /\ \A v \in Protocols : Passing(st, "proto", v) <=> v \in r.match.proto
        /\ \A v \in PortNumbers : Passing(st, "dport", v) <=> v \in r.match.dport
    BY RulePasses DEF st
  <2> QED
    BY <1>4, <2>1, <2>2
<1>6. taken.match.iif = r.match.iif
  <2>1. \A s : WrittenIn(r, s) /\ s.kind = "iifname" => NamesInterface(r.match) /\ s = InterfaceOf(r.match)
    BY DEF WrittenIn, ProtocolOf, AddressOf, PortOf, Counter, VerdictOf
  <2>2. CASE NamesInterface(r.match)
    <3>1. Holds(st, InterfaceOf(r.match)) /\ InterfaceOf(r.match).kind = "iifname"
      BY <1>2, <2>2 DEF WrittenIn, InterfaceOf
    <3>2. PICK k \in 1 .. Len(st) : st[k].kind = "iifname" /\ taken.match.iif = if_spec(st[k].value)
      BY <1>3, <3>1 DEF IfRead, Holds
    <3>3. st[k] = InterfaceOf(r.match)
      BY <1>2, <2>1, <3>2 DEF Holds
    <3> QED
      BY <2>2, <3>2, <3>3, InterfaceWritten
  <2>3. CASE ~NamesInterface(r.match)
    <3>1. \A k \in 1 .. Len(st) : st[k].kind # "iifname"
      BY <1>2, <2>1, <2>3 DEF Holds
    <3>2. taken.match.iif = AnyInterface
      BY <1>3, <3>1 DEF IfRead
    <3> QED
      BY <2>3, <3>2, InterfaceWritten
  <2> QED
    BY <2>2, <2>3
<1>7. taken.action = r.action
  <2>1. PICK k \in 1 .. Len(st) : st[k].kind = "verdict" /\ {taken.action} = {st[k].action}
    BY <1>3 DEF VerdictRead
  <2>2. \A s : WrittenIn(r, s) /\ s.kind = "verdict" => s = VerdictOf(r)
    BY DEF WrittenIn, InterfaceOf, ProtocolOf, AddressOf, PortOf, Counter
  <2>3. st[k] = VerdictOf(r)
    BY <1>2, <2>1, <2>2 DEF Holds
  <2>4. VerdictOf(r).action = r.action
    BY DEF VerdictOf
  <2> QED
    BY <2>1, <2>3, <2>4
<1>8. taken.match \in Match /\ r.match \in Match
  BY MatchShape DEF ParsedRule
<1>9. taken.match = r.match
  <2>1. /\ taken.match = [saddr |-> taken.match.saddr, proto |-> taken.match.proto,
                          dport |-> taken.match.dport, iif |-> taken.match.iif]
        /\ r.match = [saddr |-> r.match.saddr, proto |-> r.match.proto,
                      dport |-> r.match.dport, iif |-> r.match.iif]
    BY <1>8 DEF Match
  <2> QED
    BY <1>5, <1>6, <2>1
<1>10. /\ taken = [match |-> taken.match, action |-> taken.action]
       /\ r = [match |-> r.match, action |-> r.action]
  BY DEF ParsedRule, GeneratedRule
<1> QED
  BY <1>7, <1>9, <1>10

GeneratedChain == [hook : {"input"}, policy : {"accept", "drop"}, rules : Seq(GeneratedRule)]

\* The text of a chain: its rules one by one, and the sentinel after them.
LEMMA JoinedAt ==
  ASSUME NEW T, NEW a \in Seq(T), NEW b \in Seq(T)
  PROVE  /\ a \o b \in Seq(T) /\ Len(a \o b) = Len(a) + Len(b) /\ Len(a) \in Nat /\ Len(b) \in Nat
         /\ \A k \in 1 .. (Len(a) + Len(b)) : (a \o b)[k] = IF k <= Len(a) THEN a[k] ELSE b[k - Len(a)]
  OBVIOUS

\* Each rule of chain c is written in the text t.
SaidAs(t, c) ==
  \A l \in 1 .. Len(c.rules) : c.rules[l] \in GeneratedRule /\ t[1].rules[l] = rule(c.rules[l])

LEMMA ChainWritten ==
  ASSUME NEW c \in GeneratedChain, NEW sentinel \in BOOLEAN, NEW t, t = chain_with(c, sentinel)
  PROVE  /\ DOMAIN t = {1} /\ Len(t) = 1
         /\ t[1].type = "filter" /\ t[1].hook = "input" /\ t[1].policy = {c.policy}
         /\ t[1].rules \in Seq(Seq(Statement))
         /\ sentinel = TRUE => Len(t[1].rules) = Len(c.rules) + 1
         /\ sentinel = FALSE => Len(t[1].rules) = Len(c.rules)
         /\ DOMAIN t[1].rules = 1 .. Len(t[1].rules)
         /\ SaidAs(t, c)
         /\ sentinel = TRUE => t[1].rules[Len(c.rules) + 1] = Sentinel
<1> DEFINE said == [l \in DOMAIN c.rules |-> rule(c.rules[l])]
           tail == IF sentinel THEN <<Sentinel>> ELSE <<>>
           chain == [type |-> "filter", hook |-> c.hook,
                     policy |-> {IF c.policy = "accept" THEN "accept" ELSE "drop"},
                     rules |-> said \o tail]
<1>1. c.hook = "input" /\ c.policy \in {"accept", "drop"} /\ c.rules \in Seq(GeneratedRule)
  BY DEF GeneratedChain
<1>2. /\ Len(c.rules) \in Nat /\ DOMAIN c.rules = 1 .. Len(c.rules)
      /\ \A l \in 1 .. Len(c.rules) : c.rules[l] \in GeneratedRule
  BY <1>1
<1>3. said \in Seq(Seq(Statement)) /\ Len(said) = Len(c.rules)
      /\ \A l \in 1 .. Len(c.rules) : said[l] = rule(c.rules[l])
  <2>1. \A l \in 1 .. Len(c.rules) : rule(c.rules[l]) \in Seq(Statement)
    BY <1>2, RuleWritten
  <2>2. said \in [1 .. Len(c.rules) -> Seq(Statement)]
    BY <1>2, <2>1
  <2>3. said \in Seq(Seq(Statement))
    BY <1>2, <2>2, IsASeq
  <2>4. Len(said) = Len(c.rules)
    BY <1>2, <2>2, <2>3
  <2> QED
    BY <1>2, <2>3, <2>4
<1>4. Sentinel \in Seq(Statement)
  <2>1. Counter \in Statement
    BY DEF Counter, Statement
  <2> QED
    BY <2>1 DEF Sentinel
<1>5. /\ tail \in Seq(Seq(Statement))
      /\ sentinel = FALSE => Len(tail) = 0
      /\ sentinel = TRUE => Len(tail) = 1 /\ tail[1] = Sentinel
  <2>1. CASE sentinel = TRUE
    <3>1. tail = <<Sentinel>>
      BY <2>1
    <3> QED
      BY <1>4, <2>1, <3>1
  <2>2. CASE sentinel = FALSE
    <3>1. tail = <<>>
      BY <2>2
    <3>2. <<>> \in Seq(Seq(Statement)) /\ Len(<<>>) = 0
      OBVIOUS
    <3> QED
      BY <2>2, <3>1, <3>2
  <2> QED
    BY <2>1, <2>2
<1>6. t = <<chain>>
  BY DEF chain_with
<1>7. chain.type = "filter" /\ chain.hook = "input" /\ chain.policy = {c.policy} /\ chain.rules = said \o tail
  BY <1>1
<1> HIDE DEF said, tail, chain
<1>8. DOMAIN t = {1} /\ Len(t) = 1 /\ t[1] = chain
  BY <1>6
<1>9. /\ said \o tail \in Seq(Seq(Statement)) /\ Len(said \o tail) = Len(said) + Len(tail)
      /\ Len(said) \in Nat /\ Len(tail) \in Nat
      /\ \A k \in 1 .. (Len(said) + Len(tail)) :
           (said \o tail)[k] = IF k <= Len(said) THEN said[k] ELSE tail[k - Len(said)]
  <2>1. said \in Seq(Seq(Statement)) /\ tail \in Seq(Seq(Statement))
    BY <1>3, <1>5
  <2> QED
    BY <2>1, JoinedAt
<1>10. /\ sentinel = TRUE => Len(said \o tail) = Len(c.rules) + 1
       /\ sentinel = FALSE => Len(said \o tail) = Len(c.rules)
  <2>1. Len(said \o tail) = Len(c.rules) + Len(tail) /\ Len(c.rules) \in Nat
    BY <1>2, <1>3, <1>9
  <2>2. ASSUME sentinel = TRUE PROVE Len(said \o tail) = Len(c.rules) + 1
    <3>1. Len(tail) = 1
      BY <1>5, <2>2
    <3> QED
      BY <2>1, <3>1
  <2>3. ASSUME sentinel = FALSE PROVE Len(said \o tail) = Len(c.rules)
    <3>1. Len(tail) = 0
      BY <1>5, <2>3
    <3> QED
      BY <2>1, <3>1
  <2> QED
    BY <2>2, <2>3
<1>11. \A l \in 1 .. Len(c.rules) : (said \o tail)[l] = rule(c.rules[l])
  <2> SUFFICES ASSUME NEW l \in 1 .. Len(c.rules) PROVE (said \o tail)[l] = rule(c.rules[l])
    OBVIOUS
  <2>1. l \in 1 .. (Len(said) + Len(tail)) /\ l <= Len(said)
    BY <1>2, <1>3, <1>9
  <2> QED
    BY <1>3, <1>9, <2>1
<1>12. sentinel = TRUE => (said \o tail)[Len(c.rules) + 1] = Sentinel
  <2> SUFFICES ASSUME sentinel = TRUE PROVE (said \o tail)[Len(c.rules) + 1] = Sentinel
    OBVIOUS
  <2>1. Len(tail) = 1 /\ tail[1] = Sentinel
    BY <1>5
  <2>2. Len(c.rules) + 1 \in 1 .. (Len(said) + Len(tail)) /\ ~(Len(c.rules) + 1 <= Len(said))
        /\ (Len(c.rules) + 1) - Len(said) = 1
    BY <1>2, <1>3, <2>1
  <2> QED
    BY <1>9, <2>1, <2>2
<1> QED
  <2>1. DOMAIN (said \o tail) = 1 .. Len(said \o tail)
    BY <1>9
  <2>2. t[1].rules = said \o tail
    BY <1>7, <1>8
  <2>3. SaidAs(t, c)
    BY <1>2, <1>11, <2>2 DEF SaidAs
  <2> QED
    BY <1>2, <1>7, <1>8, <1>9, <1>10, <1>12, <2>1, <2>3

LEMMA GeneratedShape ==
  ASSUME NEW c \in Generated
  PROVE  /\ c \in GeneratedChain
         /\ RoundTrip[c] = chain_with(c, FALSE) /\ ForKernel[c] = chain_with(c, TRUE)
  BY GeneratedAssumption DEF GeneratedChain, RoundTrip, ForKernel

\* The sentinel has no verdict and is in no subset.
LEMMA SentinelOutside == ASSUME NEW hook PROVE ~InSubset(hook, Sentinel) /\ Plain(Sentinel)
<1>0. DOMAIN Sentinel = {1} /\ Sentinel[1] = Counter
  BY DEF Sentinel
<1>1. Occurrences(Sentinel, "verdict") = {} /\ Plain(Sentinel)
  BY <1>0 DEF Occurrences, Counter, Plain, Finished
<1>2. Cardinality({}) = 0
  BY FS_EmptySet
<1>3. InSubset(hook, Sentinel) => Cardinality(Occurrences(Sentinel, "verdict")) = 1
  BY Zenon DEF InSubset
<1>4. ~InSubset(hook, Sentinel)
  BY <1>1, <1>2, <1>3
<1> QED
  BY <1>1, <1>4

LEMMA RoundTripWritten ==
  ASSUME NEW c \in Generated, text = RoundTrip[c]
  PROVE  /\ DOMAIN text = {1} /\ Len(text) = 1
         /\ text[1].type = "filter" /\ text[1].hook = "input" /\ text[1].policy = {c.policy}
         /\ Len(text[1].rules) = Len(c.rules) /\ DOMAIN text[1].rules = 1 .. Len(c.rules)
         /\ SaidAs(text, c)
<1> DEFINE sentinel == FALSE
<1>1. sentinel \in BOOLEAN /\ sentinel = FALSE
  OBVIOUS
<1>2. c \in GeneratedChain /\ text = chain_with(c, sentinel)
  BY GeneratedShape
<1> HIDE DEF sentinel
<1>3. /\ DOMAIN text = {1} /\ Len(text) = 1
      /\ text[1].type = "filter" /\ text[1].hook = "input" /\ text[1].policy = {c.policy}
      /\ sentinel = FALSE => Len(text[1].rules) = Len(c.rules)
      /\ DOMAIN text[1].rules = 1 .. Len(text[1].rules)
      /\ SaidAs(text, c)
  BY <1>1, <1>2, ChainWritten
<1>4. Len(text[1].rules) = Len(c.rules)
  BY <1>1, <1>3
<1> QED
  BY <1>3, <1>4

LEMMA ForKernelWritten ==
  ASSUME NEW c \in Generated, text = ForKernel[c]
  PROVE  /\ DOMAIN text = {1}
         /\ DOMAIN text[1].rules = 1 .. (Len(c.rules) + 1)
         /\ SaidAs(text, c)
         /\ text[1].rules[Len(c.rules) + 1] = Sentinel
<1> DEFINE sentinel == TRUE
<1>1. sentinel \in BOOLEAN /\ sentinel = TRUE
  OBVIOUS
<1>2. c \in GeneratedChain /\ text = chain_with(c, sentinel)
  BY GeneratedShape
<1> HIDE DEF sentinel
<1>3. /\ DOMAIN text = {1} /\ Len(text) = 1
      /\ text[1].type = "filter" /\ text[1].hook = "input" /\ text[1].policy = {c.policy}
      /\ DOMAIN text[1].rules = 1 .. Len(text[1].rules)
      /\ SaidAs(text, c)
  BY <1>1, <1>2, ChainWritten
<1>4. /\ DOMAIN text = {1} /\ DOMAIN text[1].rules = 1 .. Len(text[1].rules)
      /\ sentinel = TRUE => Len(text[1].rules) = Len(c.rules) + 1
      /\ sentinel = TRUE => text[1].rules[Len(c.rules) + 1] = Sentinel
  BY <1>1, <1>2, ChainWritten
<1>5. Len(text[1].rules) = Len(c.rules) + 1 /\ text[1].rules[Len(c.rules) + 1] = Sentinel
  BY <1>1, <1>4
<1> QED
  BY <1>3, <1>4, <1>5

\* The text of a chain is acceptable, and the kernel's text of one is not taken.
LEMMA RoundTripAcceptable ==
  ASSUME NEW c \in Generated, text = RoundTrip[c]
  PROVE  Acceptable
<1>1. \A l \in DOMAIN text[1].rules : InSubset("input", text[1].rules[l])
  BY RoundTripWritten, WrittenInSubset DEF SaidAs
<1> QED
  BY <1>1, RoundTripWritten DEF Acceptable, Hooks

LEMMA KernelTextRefused ==
  ASSUME IInv, NEW c \in Generated, text = ForKernel[c]
  PROVE  pc # "resolved"
<1>2. Len(c.rules) \in Nat
  BY GeneratedShape DEF GeneratedChain
<1>3. /\ DOMAIN text = {1}
      /\ DOMAIN text[1].rules = 1 .. (Len(c.rules) + 1)
      /\ text[1].rules[Len(c.rules) + 1] = Sentinel
  BY ForKernelWritten
<1>4. 1 \in DOMAIN text /\ Len(c.rules) + 1 \in DOMAIN text[1].rules
  BY <1>2, <1>3
<1> SUFFICES ASSUME pc = "resolved" PROVE FALSE
  OBVIOUS
<1>5. /\ Sentinel \in Seq(Statement)
      /\ RuleTaken(chains[1].rules[Len(c.rules) + 1], text[1].hook, Sentinel)
  BY <1>3, <1>4, ParsedWhole
<1> QED
  BY <1>5, TakenInSubset, SentinelOutside

\* What is taken of a chain's text is that chain.
LEMMA RoundTripTaken ==
  ASSUME IInv, pc = "resolved", NEW c \in Generated, text = RoundTrip[c]
  PROVE  chains = <<c>>
<1>1. /\ c.rules \in Seq(GeneratedRule)
      /\ c.hook = "input" /\ c.policy \in {"accept", "drop"}
      /\ c = [hook |-> c.hook, policy |-> c.policy, rules |-> c.rules]
  BY GeneratedShape DEF GeneratedChain
<1>2. /\ DOMAIN text = {1} /\ Len(text) = 1
      /\ text[1].hook = "input" /\ text[1].policy = {c.policy}
      /\ Len(text[1].rules) = Len(c.rules) /\ DOMAIN text[1].rules = 1 .. Len(c.rules)
      /\ SaidAs(text, c)
  BY RoundTripWritten
<1>3. Len(chains) = 1 /\ chains \in Seq(ParsedChain)
  <2>1. text \in Seq(ChainText) /\ chains \in Seq(ParsedChain) /\ Len(chains) = Len(text)
    BY DEF IInv, Typed, Shape, InChain
  <2> QED
    BY <1>2, <2>1
<1>4. /\ chains[1] \in ParsedChain
      /\ chains[1].hook = text[1].hook /\ chains[1].policy = PolicyOf(text[1])
      /\ Len(chains[1].rules) = Len(text[1].rules)
      /\ \A l \in DOMAIN text[1].rules :
           /\ chains[1].rules[l] \in ParsedRule
           /\ RuleTaken(chains[1].rules[l], text[1].hook, text[1].rules[l])
  BY <1>2, ParsedWhole DEF ChainDeclared
<1>5. PolicyOf(text[1]) = c.policy
  BY <1>2 DEF PolicyOf
<1>6. \A l \in 1 .. Len(c.rules) : chains[1].rules[l] = c.rules[l]
  <2> SUFFICES ASSUME NEW l \in 1 .. Len(c.rules) PROVE chains[1].rules[l] = c.rules[l]
    OBVIOUS
  <2>1. l \in DOMAIN text[1].rules
    BY <1>2
  <2>2. c.rules[l] \in GeneratedRule /\ chains[1].rules[l] \in ParsedRule
        /\ RuleTaken(chains[1].rules[l], "input", rule(c.rules[l]))
    BY <1>2, <1>4, <2>1 DEF SaidAs
  <2> QED
    BY <2>2, WrittenIsTaken
<1>7. /\ chains[1].rules \in Seq(ParsedRule)
      /\ chains[1] = [hook |-> chains[1].hook, policy |-> chains[1].policy, rules |-> chains[1].rules]
  BY <1>4 DEF ParsedChain
<1>8. chains[1].rules = c.rules
  <2>1. /\ DOMAIN chains[1].rules = 1 .. Len(c.rules) /\ DOMAIN c.rules = 1 .. Len(c.rules)
        /\ chains[1].rules = [l \in DOMAIN chains[1].rules |-> chains[1].rules[l]]
        /\ c.rules = [l \in DOMAIN c.rules |-> c.rules[l]]
    BY <1>1, <1>2, <1>4, <1>7
  <2> QED
    BY <1>6, <2>1
<1>9. chains[1] = c
  BY <1>1, <1>2, <1>4, <1>5, <1>7, <1>8
<1> QED
  BY <1>3, <1>9

\* Nothing of what the emitter writes is passed over.
LEMMA EmittedPlain ==
  ASSUME NEW c \in Generated, text = RoundTrip[c] \/ text = ForKernel[c]
  PROVE  AllPlain
<1>1. Len(c.rules) \in Nat
  BY GeneratedShape DEF GeneratedChain
<1>2. ASSUME text = RoundTrip[c], NEW l \in DOMAIN text[1].rules PROVE Plain(text[1].rules[l])
  BY <1>2, RoundTripWritten, WrittenPlain DEF SaidAs
<1>3. ASSUME text = ForKernel[c], NEW l \in DOMAIN text[1].rules PROVE Plain(text[1].rules[l])
  <2>1. l \in 1 .. Len(c.rules) \/ l = Len(c.rules) + 1
    BY <1>1, <1>3, ForKernelWritten
  <2>2. CASE l \in 1 .. Len(c.rules)
    BY <1>3, <2>2, ForKernelWritten, WrittenPlain DEF SaidAs
  <2>3. CASE l = Len(c.rules) + 1
    BY <1>3, <2>3, ForKernelWritten, SentinelOutside
  <2> QED
    BY <2>1, <2>2, <2>3
<1>4. DOMAIN text = {1}
  BY RoundTripWritten, ForKernelWritten
<1> QED
  BY <1>2, <1>3, <1>4 DEF AllPlain, ToSet

LEMMA EmittedFromInvariant == (AllPlain => IInv) => EmittedParsesBack
<1> SUFFICES ASSUME AllPlain => IInv, pc \in {"resolved", "refused"}, text \in EmittedFiles
             PROVE  IF pc = "resolved" THEN \E c \in Generated : text = RoundTrip[c] /\ chains = <<c>>
                    ELSE (\E c \in Generated : text = ForKernel[c]) \/ TooMany(table)
  BY DEF EmittedParsesBack
<1>1. PICK c \in Generated : text = RoundTrip[c] \/ text = ForKernel[c]
  BY DEF EmittedFiles
<1>2. IInv
  BY <1>1, EmittedPlain
<1>3. CASE text = RoundTrip[c] /\ pc = "resolved"
  BY <1>2, <1>3, RoundTripTaken
<1>4. CASE text = RoundTrip[c] /\ pc = "refused"
  <2>1. ~Acceptable \/ TooMany(table)
    BY <1>2, <1>4 DEF IInv, Caused
  <2> QED
    BY <1>4, <2>1, RoundTripAcceptable
<1>5. CASE text = ForKernel[c]
  BY <1>2, <1>5, KernelTextRefused
<1> QED
  BY <1>1, <1>3, <1>4, <1>5

\* What kerneldiff/emit.rs writes for the round trip, nft/parse.rs reads back as
\* the very chain it was written from, or refuses for the number of its names; the
\* text with the sentinel, meant for the kernel alone, is never taken.
THEOREM RoundTripHolds == Spec => []EmittedParsesBack
  BY Inductive, EmittedFromInvariant, PTL
=============================================================================
