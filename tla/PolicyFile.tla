----------------------------- MODULE PolicyFile -----------------------------
(***************************************************************************)
(* policy/parse.rs: an assertion file, from the values the TOML reader     *)
(* yields to a policy or a refusal.  A value is [type, of]; an array is a  *)
(* sequence of values, a table a function from keys to values.  What is    *)
(* read from inside a quoted text (an address, a port range, a protocol    *)
(* name) is given by constants; a text outside their domain is malformed.  *)
(***************************************************************************)
EXTENDS Integers, Sequences, SequencesExt

CONSTANTS
  AddressText,              \* address, prefix or range text -> addresses
  AddressShaped,            \* texts that start with a digit
  RangeText,                \* port range text -> ports
  PortSpace,                \* the numbers that fit a port
  ProtocolNumber,           \* protocol name -> number
  ProtocolSpace             \* the numbers that fit a protocol

ASSUME ShapeAssumption == DOMAIN AddressText \subseteq AddressShaped

\* A result is a refusal, or one value.
Refused == {}

ASSERT_KEYS == {"name", "kind", "from", "to", "proto", "sport", "dport", "iif", "oif", "chain"}

Get(table, key) == IF key \in DOMAIN table THEN {table[key]} ELSE {}

\* A key's text; a value of another type is as good as absent.
str_field(table, key) == {v.of : v \in {w \in Get(table, key) : w.type = "string"}}

\* A list, or one value as a list of itself.
Members(v) == IF v.type = "array" THEN v.of ELSE <<v>>

\* The union of what a list's members are read as; one bad member refuses it.
AllOf(read) == IF Refused \in read THEN Refused ELSE {UNION UNION read}

parse_addr(text) == IF text \in DOMAIN AddressText THEN {AddressText[text]} ELSE Refused

\* One member of a zone.
zone_member(v) == IF v.type = "string" THEN parse_addr(v.of) ELSE Refused

zone(v) == AllOf({zone_member(Members(v)[k]) : k \in DOMAIN Members(v)}) \ {{}}

port(v) ==
  CASE v.type = "integer" /\ v.of \in PortSpace -> {{v.of}}
    [] v.type = "string" /\ v.of \in DOMAIN RangeText -> {RangeText[v.of]}
    [] OTHER -> Refused

parse_ports(v) == AllOf({port(Members(v)[k]) : k \in DOMAIN Members(v)})

protocol(v) ==
  CASE v.type = "integer" /\ v.of \in ProtocolSpace -> {{v.of}}
    [] v.type = "string" /\ v.of \in DOMAIN ProtocolNumber -> {{ProtocolNumber[v.of]}}
    [] OTHER -> Refused

parse_protos(v) == AllOf({protocol(Members(v)[k]) : k \in DOMAIN Members(v)})

(***************************************************************************)
(* Zones and endpoints.                                                    *)
(***************************************************************************)
EmptyTable == [key \in {} |-> {}]

\* The zones of a document: a table of names, each of some addresses.
parse_zones(doc) ==
  IF "zones" \notin DOMAIN doc THEN {EmptyTable}
  ELSE IF \/ doc["zones"].type # "table"
          \/ \E name \in DOMAIN doc["zones"].of : zone(doc["zones"].of[name]) = Refused
  THEN Refused
  ELSE {[name \in DOMAIN doc["zones"].of |-> UNION zone(doc["zones"].of[name])]}

\* Mutant: a text that starts with a digit is an address, zone or not.
endpoint_DigitFirst(zones, text) ==
  [form |-> IF text \in AddressShaped THEN "literal" ELSE "zone", text |-> text]

\* A zone's name comes first; what is neither a zone nor shaped like an address
\* is kept as the zone it is not.
endpoint(zones, text) ==
  [form |-> IF text \notin DOMAIN zones /\ text \in AddressShaped THEN "literal" ELSE "zone",
   text |-> text]

resolve(zones, e) ==
  IF e.form = "literal" THEN parse_addr(e.text)
  ELSE IF e.text \in DOMAIN zones THEN {zones[e.text]} ELSE Refused

(***************************************************************************)
(* Assertions.                                                             *)
(***************************************************************************)
Kinds == {"isolation", "reachability"}

\* What makes one table refused as an assertion.
malformed(zones, t) ==
  \/ str_field(t, "name") = {}
  \/ ~(DOMAIN t \subseteq ASSERT_KEYS)
  \/ str_field(t, "kind") \cap Kinds = {}
  \/ \E v \in Get(t, "proto") : parse_protos(v) = Refused
  \/ \E key \in {"sport", "dport"} : \E v \in Get(t, key) : parse_ports(v) = Refused
  \/ \E key \in {"from", "to"} :
       \E text \in str_field(t, key) : resolve(zones, endpoint(zones, text)) = Refused

The(S) == CHOOSE x \in S : TRUE

AssertionOf(zones, t) ==
  [name |-> The(str_field(t, "name")), kind |-> The(str_field(t, "kind")),
   from |-> {endpoint(zones, text) : text \in str_field(t, "from")},
   to |-> {endpoint(zones, text) : text \in str_field(t, "to")},
   proto |-> UNION {parse_protos(v) : v \in Get(t, "proto")},
   sport |-> UNION {parse_ports(v) : v \in Get(t, "sport")},
   dport |-> UNION {parse_ports(v) : v \in Get(t, "dport")},
   iif |-> str_field(t, "iif"), oif |-> str_field(t, "oif"), chain |-> str_field(t, "chain")]

Tables(doc) == [k \in DOMAIN doc["assert"].of |-> doc["assert"].of[k].of]

\* The policy of a document, unless something in it is wrong.  Keys other than
\* the two are not looked at.
parse_policy(doc) ==
  LET zones == The(parse_zones(doc))
  IN CASE parse_zones(doc) = Refused -> Refused
       [] parse_zones(doc) # Refused /\ "assert" \notin DOMAIN doc ->
            {[zones |-> zones, assertions |-> <<>>]}
       [] parse_zones(doc) # Refused /\ "assert" \in DOMAIN doc ->
            IF \/ doc["assert"].type # "array"
               \/ \E k \in DOMAIN doc["assert"].of : doc["assert"].of[k].type # "table"
               \/ \E k \in DOMAIN doc["assert"].of : malformed(zones, Tables(doc)[k])
            THEN Refused
            ELSE {[zones |-> zones,
                   assertions |-> [k \in DOMAIN Tables(doc) |-> AssertionOf(zones, Tables(doc)[k])]]}

(***************************************************************************)
(* What the author of a document wrote.                                    *)
(***************************************************************************)
Atoms(v) == IF v.type = "array" THEN ToSet(v.of) ELSE {v}

\* The values of a field a key's value stands for.
Stands(doc, key, v) ==
  CASE key \in {"from", "to"} ->
         LET members == IF "zones" \in DOMAIN doc /\ v.of \in DOMAIN doc["zones"].of
                        THEN Atoms(doc["zones"].of[v.of]) ELSE {v}
         IN UNION {AddressText[member.of] : member \in members}
    [] key \in {"sport", "dport"} ->
         UNION {IF atom.type = "integer" THEN {atom.of} ELSE RangeText[atom.of] : atom \in Atoms(v)}
    [] key = "proto" ->
         {IF atom.type = "integer" THEN atom.of ELSE ProtocolNumber[atom.of] : atom \in Atoms(v)}
    [] key \in {"iif", "oif"} -> {v.of}

\* Nothing in the document is of the kinds the reader passes over: a top-level
\* key other than the two, and a key wanting a text whose value is none.
Heeded(doc) ==
  /\ DOMAIN doc \subseteq {"zones", "assert"}
  /\ "assert" \in DOMAIN doc =>
       \A k \in DOMAIN doc["assert"].of :
         LET t == doc["assert"].of[k].of
         IN \A key \in DOMAIN t \cap {"from", "to", "iif", "oif", "chain"} : t[key].type = "string"
=============================================================================
