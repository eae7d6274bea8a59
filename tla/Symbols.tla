------------------------------- MODULE Symbols -------------------------------
(***************************************************************************)
(* ir/interface.rs: interface names as values of a small dimension.  The   *)
(* table is the set of names both revisions mention; a name's index is its *)
(* place among them.  The indices past the names stand for the interfaces  *)
(* neither revision mentions.                                              *)
(***************************************************************************)
EXTENDS Integers, Sequences, FiniteSets

CONSTANTS
  AllNames,                 \* every interface name, in sorted order
  MAX_INTERFACES            \* values of the dimension

NameSet == {AllNames[k] : k \in DOMAIN AllNames}

Indices == 0 .. (MAX_INTERFACES - 1)

ASSUME LimitAssumption == MAX_INTERFACES \in Nat \ {0}
ASSUME NamesAssumption ==
  /\ AllNames \in Seq(NameSet)
  /\ \A k, l \in DOMAIN AllNames : AllNames[k] = AllNames[l] => k = l

\* An interface match as written: the names listed, and whether to negate.
IfMatch ==
  [form : {"any"}, names : {{}}]
    \cup [form : {"one of", "none of"}, names : (SUBSET NameSet) \ {{}}]

AnyInterface == [form |-> "any", names |-> {}]

\* SymbolTable::from_names refuses more names than there are values.
TooMany(table) == Cardinality(table) > MAX_INTERFACES

Place(name) == CHOOSE k \in DOMAIN AllNames : AllNames[k] = name

index_of(table, name) == Cardinality({other \in table : Place(other) < Place(name)})

Pointed(table, names) == {index_of(table, name) : name \in names \cap table}

\* Mutant: an unconstrained interface means the named ones.
resolve_NamedOnly(match, table) ==
  CASE match.form = "any" -> Pointed(table, table)
    [] match.form = "one of" -> Pointed(table, match.names)
    [] match.form = "none of" -> Indices \ Pointed(table, match.names)

\* IfMatch::resolve: unconstrained is every value, named or not.
resolve(match, table) ==
  CASE match.form = "any" -> Indices
    [] match.form = "one of" -> Pointed(table, match.names)
    [] match.form = "none of" -> Indices \ Pointed(table, match.names)

\* The values that stand for an interface of the host.
IndicesOf(table, interface) ==
  IF interface \in table THEN {index_of(table, interface)}
  ELSE Indices \ Pointed(table, table)
=============================================================================
