----------------------------- MODULE Rendering -----------------------------
(***************************************************************************)
(* engine/render.rs: a set of values of one field made into the text of a  *)
(* column.  A text is its form and its terms; a term is the set of values  *)
(* it names, so that what a reader takes from a text can be compared with  *)
(* the set it was made from.                                               *)
(***************************************************************************)
EXTENDS Listing, SequencesExt

\* What Style and the literals of the code bound: max_terms, the number of
\* protocols worth naming one by one, the number of interfaces worth listing,
\* and the symbols that have a name.
StyleType == [max_terms : Nat, handful : Nat, listed : Nat, named : SUBSET Nat]

ByLeast(blocks) == Ranked(blocks, LAMBDA A, B : Min(A) < Min(B))

Singles(S) == ByLeast({{v} : v \in S})

\* IntervalSet::ranges.
RangesOf(S) ==
  LET starts == {v \in S : v - 1 \notin S}
      run(v) == v .. Min({w \in S : w >= v /\ w + 1 \notin S})
  IN ByLeast({run(v) : v \in starts})

\* The aligned block of 2^n values around a value.
Block(v, n) == LET low == v - (v % 2^n) IN low .. (low + 2^n - 1)

\* set_to_prefixes: the maximal aligned blocks inside the set.
PrefixesOf(S, bits) ==
  LET inside == {Block(v, n) : v \in S, n \in 0 .. bits} \cap SUBSET S
  IN ByLeast({A \in inside : \A B \in inside : A \subseteq B => A = B})

\* The block of the bits that the hull's two ends have in common.
Enclosing(S, bits) ==
  Block(Min(S), Min({n \in 0 .. bits : Block(Min(S), n) = Block(Max(S), n)}))

BlankText == [form |-> "blank", base |-> {}, terms |-> <<>>, hidden |-> 0]
AnyText == [form |-> "any", base |-> {}, terms |-> <<>>, hidden |-> 0]
NoneText == [form |-> "none", base |-> {}, terms |-> <<>>, hidden |-> 0]

\* Mutant: the tail beyond the cap is cut without a count.
join_Silently(form, base, terms, style) ==
  [form |-> form, base |-> base,
   terms |-> SubSeq(terms, 1, Min({Len(terms), style.max_terms})), hidden |-> 0]

\* Style::join: the terms up to the cap, and how many there are beyond it.
join(form, base, terms, style) ==
  LET shown == Min({Len(terms), style.max_terms})
  IN [form |-> form, base |-> base, terms |-> SubSeq(terms, 1, shown), hidden |-> Len(terms) - shown]

\* The minimal prefix cover, or the enclosing prefix except its holes when that
\* takes fewer terms.
addr_set(S, bits, style) ==
  LET direct == PrefixesOf(S, bits)
      enclosing == Enclosing(S, bits)
      holes == PrefixesOf(enclosing \ S, bits)
  IN CASE S = {} -> NoneText
       [] S = 0 .. (2^bits - 1) -> AnyText
       [] OTHER ->
            IF holes # <<>> /\ 1 + Len(holes) < Len(direct)
            THEN join("except", enclosing, holes, style)
            ELSE join("list", {}, direct, style)

port_set(S, bits, style) ==
  CASE S = 0 .. (2^bits - 1) -> BlankText
    [] S = {} -> NoneText
    [] OTHER -> join("list", {}, RangesOf(S), style)

\* A handful of protocols by name, more as ranges.
proto_set(S, bits, style) ==
  CASE S = 0 .. (2^bits - 1) -> AnyText
    [] S = {} -> NoneText
    [] OTHER ->
         join("list", {}, IF Cardinality(S) <= style.handful THEN Singles(S) ELSE RangesOf(S), style)

\* By name, by exclusion of names, or by size alone when neither is possible.
iface_set(S, bits, style) ==
  LET others == (0 .. (2^bits - 1)) \ S
      listable(names) == names \subseteq style.named /\ Cardinality(names) <= style.listed
  IN CASE others = {} -> BlankText
       [] S = {} -> NoneText
       [] OTHER ->
            IF listable(S) THEN join("list", {}, Singles(S), style)
            ELSE IF listable(others) THEN join("not", {}, Singles(others), style)
            ELSE [form |-> "size", base |-> {}, terms |-> <<>>, hidden |-> Cardinality(S)]

(***************************************************************************)
(* Reading a text.                                                         *)
(***************************************************************************)
\* The values a reader takes a text for, when nothing is hidden.
Understood(text, bits) ==
  LET space == 0 .. (2^bits - 1)
      named == UNION ToSet(text.terms)
  IN CASE text.form \in {"blank", "any"} -> space
       [] text.form = "none" -> {}
       [] text.form = "list" -> named
       [] text.form = "except" -> text.base \ named
       [] text.form = "not" -> space \ named

\* A text says no more than is so and, unless it says how many terms it hides,
\* no less: hidden blocks are outside what is listed and inside what is excepted.
ReadsBack(text, S, bits) ==
  CASE text.form = "size" -> text.hidden = Cardinality(S)
    [] text.form # "size" /\ text.hidden = 0 -> Understood(text, bits) = S
    [] text.form = "list" /\ text.hidden > 0 ->
         /\ Understood(text, bits) \subseteq S
         /\ Cardinality(S \ Understood(text, bits)) >= text.hidden
    [] text.form \in {"except", "not"} /\ text.hidden > 0 ->
         /\ S \subseteq Understood(text, bits)
         /\ Cardinality(Understood(text, bits) \ S) >= text.hidden
=============================================================================
