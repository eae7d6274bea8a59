--------------------------- MODULE IntervalSetsMC ---------------------------
(***************************************************************************)
(* IntervalSets on every list of up to MaxRanges ranges over a narrow      *)
(* field, inverted and overlapping ranges included, and on every canonical *)
(* set of up to MaxSet ranges.                                             *)
(***************************************************************************)
EXTENDS IntervalSets

CONSTANTS
  MaxRanges,                \* bound on the length of a range list
  MaxSet                    \* bound on the ranges of a canonical operand

\* The canonical sets with a number of ranges, by their sorted endpoints: no two
\* ranges touch, so each start leaves a gap after the end before it.
CanonicalLists(n) ==
  LET ends == {f \in [1 .. (2 * n) -> Domain] :
                 /\ \A k \in 1 .. n : f[(2 * k) - 1] <= f[2 * k]
                 /\ \A k \in 1 .. (n - 1) : f[2 * k] + 1 < f[(2 * k) + 1]}
  IN {[k \in 1 .. n |-> <<f[(2 * k) - 1], f[2 * k]>>] : f \in ends}

SmallRangeLists ==
  BoundedSeq(Span, MaxRanges) \cup UNION {CanonicalLists(n) : n \in 1 .. MaxSet}

\* The shipped proportions on a field of eight values: everything shown, or a
\* term or two, with all, some or none of the symbols named.
SomeStyles ==
  [max_terms : {1, 2, 9}, handful : {2}, listed : {2, 9}, named : {{}, {0, 1, 2, 6}, 0 .. 7}]
=============================================================================
