---------------------------- MODULE IntervalSets ----------------------------
(***************************************************************************)
(* ir/intervals.rs: canonical interval sets over a fixed-width field, with *)
(* one action per loop iteration of the operations that loop, and the      *)
(* lowering of a set to the bits of the field (engine/header.rs).  A range *)
(* is <<lo, hi>>, both ends included; a diagram over one field is the set  *)
(* of values it admits.                                                    *)
(***************************************************************************)
EXTENDS Rendering

CONSTANTS
  Bits,                     \* width of the field
  RangeLists,               \* the range lists operations are called with
  Styles                    \* how much a column may show

domain_max == 2^Bits - 1

Domain == 0 .. domain_max

Span == Domain \X Domain

ASSUME BitsAssumption == Bits \in Nat \ {0}

\* A fact of arithmetic that the provers, to whom ^ is any operator, have to be told.
ASSUME PowersAssumption ==
  \A n \in 0 .. Bits : 2^n \in Nat \ {0} /\ 2^(n + 1) = 2 * 2^n

ASSUME RangeListsAssumption == RangeLists \subseteq Seq(Span)
ASSUME StylesAssumption == Styles \subseteq StyleType

VARIABLES
  op,                       \* the operation called
  left, right,              \* its operands: canonical except for from_ranges
  pc,
  ranges,                   \* what the loop goes through: all ranges, or its second operand
  i, j,                     \* positions in the lists the loop goes through
  cursor,                   \* the next value complement or range_to_prefixes has to place
  out                       \* the ranges, or the prefix blocks, produced so far

vars == <<op, left, right, pc, ranges, i, j, cursor, out>>

Values(set) == UNION {r[1] .. r[2] : r \in ToSet(set)}

\* The invariant of the representation: sorted, disjoint and never adjacent.
Canonical(set) ==
  /\ \A k \in DOMAIN set : set[k][1] <= set[k][2] /\ set[k][2] <= domain_max
  /\ \A k \in 1 .. (Len(set) - 1) : set[k][2] + 1 < set[k + 1][1]

Sets == {set \in RangeLists : Canonical(set)}

Least(a, b) == IF a <= b THEN a ELSE b
Greatest(a, b) == IF a >= b THEN a ELSE b

\* Every operation but from_ranges is called on sets already canonical.
Init ==
  /\ \/ /\ op = "from_ranges"
        /\ left \in RangeLists /\ right = <<>>
     \/ /\ op = "complement"
        /\ left \in Sets /\ right = <<>>
     \/ /\ op \in {"union", "intersect", "difference"}
        /\ left \in Sets /\ right \in Sets
     \/ /\ op = "prefixes"
        /\ left \in {set \in Sets : Len(set) = 1} /\ right = <<>>
  /\ pc = "start"
  /\ ranges = <<>>
  /\ i = 1 /\ j = 1
  /\ cursor = 0
  /\ out = <<>>

(***************************************************************************)
(* from_ranges and union: drop the empty ranges, clamp, sort, then merge.  *)
(***************************************************************************)
Clamped(r) == <<Least(r[1], domain_max), Least(r[2], domain_max)>>

\* By the ends after clamping; equal ranges are told apart by their place.
ComesBefore(list, k, l) ==
  LET r == Clamped(list[k])
      t == Clamped(list[l])
  IN \/ r[1] < t[1]
     \/ r[1] = t[1] /\ r[2] < t[2]
     \/ r = t /\ k < l

\* The ranges of a list that are not empty, clamped and sorted.
Sorted(list) ==
  LET kept == {k \in DOMAIN list : list[k][1] <= list[k][2]}
      order == Ranked(kept, LAMBDA k, l : ComesBefore(list, k, l))
  IN [k \in DOMAIN order |-> Clamped(list[order[k]])]

StartMerge ==
  /\ pc = "start"
  /\ op \in {"from_ranges", "union"}
  /\ ranges' = Sorted(left \o right)
  /\ pc' = "merge"
  /\ UNCHANGED <<op, left, right, i, j, cursor, out>>

\* Mutant: ranges that only touch are kept apart.
Joins_Overlapping(last, r) == r[1] <= last[2]

Joins(last, r) == r[1] <= last[2] + 1

\* Extend the last range produced, or start another.
MergeRange ==
  /\ pc = "merge"
  /\ i <= Len(ranges)
  /\ LET r == ranges[i]
     IN out' = IF out # <<>> /\ Joins(Last(out), r)
               THEN Append(Front(out), <<Last(out)[1], Greatest(Last(out)[2], r[2])>>)
               ELSE Append(out, r)
  /\ i' = i + 1
  /\ UNCHANGED <<op, left, right, pc, ranges, j, cursor>>

EndMerge ==
  /\ pc = "merge"
  /\ i > Len(ranges)
  /\ pc' = "done"
  /\ UNCHANGED <<op, left, right, ranges, i, j, cursor, out>>

(***************************************************************************)
(* intersect: one sweep over both operands.                                *)
(***************************************************************************)
StartIntersect ==
  /\ pc = "start"
  /\ op = "intersect"
  /\ ranges' = right
  /\ pc' = "sweep"
  /\ UNCHANGED <<op, left, right, i, j, cursor, out>>

\* Mutant: the operand whose range starts first moves on.
AdvancesLeft_ByStart(a, b) == a[1] < b[1]

\* The operand whose range ends first moves on.
AdvancesLeft(a, b) == a[2] < b[2]

SweepStep ==
  /\ pc = "sweep"
  /\ i <= Len(left) /\ j <= Len(ranges)
  /\ LET a == left[i]
         b == ranges[j]
         lo == Greatest(a[1], b[1])
         hi == Least(a[2], b[2])
     IN /\ out' = IF lo <= hi THEN Append(out, <<lo, hi>>) ELSE out
        /\ i' = IF AdvancesLeft(a, b) THEN i + 1 ELSE i
        /\ j' = IF AdvancesLeft(a, b) THEN j ELSE j + 1
  /\ UNCHANGED <<op, left, right, pc, ranges, cursor>>

EndSweep ==
  /\ pc = "sweep"
  /\ i > Len(left) \/ j > Len(ranges)
  /\ pc' = "done"
  /\ UNCHANGED <<op, left, right, ranges, i, j, cursor, out>>

(***************************************************************************)
(* complement, and difference as an intersection with a complement.        *)
(***************************************************************************)
StartComplement ==
  /\ pc = "start"
  /\ op \in {"complement", "difference"}
  /\ ranges' = IF op = "difference" THEN right ELSE left
  /\ pc' = "complement"
  /\ UNCHANGED <<op, left, right, i, j, cursor, out>>

\* What follows a complement: the end, or the intersection that wanted it.
AfterComplement(set) ==
  IF op = "difference"
  THEN pc' = "sweep" /\ ranges' = set /\ out' = <<>> /\ i' = 1
  ELSE pc' = "done" /\ out' = set /\ UNCHANGED <<ranges, i>>

\* Mutant: a range that reaches the end of the field is not noticed.
ReachesEnd_Never(r) == FALSE

ReachesEnd(r) == r[2] = domain_max

ComplementRange ==
  /\ pc = "complement"
  /\ i <= Len(ranges)
  /\ LET r == ranges[i]
         gap == IF r[1] > cursor THEN Append(out, <<cursor, r[1] - 1>>) ELSE out
     IN IF ReachesEnd(r)
        THEN AfterComplement(gap) /\ UNCHANGED cursor
        ELSE /\ out' = gap
             /\ cursor' = r[2] + 1
             /\ i' = i + 1
             /\ UNCHANGED <<pc, ranges>>
  /\ UNCHANGED <<op, left, right, j>>

\* The rest of the field after the last range.
EndComplement ==
  /\ pc = "complement"
  /\ i > Len(ranges)
  /\ AfterComplement(Append(out, <<cursor, domain_max>>))
  /\ UNCHANGED <<op, left, right, j, cursor>>

(***************************************************************************)
(* range_to_prefixes: the aligned blocks of one range.  A block is         *)
(* <<base, prefix length>>.                                                *)
(***************************************************************************)
StartPrefixes ==
  /\ pc = "start"
  /\ op = "prefixes"
  /\ cursor' = left[1][1]
  /\ pc' = "prefixes"
  /\ UNCHANGED <<op, left, right, ranges, i, j, out>>

\* Trailing zeros of the cursor, and the log of the span left.
Align(cur) == IF cur = 0 THEN Bits ELSE Max({n \in 0 .. Bits : cur % 2^n = 0})
SpanPow(remaining) == Max({n \in 0 .. Bits : 2^n <= remaining})

\* Mutant: the block is as large as the alignment allows.
BlockBits_Aligned(cur, hi) == Align(cur)

\* The largest block that the alignment permits and that still fits.
BlockBits(cur, hi) == Least(Align(cur), SpanPow((hi - cur) + 1))

PrefixBlock ==
  /\ pc = "prefixes"
  /\ cursor <= left[1][2]
  /\ LET n == BlockBits(cursor, left[1][2])
     IN /\ out' = Append(out, <<cursor, Bits - n>>)
        /\ cursor' = cursor + 2^n
  /\ UNCHANGED <<op, left, right, pc, ranges, i, j>>

EndPrefixes ==
  /\ pc = "prefixes"
  /\ cursor > left[1][2]
  /\ pc' = "done"
  /\ UNCHANGED <<op, left, right, ranges, i, j, cursor, out>>

Next ==
  \/ StartMerge \/ MergeRange \/ EndMerge
  \/ StartIntersect \/ SweepStep \/ EndSweep
  \/ StartComplement \/ ComplementRange \/ EndComplement
  \/ StartPrefixes \/ PrefixBlock \/ EndPrefixes

Spec == Init /\ [][Next]_vars

(***************************************************************************)
(* Lowering a set to the field's bits, most significant bit first.         *)
(***************************************************************************)
Bit(v, b) == (v \div 2^((Bits - 1) - b)) % 2

Literal(b, value) == {v \in Domain : Bit(v, b) = value}

\* Mutant: a zero in the bound lets nothing be settled early.
GeqBit_NeverSettles(lo, b, acc) == Literal(b, 1) \cap acc

\* A one in the bound is needed in the value too; at a zero, a one settles it.
GeqBit(lo, b, acc) == IF Bit(lo, b) = 1 THEN Literal(b, 1) \cap acc ELSE Literal(b, 1) \cup acc

LeqBit(hi, b, acc) == IF Bit(hi, b) = 1 THEN Literal(b, 0) \cup acc ELSE Literal(b, 0) \cap acc

\* Both loops take the bits from the least significant: what they have after bit b.
Geq(lo) ==
  LET acc[b \in 0 .. Bits] == IF b = Bits THEN Domain ELSE GeqBit(lo, b, acc[b + 1]) IN acc[0]

Leq(hi) ==
  LET acc[b \in 0 .. Bits] == IF b = Bits THEN Domain ELSE LeqBit(hi, b, acc[b + 1]) IN acc[0]

\* range: no loop is built for a bound that constrains nothing.
LowerRange(lo, hi) ==
  IF lo > hi THEN {}
  ELSE (IF lo = 0 THEN Domain ELSE Geq(lo)) \cap (IF hi >= domain_max THEN Domain ELSE Leq(hi))

IsFull(set) == set = <<<<0, domain_max>>>>

\* set: the union of the ranges, or no constraint when the set is full.
Lower(set) ==
  IF IsFull(set) THEN Domain
  ELSE UNION {LowerRange(r[1], r[2]) : r \in ToSet(set)}

(***************************************************************************)
(* Correctness.                                                            *)
(***************************************************************************)
TypeOK ==
  /\ left \in Seq(Span) /\ right \in Seq(Span) /\ ranges \in Seq(Span)
  /\ pc \in {"start", "merge", "sweep", "complement", "prefixes", "done"}
  /\ i \in 1 .. (Greatest(Len(left), Len(ranges)) + 1) /\ j \in 1 .. (Len(ranges) + 1)
  /\ cursor \in 0 .. 2^Bits
  /\ out \in Seq(IF op = "prefixes" THEN Domain \X (0 .. Bits) ELSE Span)

IsSetOperation == pc = "done" /\ op # "prefixes"

\* Each operation denotes what its name says, for every value of the field.
ResultIsExact ==
  IsSetOperation =>
    Values(out) =
      CASE op \in {"from_ranges", "union"} -> Values(left) \cup Values(right)
        [] op = "intersect" -> Values(left) \cap Values(right)
        [] op = "difference" -> Values(left) \ Values(right)
        [] op = "complement" -> Domain \ Values(left)

\* Every operation returns the canonical form, so that structural equality is
\* set equality and is_full recognises the unconstrained field.
ResultIsCanonical ==
  IsSetOperation =>
    /\ Canonical(out)
    /\ IsFull(out) <=> Values(out) = Domain

\* The block of values of a prefix.
BlockValues(block) == block[1] .. (block[1] + 2^(Bits - block[2]) - 1)

\* The prefixes of a range are exactly the maximal aligned blocks inside it, in
\* order: they cover it, and no cover has fewer.
PrefixesAreMaximalBlocks ==
  pc = "done" /\ op = "prefixes" =>
    LET target == left[1][1] .. left[1][2]
        inside == {block \in Domain \X (0 .. Bits) :
                     block[1] % 2^(Bits - block[2]) = 0 /\ BlockValues(block) \subseteq target}
        maximal == {block \in inside : \A other \in inside :
                      BlockValues(block) \subseteq BlockValues(other) => block = other}
    IN /\ ToSet(out) = maximal
       /\ \A k \in 1 .. (Len(out) - 1) : out[k + 1][1] = out[k][1] + 2^(Bits - out[k][2])

\* The diagram a result is lowered to admits exactly the set's values.
LoweringIsExact == IsSetOperation => Lower(out) = Values(out)

\* What a reader takes from a column is the set it was made from, whichever form
\* was the shorter and however the style cuts it: exactly when nothing is said to
\* be hidden, and on the safe side of the terms shown otherwise.  Every set of
\* the instance is some set's complement.
ColumnsReadBack ==
  pc = "done" /\ op = "complement" =>
    \A style \in Styles :
      LET set == Values(out)
      IN \A text \in {addr_set(set, Bits, style), port_set(set, Bits, style),
                      proto_set(set, Bits, style), iface_set(set, Bits, style)} :
           ReadsBack(text, set, Bits)
=============================================================================
