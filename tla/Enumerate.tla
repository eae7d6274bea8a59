----------------------------- MODULE Enumerate -----------------------------
(***************************************************************************)
(* engine/enumerate.rs and engine/region.rs: a packet set turned into      *)
(* readable rectangles.  The diagram's root-to-one paths are visited one   *)
(* per step under a budget, each becomes a rectangle or is skipped as too  *)
(* awkward, rectangles are merged one dimension per step, and the widest   *)
(* are kept.  flow_count is the projection the report prints beside them.  *)
(*                                                                         *)
(* The header is a product of narrow fields; a packet maps each field to a *)
(* value.  sat_clauses is modelled by what it yields, the paths of the     *)
(* reduced ordered diagram, in any order.                                  *)
(***************************************************************************)
EXTENDS Integers, Sequences, FiniteSets

LOCAL INSTANCE SequencesExt
LOCAL INSTANCE FiniteSetsExt

CONSTANTS
  Fields,                   \* Field::ALL, a sequence of names
  Width,                    \* field -> bits
  Sequence,                 \* the variable order: pairs <<field, bit from the MSB>>
  Quantified                \* the fields a flow count forgets

FieldSet == ToSet(Fields)

Value(f) == 0 .. (2^Width[f] - 1)

\* Every point of the header space.
HeaderSpace ==
  {p \in [FieldSet -> UNION {Value(f) : f \in FieldSet}] : \A f \in FieldSet : p[f] \in Value(f)}

ASSUME WidthAssumption == Width \in [FieldSet -> Nat \ {0}]
ASSUME SequenceAssumption ==
  /\ ToSet(Sequence) = UNION {{<<f, b>> : b \in 0 .. (Width[f] - 1)} : f \in FieldSet}
  /\ Len(Sequence) = Cardinality(ToSet(Sequence))
ASSUME QuantifiedAssumption == Quantified \subseteq FieldSet

VARIABLES
  opts,                     \* EnumOptions
  input,                    \* the set to enumerate
  walk,                     \* where enumerate() is
  todo,                     \* paths sat_clauses has still to yield
  cubes_visited, raw,       \* raw: rectangles of the usable paths
  skipped_packets, incomplete,
  regions,                  \* the rectangles, while and after merging
  passes, dim, before,      \* merge rounds left, dimension next, count at the round's start
  omitted_regions

enumerate_vars == <<opts, input, walk, todo, cubes_visited, raw, skipped_packets, incomplete,
                    regions, passes, dim, before, omitted_regions>>

(***************************************************************************)
(* The diagram's paths.                                                    *)
(***************************************************************************)
Weight(var) == 2^((Width[var[1]] - 1) - var[2])

BitOf(p, var) == (p[var[1]] \div Weight(var)) % 2

Flip(p, var) ==
  [p EXCEPT ![var[1]] = IF BitOf(p, var) = 1 THEN @ - Weight(var) ELSE @ + Weight(var)]

Free == 2

Product(op(_), S) ==
  MapThenFoldSet(LAMBDA x, y : x * y, 1, op, LAMBDA T : CHOOSE x \in T : TRUE, S)

\* The reduced diagram tests a variable on p's path exactly when the set still
\* depends on it once the variables before it are fixed as in p.
Tested(S, p, k) ==
  \E q \in HeaderSpace :
    /\ \A l \in 1 .. (k - 1) : BitOf(q, Sequence[l]) = BitOf(p, Sequence[l])
    /\ (q \in S) # (Flip(q, Sequence[k]) \in S)

PathOf(S, p) ==
  [k \in DOMAIN Sequence |-> IF Tested(S, p, k) THEN BitOf(p, Sequence[k]) ELSE Free]

sat_clauses(S) == {PathOf(S, p) : p \in S}

\* read_field: the weights a path fixes in a field, and those it fixes to one.
Mask(cube, f) ==
  {Weight(Sequence[k]) : k \in {l \in DOMAIN Sequence : Sequence[l][1] = f /\ cube[l] # Free}}
Ones(cube, f) ==
  {Weight(Sequence[k]) : k \in {l \in DOMAIN Sequence : Sequence[l][1] = f /\ cube[l] = 1}}

Total(weights) == SumSet(weights)
Weights(f) == {2^b : b \in 0 .. (Width[f] - 1)}

\* The free weights above the lowest fixed one: each doubles the runs.
FreeHigh(f, mask) == {w \in Weights(f) \ mask : w > Min(mask)}

Renderable(cube, f) ==
  LET mask == Mask(cube, f)
  IN mask = {} \/ 2^Cardinality(FreeHigh(f, mask)) <= opts.mask_expand_cap

\* Mutant: a run is one value too long.
MaskToIntervals_LongRun(cube, f) ==
  LET mask == Mask(cube, f)
      value == Total(Ones(cube, f))
      run(base) == base .. (base + Min(mask))
  IN IF mask = {} THEN Value(f)
     ELSE UNION {run(value + Total(scattered)) : scattered \in SUBSET FreeHigh(f, mask)}

\* mask_to_intervals: one run per choice of the high free bits.
MaskToIntervals(cube, f) ==
  LET mask == Mask(cube, f)
      value == Total(Ones(cube, f))
      run(base) == base .. (base + Min(mask) - 1)
  IN IF mask = {} THEN Value(f)
     ELSE UNION {run(value + Total(scattered)) : scattered \in SUBSET FreeHigh(f, mask)}

\* The packets a skipped path is accounted for: the product stops at the field
\* that could not be rendered.
CubePackets(cube) ==
  LET bad == Min({k \in DOMAIN Fields : ~Renderable(cube, Fields[k])})
      mask_count(f) == 2^(Width[f] - Cardinality(Mask(cube, f)))
  IN Product(LAMBDA k : mask_count(Fields[k]), 1 .. bad)

(***************************************************************************)
(* Rectangles.                                                             *)
(***************************************************************************)
Region == [FieldSet -> SUBSET UNION {Value(f) : f \in FieldSet}]

PacketsOf(r) == {p \in HeaderSpace : \A f \in FieldSet : p[f] \in r[f]}

Covered(rs) == UNION {PacketsOf(r) : r \in rs}

count(r) == Product(LAMBDA f : Cardinality(r[f]), FieldSet)

constrained_dims(r) == Cardinality({f \in FieldSet : r[f] # Value(f)})

\* Mutant: rectangles that overlap on the other dimensions are grouped.
SameGroup_Overlapping(r, q, f) == \A g \in FieldSet \ {f} : r[g] \cap q[g] # {}

\* Rectangles that agree on every dimension but one.
SameGroup(r, q, f) == \A g \in FieldSet \ {f} : r[g] = q[g]

\* merge_along: each group becomes one rectangle, the union along f.
merge_along(rs, f) ==
  {[r EXCEPT ![f] = UNION {q[f] : q \in {s \in rs : SameGroup(r, s, f)}}] : r \in rs}

(***************************************************************************)
(* enumerate.                                                              *)
(***************************************************************************)
\* The state in which enumerate() starts on a set.
Begin(S) ==
  /\ input' = S
  /\ walk' = "cubes"
  /\ todo' = sat_clauses(S)
  /\ cubes_visited' = 0
  /\ raw' = {}
  /\ skipped_packets' = 0
  /\ incomplete' = FALSE
  /\ regions' = {}
  /\ passes' = 0 /\ dim' = 1 /\ before' = 0
  /\ omitted_regions' = 0
  /\ UNCHANGED opts

BudgetLeft == cubes_visited < opts.max_cubes

\* The next path becomes a rectangle, or is skipped and accounted for.
VisitCube ==
  /\ walk = "cubes"
  /\ BudgetLeft
  /\ \E cube \in todo :
       /\ todo' = todo \ {cube}
       /\ IF \A f \in FieldSet : Renderable(cube, f)
          THEN /\ raw' = raw \cup {[f \in FieldSet |-> MaskToIntervals(cube, f)]}
               /\ UNCHANGED <<skipped_packets, incomplete>>
          ELSE /\ skipped_packets' = skipped_packets + CubePackets(cube)
               /\ incomplete' = TRUE
               /\ UNCHANGED raw
  /\ cubes_visited' = cubes_visited + 1
  /\ UNCHANGED <<opts, input, walk, regions, passes, dim, before, omitted_regions>>

\* A path left over when the budget is spent.
StopsShort == incomplete \/ todo # {}

\* The walk ends, by itself or at its budget, and the rectangles are merged.
StartMerging ==
  /\ walk = "cubes"
  /\ todo = {} \/ ~BudgetLeft
  /\ incomplete' = StopsShort
  /\ regions' = raw
  /\ passes' = opts.merge_passes
  /\ before' = Cardinality(raw)
  /\ walk' = "merge"
  /\ UNCHANGED <<opts, input, todo, cubes_visited, raw, skipped_packets, dim, omitted_regions>>

MergeDimension ==
  /\ walk = "merge"
  /\ passes > 0
  /\ dim <= Len(Fields)
  /\ regions' = merge_along(regions, Fields[dim])
  /\ dim' = dim + 1
  /\ UNCHANGED <<opts, input, walk, todo, cubes_visited, raw, skipped_packets, incomplete,
                 passes, before, omitted_regions>>

\* A round that merged nothing ends the merging.
EndRound ==
  /\ walk = "merge"
  /\ dim > Len(Fields)
  /\ passes' = IF Cardinality(regions) = before THEN 0 ELSE passes - 1
  /\ before' = Cardinality(regions)
  /\ dim' = 1
  /\ UNCHANGED <<opts, input, walk, todo, cubes_visited, raw, skipped_packets, incomplete,
                 regions, omitted_regions>>

\* Largest first, then the fewest constrained dimensions; ties go either way.
NoNarrower(r, q) ==
  count(r) > count(q) \/ (count(r) = count(q) /\ constrained_dims(r) <= constrained_dims(q))

\* Mutant: the display cap drops rectangles in no order.
Keeps_AnyOrder(kept, rs) == kept \subseteq rs

Keeps(kept, rs) == kept \subseteq rs /\ \A r \in kept, q \in rs \ kept : NoNarrower(r, q)

KeepWidest ==
  /\ walk = "merge"
  /\ passes = 0
  /\ \E kept \in kSubset(Min({Cardinality(regions), opts.max_regions}), regions) :
       /\ Keeps(kept, regions)
       /\ regions' = kept
       /\ omitted_regions' = Cardinality(regions) - Cardinality(kept)
  /\ walk' = "done"
  /\ UNCHANGED <<opts, input, todo, cubes_visited, raw, skipped_packets, incomplete,
                 passes, dim, before>>

EnumerateNext == VisitCube \/ StartMerging \/ MergeDimension \/ EndRound \/ KeepWidest

(***************************************************************************)
(* flow_count: the disjunction of the two cofactors of each forgotten bit. *)
(***************************************************************************)
\* Mutant: a bit is forgotten by fixing it to zero.
Forget_Cofactor(S, var) == {p \in HeaderSpace : (IF BitOf(p, var) = 1 THEN Flip(p, var) ELSE p) \in S}

Forget(S, var) == S \cup {Flip(p, var) : p \in S}

Projected(S) ==
  LET forgotten == SelectSeq(Sequence, LAMBDA var : var[1] \in Quantified)
  IN FoldLeft(LAMBDA acc, var : Forget(acc, var), S, forgotten)

flow_count(S) ==
  Cardinality(Projected(S)) \div 2^MapThenSumSet(LAMBDA f : Width[f], Quantified)
=============================================================================
