------------------------------- MODULE Delta -------------------------------
(***************************************************************************)
(* engine/diff.rs: the packets two revisions of a chain disagree on, and   *)
(* their attribution to the rules that decide them on both sides.          *)
(***************************************************************************)
EXTENDS ChainModel, SequencesExt

NewlyAllowed(bm, hm) == hm.accept \ bm.accept
NewlyBlocked(bm, hm) == bm.accept \ hm.accept

\* A part of the delta: who decides it in the base and in the head.
Cell(bm, hm, delta, was, now) ==
  [was |-> was, now |-> now, set |-> delta \cap PartOf(bm, was) \cap PartOf(hm, now)]

\* The parts that are not empty: the base's, each split by the head's.
CellSet(bm, hm, delta) ==
  UNION {{Cell(bm, hm, delta, was, now) : now \in DecidersOf(hm, delta \cap PartOf(bm, was))} :
           was \in DecidersOf(bm, delta)}

CellOrder(c, d) == RuleOrder(c.was, d.was) \/ (c.was = d.was /\ RuleOrder(c.now, d.now))

AllCells(bm, hm, delta) == Ranked(CellSet(bm, hm, delta), CellOrder)

\* Mutant: the cap is said to be reached when it is only just met.
Attribute_FullIsTruncated(bm, hm, delta, max_cells) ==
  LET all == AllCells(bm, hm, delta)
  IN [cells |-> SubSeq(all, 1, IF Len(all) > max_cells THEN max_cells ELSE Len(all)),
      truncated |-> Len(all) >= max_cells]

\* attribute: the cells up to the cap, and whether it cut any off.
Attribute(bm, hm, delta, max_cells) ==
  LET all == AllCells(bm, hm, delta)
  IN [cells |-> SubSeq(all, 1, IF Len(all) > max_cells THEN max_cells ELSE Len(all)),
      truncated |-> Len(all) > max_cells]
=============================================================================
