------------------------------- MODULE Listing -------------------------------
(***************************************************************************)
(* A finite set as a sequence in a given order: what Vec::sort and the     *)
(* loops that walk rules by number leave.  An element's place is how many  *)
(* come before it.  SetToSortSeq and SelectSeq say the same, but nothing   *)
(* can be proved about them.                                               *)
(***************************************************************************)
EXTENDS Integers, FiniteSets

Ranked(S, Before(_, _)) ==
  [k \in 1 .. Cardinality(S) |->
     CHOOSE x \in S : Cardinality({y \in S : Before(y, x)}) = k - 1]

Ascending(S) == Ranked(S, LAMBDA a, b : a < b)

\* The members of a sequence at some of its positions, in order: what retain and
\* filter leave.
Picked(list, positions) ==
  LET at == Ascending(positions)
  IN [k \in DOMAIN at |-> list[at[k]]]
=============================================================================
