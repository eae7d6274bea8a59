------------------------------ MODULE ReportMC ------------------------------
(***************************************************************************)
(* Report on a two-field header of eight packets, for every delta there.   *)
(***************************************************************************)
EXTENDS Report

TwoFields == <<"src", "iif">>
TwoWidths == [src |-> 2, iif |-> 1]

\* The interface first, so that the address has free bits above fixed ones.
AddressLast == <<<<"iif", 0>>, <<"src", 0>>, <<"src", 1>>>>

EveryPoint == [k \in 1 .. 8 |-> [src |-> (k - 1) \div 2, iif |-> (k - 1) % 2]]

Permissive == [policy |-> "accept", rules |-> <<>>]

\* A chain that denies exactly S: what is kept is accepted point by point, then
\* one rule denies the addresses below a limit and the policy the rest.
Denies(S, limit) ==
  LET kept == SelectSeq(EveryPoint, LAMBDA p : p \notin S)
  IN [policy |-> "drop",
      rules |-> Append([k \in DOMAIN kept |-> [match |-> {kept[k]}, action |-> "accept"]],
                       [match |-> {p \in HeaderSpace : p["src"] < limit}, action |-> "reject"])]

\* Every set of packets lost, and regained.
EveryDelta ==
  UNION {{[base |-> Permissive, head |-> Denies(S, limit)],
          [base |-> Denies(S, limit), head |-> Permissive]} :
         S \in SUBSET HeaderSpace, limit \in {2, 4}}

\* One of the two interfaces has a name; a column shows one term, or all.
Terse == [max_terms |-> 1, handful |-> 2, listed |-> 2, named |-> {0}]
Full == [max_terms |-> 8, handful |-> 2, listed |-> 2, named |-> {0}]

Budgets ==
  {[max_cubes |-> 8, mask_expand_cap |-> 2, max_regions |-> 8, merge_passes |-> 3,
    max_cells |-> 2, max_rows |-> 2, style |-> Terse],
   [max_cubes |-> 8, mask_expand_cap |-> 1, max_regions |-> 2, merge_passes |-> 1,
    max_cells |-> 2, max_rows |-> 2, style |-> Terse],
   [max_cubes |-> 2, mask_expand_cap |-> 2, max_regions |-> 1, merge_passes |-> 3,
    max_cells |-> 1, max_rows |-> 8, style |-> Full],
   [max_cubes |-> 8, mask_expand_cap |-> 2, max_regions |-> 8, merge_passes |-> 0,
    max_cells |-> 2, max_rows |-> 1, style |-> Full],
   [max_cubes |-> 8, mask_expand_cap |-> 2, max_regions |-> 1, merge_passes |-> 3,
    max_cells |-> 2, max_rows |-> 1, style |-> Full]}
=============================================================================
