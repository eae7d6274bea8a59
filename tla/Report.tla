------------------------------- MODULE Report -------------------------------
(***************************************************************************)
(* engine/report/mod.rs, direction(): one direction of one chain's delta   *)
(* made into the rows a reader sees.  The delta is attributed cell by cell *)
(* (Delta), each cell is enumerated in turn (Enumerate), the rows are      *)
(* ranked across cells, cut at the display cap and rendered column by      *)
(* column (Rendering), and what they agree on is lifted out of them.  The  *)
(* page is what report/text.rs and report/html.rs print of the result.     *)
(***************************************************************************)
EXTENDS Delta, Enumerate, Rendering

CONSTANTS
  Inputs,                   \* the pairs of chains compared: [base, head]
  Options                   \* ReportOptions, with its EnumOptions and Style

ASSUME HeaderAssumption == Packets = HeaderSpace
ASSUME InputsAssumption == \A input_pair \in Inputs : input_pair.base \in Chain /\ input_pair.head \in Chain

VARIABLES
  base, head,               \* the two compiled revisions
  direction,                \* "blocked" or "allowed"
  step,                     \* where direction() is
  cells, cells_truncated,   \* the attribution of the delta
  at,                       \* the cell to enumerate next
  found,                    \* rows so far: a rectangle and its two deciders
  rows,                     \* the columns of each row
  qualifiers,               \* what every row agrees on: column -> text
  omitted_rows, omitted_flows,
  report_incomplete

report_vars ==
  <<base, head, direction, step, cells, cells_truncated, at, found, rows, qualifiers,
    omitted_rows, omitted_flows, report_incomplete>>

vars == <<report_vars, enumerate_vars>>

delta == IF direction = "blocked" THEN NewlyBlocked(base, head) ELSE NewlyAllowed(base, head)

Init ==
  /\ \E input_pair \in Inputs :
       base = Compile(input_pair.base) /\ head = Compile(input_pair.head)
  /\ direction \in {"blocked", "allowed"}
  /\ opts \in Options
  /\ step = "start"
  /\ cells = <<>> /\ cells_truncated = FALSE
  /\ at = 1
  /\ found = {} /\ rows = <<>> /\ qualifiers = <<>>
  /\ omitted_rows = 0 /\ omitted_flows = 0
  /\ report_incomplete = FALSE
  /\ input = {} /\ walk = "idle" /\ todo = {} /\ cubes_visited = 0 /\ raw = {}
  /\ skipped_packets = 0 /\ incomplete = FALSE /\ regions = {}
  /\ passes = 0 /\ dim = 1 /\ before = 0 /\ omitted_regions = 0

\* Nothing is listed for an empty delta.
NothingToList ==
  /\ step = "start"
  /\ delta = {}
  /\ step' = "done"
  /\ UNCHANGED <<base, head, direction, cells, cells_truncated, at, found, rows, qualifiers,
                 omitted_rows, omitted_flows, report_incomplete, enumerate_vars>>

AttributeDelta ==
  /\ step = "start"
  /\ delta # {}
  /\ LET split == Attribute(base, head, delta, opts.max_cells)
     IN cells' = split.cells /\ cells_truncated' = split.truncated
  /\ step' = "cells"
  /\ UNCHANGED <<base, head, direction, at, found, rows, qualifiers, omitted_rows, omitted_flows,
                 report_incomplete, enumerate_vars>>

StartCell ==
  /\ step = "cells"
  /\ at <= Len(cells)
  /\ Begin(cells[at].set)
  /\ step' = "enumerating"
  /\ UNCHANGED <<base, head, direction, cells, cells_truncated, at, found, rows, qualifiers,
                 omitted_rows, omitted_flows, report_incomplete>>

EnumerateCell ==
  /\ step = "enumerating"
  /\ EnumerateNext
  /\ UNCHANGED report_vars

\* Its rectangles join the rows, with its note; its omissions are added up.
CollectCell ==
  /\ step = "enumerating"
  /\ walk = "done"
  /\ found' = found \cup {[region |-> r, was |-> cells[at].was, now |-> cells[at].now] : r \in regions}
  /\ omitted_rows' = omitted_rows + omitted_regions
  /\ report_incomplete' = (report_incomplete \/ incomplete)
  /\ at' = at + 1
  /\ step' = "cells"
  /\ UNCHANGED <<base, head, direction, cells, cells_truncated, rows, qualifiers, omitted_flows,
                 enumerate_vars>>

\* Rows are ordered by breadth across every cell; equal ones stay as they were
\* found, which the model leaves open.
RankRows ==
  /\ step = "cells"
  /\ at > Len(cells)
  /\ \E kept \in kSubset(Min({Cardinality(found), opts.max_rows}), found) :
       LET dropped == found \ kept
       IN /\ \A r \in kept, q \in dropped : count(r.region) >= count(q.region)
          /\ found' = kept
          /\ omitted_rows' = omitted_rows + Cardinality(dropped)
          /\ omitted_flows' = flow_count(Covered({q.region : q \in dropped}))
  /\ step' = "ranked"
  /\ UNCHANGED <<base, head, direction, cells, cells_truncated, at, rows, qualifiers,
                 report_incomplete, enumerate_vars>>

(***************************************************************************)
(* Columns.                                                                *)
(***************************************************************************)
\* row: the text of a rectangle's field, by the kind of the field.
Column(f, S) ==
  CASE f \in {"src", "dst"} -> addr_set(S, Width[f], opts.style)
    [] f \in {"sport", "dport"} -> port_set(S, Width[f], opts.style)
    [] f = "proto" -> proto_set(S, Width[f], opts.style)
    [] f \in {"iif", "oif"} -> iface_set(S, Width[f], opts.style)

Columns(r) == [f \in FieldSet |-> Column(f, r.region[f])]

\* Mutant: a text is lifted without asking whether the other rows have it too.
Agreed_OnOne(texts, f) ==
  /\ Cardinality(DOMAIN texts) >= 2
  /\ \E r \in DOMAIN texts : texts[r][f] \notin {BlankText, AnyText}

\* hoist: two rows or more, all with the same text, which says something.
Agreed(texts, f) ==
  /\ Cardinality(DOMAIN texts) >= 2
  /\ \A r, q \in DOMAIN texts : texts[r][f] = texts[q][f] /\ texts[r][f] \notin {BlankText, AnyText}

\* The rows are rendered, and three of the columns lifted if they are constant.
HoistColumns ==
  /\ step = "ranked"
  /\ LET texts == [r \in found |-> Columns(r)]
         hoisted == {f \in FieldSet \cap {"iif", "oif", "proto"} : Agreed(texts, f)}
     IN /\ rows' = [r \in found |-> [f \in FieldSet |-> IF f \in hoisted THEN BlankText ELSE texts[r][f]]]
        /\ qualifiers' = [f \in hoisted |-> texts[CHOOSE r \in found : TRUE][f]]
  /\ step' = "done"
  /\ UNCHANGED <<base, head, direction, cells, cells_truncated, at, found, omitted_rows,
                 omitted_flows, report_incomplete, enumerate_vars>>

Next ==
  \/ NothingToList \/ AttributeDelta \/ StartCell \/ EnumerateCell \/ CollectCell \/ RankRows
  \/ HoistColumns

Spec == Init /\ [][Next]_vars

is_empty == found = {} /\ omitted_rows = 0

\* What either renderer prints of a direction: nothing but "none", or the
\* qualifiers, the rows, the flow count and the omissions there are.
Page ==
  [none |-> is_empty,
   lines |-> IF is_empty THEN <<>> ELSE rows,
   all_entries |-> IF is_empty THEN <<>> ELSE qualifiers,
   flows |-> IF is_empty THEN {} ELSE {flow_count(delta)},
   further |-> IF is_empty THEN 0 ELSE omitted_rows,
   covering |-> IF is_empty THEN 0 ELSE omitted_flows,
   cap_reached |-> ~is_empty /\ cells_truncated,
   work_limit |-> ~is_empty /\ report_incomplete]

\* The card at the head of the HTML report: the flows, whatever the page lists.
Card == flow_count(delta)

(***************************************************************************)
(* Correctness.                                                            *)
(***************************************************************************)
TypeOK ==
  /\ step \in {"start", "cells", "enumerating", "ranked", "done"}
  /\ walk \in {"idle", "cubes", "merge", "done"}
  /\ at \in 1 .. (Len(cells) + 1)
  /\ \A r \in raw \cup regions \cup {q.region : q \in found} :
       r \in Region /\ \A f \in FieldSet : r[f] # {} /\ r[f] \subseteq Value(f)
  /\ cubes_visited \in 0 .. opts.max_cubes /\ passes \in 0 .. opts.merge_passes
  /\ dim \in 1 .. (Len(Fields) + 1)
  /\ {omitted_rows, omitted_flows, omitted_regions, skipped_packets} \subseteq Nat
  /\ {incomplete, report_incomplete, cells_truncated} \subseteq BOOLEAN

Disjoint(rs) == \A r, q \in rs : r # q => PacketsOf(r) \cap PacketsOf(q) = {}

\* Paths are disjoint and exact, and merging never loses, invents or overlaps a
\* packet whatever the order and number of rounds: the rectangles of a walk
\* always partition what its usable paths denote.
MergingIsExact ==
  /\ walk = "cubes" => Disjoint(raw) /\ Covered(raw) \subseteq input
  /\ walk = "merge" => Disjoint(regions) /\ Covered(regions) = Covered(raw)

FlowOf(p) == [f \in FieldSet \ Quantified |-> p[f]]

\* What a reader takes a line for: its own columns and, where one is lifted out,
\* what all entries are said to have in common.
TextOf(line, f) == IF f \in DOMAIN Page.all_entries THEN Page.all_entries[f] ELSE line[f]

\* A line on the page reads back as its rectangle, every packet of the rectangle
\* is changed as its note says, and rectangles never overlap.  Anything of the
\* delta that is not on the page is announced there, by a count of further
\* entries, the cell cap or the work limit, and none of the three is announced
\* over a complete listing.  The page that only says "none" is the exception:
\* it is also what is printed of a delta no path of which could be rendered, and
\* the card of the HTML report, which then counts flows, is all that gives it away.
NothingLeftOutSilently ==
  step = "done" =>
    LET listed == Covered({r.region : r \in found})
        decided(model, d, p) ==
          IF d = ByPolicy THEN p \in model.fallthrough ELSE p \in model.rules[d].effective
    IN /\ Disjoint({r.region : r \in found})
       /\ \A r \in DOMAIN Page.lines :
            /\ \A f \in FieldSet : ReadsBack(TextOf(Page.lines[r], f), r.region[f], Width[f])
            /\ \A p \in PacketsOf(r.region) :
                 p \in delta /\ decided(base, r.was, p) /\ decided(head, r.now, p)
       /\ ~Page.none =>
            /\ (Page.further > 0 \/ Page.cap_reached \/ Page.work_limit) <=> listed # delta
            /\ Page.flows = {Cardinality({FlowOf(p) : p \in delta})}
       /\ Page.none => Card = 0 \/ (report_incomplete /\ raw = {})
       /\ Card = 0 <=> delta = {}

\* When the enumerator's own cap is no tighter than the page's, no rectangle the
\* enumerator or the page drops is wider than one on the page: with one cell,
\* any rectangle of what is missing is at most as large as the narrowest row.
WidestAreShown ==
  (/\ step = "done" /\ opts.max_regions >= opts.max_rows
   /\ ~cells_truncated /\ ~report_incomplete /\ omitted_rows > 0) =>
      /\ Cardinality(found) = opts.max_rows
      /\ \A r \in found :
           (omitted_rows * count(r.region)) >= Cardinality(delta \ Covered({q.region : q \in found}))

\* A flow count is the number of distinct flows, not of packets nor of rows:
\* the headline's, and the remainder's when no rectangle was left behind by the
\* enumerator itself.
FlowCountsAreExact ==
  step = "done" =>
    /\ flow_count(delta) = Cardinality({FlowOf(p) : p \in delta})
    /\ (~cells_truncated /\ ~report_incomplete /\ opts.max_regions >= Cardinality(delta)) =>
         LET missing == delta \ Covered({r.region : r \in found})
         IN omitted_flows = Cardinality({FlowOf(p) : p \in missing})

\* What the page says of its omissions: the omitted entries cover the omitted
\* flows.
OmittedEntriesCoverOmittedFlows ==
  step = "done" /\ ~cells_truncated /\ ~report_incomplete =>
    LET missing == delta \ Covered({r.region : r \in found})
    IN omitted_flows = Cardinality({FlowOf(p) : p \in missing})
=============================================================================
