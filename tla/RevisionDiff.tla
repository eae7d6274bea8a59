---------------------------- MODULE RevisionDiff ----------------------------
(***************************************************************************)
(* engine/diff.rs: the behavioural delta between two revisions of a chain, *)
(* its attribution to deciding rules on both sides, and the structural     *)
(* changes found by pairing rules by what they say.                        *)
(*                                                                         *)
(* A rule here is what the file says: a predicate and an action, the pair  *)
(* content_key hashes.  Denotes gives the packets of a predicate, the same *)
(* in both revisions because they share one symbol table.  Keys are taken  *)
(* as collision-free.                                                      *)
(***************************************************************************)
EXTENDS Delta, SequencesExt

CONSTANTS
  Predicates,               \* match predicates as written
  Denotes,                  \* predicate -> the packets it admits
  Revisions                 \* the written chains a revision may hold

Content == [says : Predicates, action : Actions]

Written == [policy : Actions, rules : Seq(Content)]

ASSUME DenotesAssumption == Denotes \in [Predicates -> SUBSET Packets]
ASSUME RevisionsAssumption == Revisions \subseteq Written

VARIABLES
  base, head,               \* the two written chains, never written
  pc,
  by_key,                   \* key -> unpaired head numbers, last first
  cursor,                   \* next base rule, pair or removed number
  paired, removed,          \* sequences built by pair_rules
  added_left, removed_left, \* what the edit reconciliation has still to place
  out                       \* the structural changes so far

vars == <<base, head, pc, by_key, cursor, paired, removed, added_left, removed_left, out>>

\* analyse() on a written chain.
Resolved(written) ==
  [policy |-> written.policy,
   rules |-> [i \in DOMAIN written.rules |->
                [match |-> Denotes[written.rules[i].says], action |-> written.rules[i].action]]]

ModelOf(written) == Compile(Resolved(written))

\* Mutant: a rule's identity includes where it sits.
content_key_Positional(written, n) == <<written.rules[n], n>>

\* Identity of a rule by what it says rather than where it sits.
content_key(written, n) == written.rules[n]

KeysOf(written) == {content_key(written, n) : n \in DOMAIN written.rules}

\* The numbers, in file order, of the rules with a key.
NumbersOf(written, key) ==
  Ascending({n \in DOMAIN written.rules : content_key(written, n) = key})

Init ==
  /\ base \in Revisions
  /\ head \in Revisions
  /\ pc = "index"
  /\ by_key = [c \in {} |-> <<>>]
  /\ cursor = 1
  /\ paired = <<>> /\ removed = <<>>
  /\ added_left = <<>> /\ removed_left = <<>>
  /\ out = <<>>

(***************************************************************************)
(* pair_rules.                                                             *)
(***************************************************************************)
\* Mutant: popping takes the latest of the equal rules.
Unpaired_Latest(key) == NumbersOf(head, key)

\* Reversed, so that popping takes the earliest.
Unpaired(key) == Reverse(NumbersOf(head, key))

\* Index the head rules by content.
IndexHead ==
  /\ pc = "index"
  /\ by_key' = [key \in KeysOf(head) |-> Unpaired(key)]
  /\ pc' = "pair"
  /\ UNCHANGED <<base, head, cursor, paired, removed, added_left, removed_left, out>>

\* Pop the earliest unpaired head rule of the same content.
PairRule ==
  /\ pc = "pair"
  /\ cursor <= Len(base.rules)
  /\ LET key == content_key(base, cursor)
     IN IF key \in DOMAIN by_key /\ by_key[key] # <<>>
        THEN /\ paired' = Append(paired, [base |-> cursor, head |-> Last(by_key[key])])
             /\ by_key' = [by_key EXCEPT ![key] = Front(@)]
             /\ UNCHANGED removed
        ELSE /\ removed' = Append(removed, cursor)
             /\ UNCHANGED <<paired, by_key>>
  /\ cursor' = cursor + 1
  /\ UNCHANGED <<base, head, pc, added_left, removed_left, out>>

\* Whatever was never popped was added; the hash map's order is sorted away.
CollectAdded ==
  /\ pc = "pair"
  /\ cursor > Len(base.rules)
  /\ added_left' = Ascending(UNION {ToSet(by_key[c]) : c \in DOMAIN by_key})
  /\ cursor' = 1
  /\ pc' = "compare"
  /\ UNCHANGED <<base, head, by_key, paired, removed, removed_left, out>>

(***************************************************************************)
(* structural_changes.                                                     *)
(***************************************************************************)
Change(kind, number, why) == [kind |-> kind, number |-> number, why |-> why]

\* Mutant: a rule that woke up is explained from the revision it is live in.
ReachabilityChange_WrongSide(b, h, bm, hm) ==
  CASE ~bm.rules[b].shadowed /\ hm.rules[h].shadowed ->
         <<Change("NowUnreachable", h, ExplainShadow(hm, h))>>
    [] bm.rules[b].shadowed /\ ~hm.rules[h].shadowed ->
         <<Change("NowReachable", h, ExplainShadow(hm, h))>>
    [] OTHER -> <<>>

\* The reachability change of a pair, with the rules that explain it.
ReachabilityChange(b, h, bm, hm) ==
  CASE ~bm.rules[b].shadowed /\ hm.rules[h].shadowed ->
         <<Change("NowUnreachable", h, ExplainShadow(hm, h))>>
    [] bm.rules[b].shadowed /\ ~hm.rules[h].shadowed ->
         <<Change("NowReachable", h, ExplainShadow(bm, b))>>
    [] OTHER -> <<>>

\* The redundancy change, reported only when neither side is shadowed.
RedundancyChange(b, h, bm, hm) ==
  IF bm.rules[b].shadowed \/ hm.rules[h].shadowed THEN <<>>
  ELSE CASE ~bm.rules[b].redundant /\ hm.rules[h].redundant ->
              <<Change("NowRedundant", h, <<>>)>>
         [] bm.rules[b].redundant /\ ~hm.rules[h].redundant ->
              <<Change("NoLongerRedundant", h, <<>>)>>
         [] OTHER -> <<>>

ComparePair ==
  /\ pc = "compare"
  /\ cursor <= Len(paired)
  /\ LET b == paired[cursor].base
         h == paired[cursor].head
         bm == ModelOf(base)
         hm == ModelOf(head)
     IN out' = out \o ReachabilityChange(b, h, bm, hm) \o RedundancyChange(b, h, bm, hm)
  /\ cursor' = cursor + 1
  /\ UNCHANGED <<base, head, pc, by_key, paired, removed, added_left, removed_left>>

\* Mutant: the reconciliation counts from zero.
FirstRemoved_FromZero == 0

FirstRemoved == 1

StartReconcile ==
  /\ pc = "compare"
  /\ cursor > Len(paired)
  /\ cursor' = FirstRemoved
  /\ pc' = "reconcile"
  /\ UNCHANGED <<base, head, by_key, paired, removed, added_left, removed_left, out>>

\* Mutant: an addition recognised as an edit stays on the list.
WithoutAddition_Kept(number) == added_left

WithoutAddition(number) == RemoveFirst(added_left, number)

\* A removal and an addition at one position are an edit in place.
ReconcileRemoved ==
  /\ pc = "reconcile"
  /\ cursor <= Len(removed)
  /\ LET number == removed[cursor]
     IN IF Contains(added_left, number)
        THEN /\ added_left' = WithoutAddition(number)
             /\ out' = Append(out, Change("Modified", number, <<>>))
             /\ UNCHANGED removed_left
        ELSE /\ removed_left' = Append(removed_left, number)
             /\ UNCHANGED <<added_left, out>>
  /\ cursor' = cursor + 1
  /\ UNCHANGED <<base, head, pc, by_key, paired, removed>>

\* The derived Debug text orders equal numbers: the kinds, alphabetically.
Kinds == <<"Added", "Modified", "NoLongerRedundant", "NowReachable", "NowRedundant",
           "NowUnreachable", "Removed">>

Rank(kind) == CHOOSE k \in DOMAIN Kinds : Kinds[k] = kind

Precedes(a, b) ==
  a.number < b.number \/ (a.number = b.number /\ Rank(a.kind) < Rank(b.kind))

\* What is left was purely removed or added; the list is then sorted.
ListRest ==
  /\ pc = "reconcile"
  /\ cursor > Len(removed)
  /\ LET of_kind(kind, numbers) == [k \in DOMAIN numbers |-> Change(kind, numbers[k], <<>>)]
         all == out \o of_kind("Removed", removed_left) \o of_kind("Added", added_left)
     IN out' = Ranked(ToSet(all), Precedes)
  /\ pc' = "done"
  /\ UNCHANGED <<base, head, by_key, cursor, paired, removed, added_left, removed_left>>

Next ==
  \/ IndexHead \/ PairRule \/ CollectAdded
  \/ ComparePair \/ StartReconcile \/ ReconcileRemoved \/ ListRest

Spec == Init /\ [][Next]_vars

(***************************************************************************)
(* Correctness.                                                            *)
(***************************************************************************)
Numbers(written) == DOMAIN written.rules

TypeOK ==
  /\ base \in Written /\ head \in Written
  /\ pc \in {"index", "pair", "compare", "reconcile", "done"}
  /\ by_key \in [DOMAIN by_key -> Seq(Numbers(head))]
  /\ cursor \in Nat \ {0}
  /\ paired \in Seq([base : Numbers(base), head : Numbers(head)])
  /\ removed \in Seq(Numbers(base)) /\ removed_left \in Seq(Numbers(base))
  /\ added_left \in Seq(Numbers(head))
  /\ out \in Seq([kind : ToSet(Kinds), number : Numbers(base) \cup Numbers(head), why : Seq(Nat)])

BasePaired == {paired[k].base : k \in DOMAIN paired}
HeadPaired == {paired[k].head : k \in DOMAIN paired}
Reported(kind) == {out[k].number : k \in {j \in DOMAIN out : out[j].kind = kind}}

\* pair_rules pairs by what rules say and as much as it can: equal rules pair
\* in file order, and no content is left both unpaired in the base and unpaired
\* in the head.
PairingIsMaximal ==
  pc = "compare" =>
    LET said_base(b) == base.rules[b]
        said_head(h) == head.rules[h]
    IN /\ \A k \in DOMAIN paired : said_base(paired[k].base) = said_head(paired[k].head)
       /\ \A j, k \in DOMAIN paired :
            j < k /\ said_base(paired[j].base) = said_base(paired[k].base)
              => paired[j].base < paired[k].base /\ paired[j].head < paired[k].head
       /\ {said_base(b) : b \in ToSet(removed)} \cap {said_head(h) : h \in ToSet(added_left)} = {}

\* Every rule of both revisions is accounted for exactly once: a base rule is
\* paired, removed or modified, a head rule paired, added or modified, and no
\* position is listed under two of added, removed and modified.
EveryRuleAccountedOnce ==
  pc = "done" =>
    LET kinds == [k \in {"Added", "Removed", "Modified"} |-> Reported(k)]
    IN /\ BasePaired \cup kinds["Removed"] \cup kinds["Modified"] = Numbers(base)
       /\ HeadPaired \cup kinds["Added"] \cup kinds["Modified"] = Numbers(head)
       /\ BasePaired \cap (kinds["Removed"] \cup kinds["Modified"]) = {}
       /\ HeadPaired \cap (kinds["Added"] \cup kinds["Modified"]) = {}
       /\ \A j, k \in DOMAIN kinds : j # k => kinds[j] \cap kinds[k] = {}
       /\ Len(out) = Cardinality(ToSet(out))
       /\ Cardinality(HeadPaired) = Len(paired)

\* A rule said once in each revision that starts or stops deciding packets is
\* reported as such, with rules that do cover it in the revision where it is
\* dead; live on both sides, its redundancy is reported as changed exactly when
\* deleting it changes one revision's accept set and not the other's.
StatusChangesExplained ==
  pc = "done" =>
    LET bm == ModelOf(base)
        hm == ModelOf(head)
        dead(model, n) == \A p \in Packets : p \notin model.rules[n].effective
        needed(written, n) ==
          AcceptSet(Deleting(Resolved(written), n)) # AcceptSet(Resolved(written))
        explains(model, n, why) ==
          why # <<>> /\ CoveredBy(model, model.rules[n].matched, ToSet(why))
    IN \A b \in Numbers(base), h \in Numbers(head) :
         (/\ {n \in Numbers(base) : base.rules[n] = head.rules[h]} = {b}
          /\ {n \in Numbers(head) : head.rules[n] = head.rules[h]} = {h}) =>
           /\ dead(hm, h) /\ ~dead(bm, b) <=>
                \E k \in DOMAIN out :
                  out[k].kind = "NowUnreachable" /\ out[k].number = h /\ explains(hm, h, out[k].why)
           /\ dead(bm, b) /\ ~dead(hm, h) <=>
                \E k \in DOMAIN out :
                  out[k].kind = "NowReachable" /\ out[k].number = h /\ explains(bm, b, out[k].why)
           /\ ~dead(bm, b) /\ ~dead(hm, h) =>
                /\ h \in Reported("NowRedundant") <=> needed(base, b) /\ ~needed(head, h)
                /\ h \in Reported("NoLongerRedundant") <=> ~needed(base, b) /\ needed(head, h)

\* Inserting one rule anywhere shows as one addition and no removal or edit;
\* deleting one shows as one removal: the neighbours keep their identity.
InsertionIsOneAddition ==
  pc = "done" =>
    LET moved == Cardinality(Reported("Removed")) + Cardinality(Reported("Modified"))
        inserted(short, long) ==
          \E k \in DOMAIN long.rules : RemoveAt(long.rules, k) = short.rules
    IN /\ inserted(base, head) => Cardinality(Reported("Added")) = 1 /\ moved = 0
       /\ inserted(head, base) => Reported("Added") = {} /\ moved = 1

\* What attribute claims of one delta: each part is decided as claimed on both
\* sides, by rules that disagree in the delta's direction; the parts are disjoint,
\* and they are the whole delta exactly when the cap was not reached.
Explained(bm, hm, blocked, cap) ==
  LET permits(model, d) == Permits(IF d = ByPolicy THEN model.policy ELSE model.rules[d].action)
      decided(model, d, p) ==
        IF d = ByPolicy THEN p \in model.fallthrough ELSE p \in model.rules[d].effective
      delta == IF blocked THEN NewlyBlocked(bm, hm) ELSE NewlyAllowed(bm, hm)
      split == Attribute(bm, hm, delta, cap)
      parts == [k \in DOMAIN split.cells |-> split.cells[k].set]
  IN /\ Len(split.cells) <= cap
     /\ split.truncated <=> (UNION ToSet(parts)) # delta
     /\ \A k \in DOMAIN split.cells :
          /\ parts[k] # {}
          /\ permits(bm, split.cells[k].was) = blocked
          /\ permits(hm, split.cells[k].now) = ~blocked
          /\ \A p \in parts[k] :
               /\ p \in delta
               /\ decided(bm, split.cells[k].was, p)
               /\ decided(hm, split.cells[k].now, p)
     /\ \A j, k \in DOMAIN parts : j # k => parts[j] \cap parts[k] = {}

\* Both deltas of the two revisions are explained, whatever the cap on parts.
AttributionExplainsDelta ==
  pc = "done" =>
    \A cap \in 0 .. 4, blocked \in BOOLEAN : Explained(ModelOf(base), ModelOf(head), blocked, cap)
=============================================================================
