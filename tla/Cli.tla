--------------------------------- MODULE Cli ---------------------------------
(***************************************************************************)
(* cli/main.rs and cli/source.rs: one run of `fwdelta diff`, from reading  *)
(* the two revisions to the exit code a pipeline gates on, or of `fwdelta  *)
(* check` on one revision.  The base is a file, the head a file or a       *)
(* branch that may move while it is read; every read and write may fail.   *)
(* Chains are compiled by ChainModel, compared by Delta and held against   *)
(* the assertions by Policy, read from their file by PolicyFile.  What the *)
(* attestation (cli/attest.rs) and the report carry is modelled, their     *)
(* layout is not.                                                          *)
(***************************************************************************)
EXTENDS Policy, Delta

CONSTANTS
  Rejected,                 \* a text the frontend rejects
  Texts,                    \* texts a revision may hold: a parsed one is a
                            \* sequence of [name, body], or Rejected
  Branches,                 \* what the head may name: the texts it goes through,
                            \* a file when there is one
  Policies,                 \* assertion files: none, or one document
  Invocations,              \* options: [command, only, verify, allow_vacuous,
                            \*           fail_on_newly_blocked, attest, format]
  MaxCells,                 \* the most parts of a delta delta_json writes down,
  PageCells,                \* and the most a page in text or HTML does
  Reached                   \* what the enumerator gets to of a set of packets
                            \* before its work limit

Ruleset == Seq([name : ToSet(ChainNames), body : Chain])

ASSUME TextsAssumption == Texts \subseteq Ruleset \cup {Rejected}
ASSUME BranchesAssumption == Branches \subseteq Seq(Texts) \ {<<>>}
ASSUME PoliciesAssumption ==
  \A documents \in Policies :
    /\ \A d, e \in documents : d = e
    /\ \A d \in documents :
         "assert" \in DOMAIN d /\ d["assert"].type = "array"
           => d["assert"].of \in Seq(ToSet(d["assert"].of))
ASSUME InvocationsAssumption == \A opt \in Invocations : opt.command \in {"diff", "check"}
ASSUME CellsAssumption == MaxCells \in Nat /\ PageCells \in 0 .. MaxCells
ASSUME ReachedAssumption ==
  /\ Reached \in [SUBSET Packets -> SUBSET Packets]
  /\ \A set \in SUBSET Packets : Reached[set] \subseteq set

VARIABLES
  o,                        \* the options, fixed
  assert_file,              \* the assertion file's content, fixed
  branch, tip,              \* what the head names, and where it is now
  pc,
  base_src, head_src,       \* the loaded texts: none or one
  head_label,               \* what the head is called: itself (0), or the
                            \* revision rev-parse found the branch at
  read_policy,              \* the assertion file as read: none or one policy
  names,                    \* chain names still to compare
  sections,                 \* [name, bm, hm] for each chain in both
  unmatched,                \* [name, what] for each chain in one
  to_check,                 \* assertions still to evaluate
  assertions,               \* the reports: [assertion, chain, outcome]
  verdict,                  \* the exit code decided on
  attested,                 \* the attestation: none or one
  reported,                 \* the report: none or one
  exit_code,
  chain_at,                 \* the chain check looks at next
  findings                  \* what it lists: [chain, number, what, covered, rule]

\* Groups of variables, for the ones an action leaves alone.
given == <<o, assert_file, branch>>
inputs == <<base_src, head_src, head_label, read_policy>>
compared == <<names, sections, unmatched>>
evaluated == <<to_check, assertions, verdict>>
outputs == <<attested, reported, chain_at, findings>>

vars == <<given, tip, pc, inputs, compared, evaluated, outputs, exit_code>>

Init ==
  /\ o \in Invocations /\ assert_file \in Policies
  /\ branch \in Branches /\ tip = 1
  /\ pc = IF o.command = "diff" THEN "load_base" ELSE "load_head"
  /\ base_src = {} /\ head_src = {} /\ head_label = 0 /\ read_policy = {}
  /\ names = <<>> /\ sections = <<>> /\ unmatched = {}
  /\ to_check = <<>> /\ assertions = <<>>
  /\ verdict = -1
  /\ attested = {} /\ reported = {}
  /\ exit_code = -1
  /\ chain_at = 1 /\ findings = <<>>

\* Mutant: the error is printed and the run goes on.
Abort_GoesOn == UNCHANGED pc /\ exit_code' = 2

\* run() returns Err: main prints it and exits with 2.
Abort == pc' = "exit" /\ exit_code' = 2

GoOn(next) == pc' = next /\ UNCHANGED exit_code

(***************************************************************************)
(* Reading the inputs.                                                     *)
(***************************************************************************)
LoadBase ==
  /\ pc = "load_base"
  /\ \E text \in Texts : base_src' = {text}
  /\ GoOn("load_head")
  /\ UNCHANGED <<given, tip, head_src, head_label, read_policy, compared, evaluated, outputs>>

IsFile == Len(branch) = 1

\* The file, or what the branch holds when git show runs.
LoadHead ==
  /\ pc = "load_head"
  /\ head_src' = {branch[tip]}
  /\ GoOn(IF IsFile THEN "parse" ELSE "label")
  /\ UNCHANGED <<given, tip, base_src, head_label, read_policy, compared, evaluated, outputs>>

\* rev-parse is a second command, and may fail: then the spec stands for itself.
LabelHead ==
  /\ pc = "label"
  /\ head_label' \in {0, tip}
  /\ GoOn("parse")
  /\ UNCHANGED <<given, tip, base_src, head_src, read_policy, compared, evaluated, outputs>>

\* A file or revision that cannot be read.
CannotRead ==
  /\ pc \in {"load_base", "load_head", "policy"}
  /\ pc = "policy" => assert_file # {}
  /\ Abort
  /\ UNCHANGED <<given, tip, inputs, compared, evaluated, outputs>>

Parse ==
  /\ pc = "parse"
  /\ IF Rejected \in base_src \cup head_src
     THEN Abort
     ELSE GoOn(IF o.command = "diff" THEN "policy" ELSE "table")
  /\ UNCHANGED <<given, tip, inputs, compared, evaluated, outputs>>

\* The assertion file is read as a policy, or refused.
LoadPolicy ==
  /\ pc = "policy"
  /\ read_policy' = UNION {parse_policy(doc) : doc \in assert_file}
  /\ IF assert_file # {} /\ read_policy' = Refused THEN Abort ELSE GoOn("table")
  /\ UNCHANGED <<given, tip, base_src, head_src, head_label, compared, evaluated, outputs>>

\* The revisions and the assertions together name more interfaces than the
\* table has room for.
TooManyInterfaces ==
  /\ pc = "table"
  /\ Abort
  /\ UNCHANGED <<given, tip, inputs, compared, evaluated, outputs>>

(***************************************************************************)
(* Matching and comparing chains.                                          *)
(***************************************************************************)
Named(rs, name) == {k \in DOMAIN rs : rs[k].name = name}

\* Ruleset::chain: the first chain of the name.
ChainOf(rs, name) == rs[Least(Named(rs, name))].body

base_rs == CHOOSE text \in base_src : TRUE
head_rs == CHOOSE text \in head_src : TRUE

\* Mutant: only the base's chains are looked at.
Listed_BaseOnly(rs, other, only, name) == Named(rs, name) # {} /\ (only = {} \/ name \in only)

\* The names in either revision, or the one asked for.
Listed(rs, other, only, name) ==
  /\ Named(rs, name) # {} \/ Named(other, name) # {}
  /\ only = {} \/ name \in only

MatchChains ==
  /\ pc = "table"
  /\ o.command = "diff"
  /\ names' = Picked(ChainNames, {k \in DOMAIN ChainNames : Listed(base_rs, head_rs, o.only, ChainNames[k])})
  /\ IF names' = <<>> /\ o.only # {} THEN Abort ELSE GoOn("compare")
  /\ UNCHANGED <<given, tip, inputs, sections, unmatched, evaluated, outputs>>

CompareChain ==
  /\ pc = "compare"
  /\ names # <<>>
  /\ LET name == Head(names)
         bm == Compile(ChainOf(base_rs, name))
         hm == Compile(ChainOf(head_rs, name))
     IN \/ /\ Named(base_rs, name) # {} /\ Named(head_rs, name) # {}
           /\ IF o.verify /\ ~(Verify(bm) /\ Verify(hm))
              THEN Abort /\ UNCHANGED sections
              ELSE /\ sections' = Append(sections, [name |-> name, bm |-> bm, hm |-> hm])
                   /\ UNCHANGED <<pc, exit_code>>
           /\ UNCHANGED unmatched
        \/ /\ Named(head_rs, name) = {}
           /\ unmatched' = unmatched \cup {[name |-> name, what |-> "removed"]}
           /\ UNCHANGED <<pc, sections, exit_code>>
        \/ /\ Named(base_rs, name) = {}
           /\ unmatched' = unmatched \cup {[name |-> name, what |-> "added"]}
           /\ UNCHANGED <<pc, sections, exit_code>>
  /\ names' = Tail(names)
  /\ UNCHANGED <<given, tip, inputs, evaluated, outputs>>

EndCompare ==
  /\ pc = "compare"
  /\ names = <<>>
  /\ to_check' = IF read_policy = {} THEN <<>> ELSE The(read_policy).assertions
  /\ GoOn("evaluate")
  /\ UNCHANGED <<given, tip, inputs, compared, assertions, verdict, outputs>>

(***************************************************************************)
(* Evaluating the assertions and deciding.                                 *)
(***************************************************************************)
Targets(a, secs) == Picked(secs, {k \in DOMAIN secs : a.chain = {} \/ secs[k].name \in a.chain})

\* evaluate, one assertion: against the head model of every chain it applies
\* to, and it is an error if there is none.
EvaluateAssertion ==
  /\ pc = "evaluate"
  /\ to_check # <<>>
  /\ LET a == Head(to_check)
         targets == Targets(a, sections)
         reports == [k \in DOMAIN targets |->
                       [assertion |-> a, chain |-> targets[k].name,
                        outcome |-> check(The(read_policy), targets[k].hm, a)]]
     IN IF targets = <<>>
        THEN Abort /\ UNCHANGED assertions
        ELSE assertions' = assertions \o reports /\ UNCHANGED <<pc, exit_code>>
  /\ to_check' = Tail(to_check)
  /\ UNCHANGED <<given, tip, inputs, compared, verdict, outputs>>

Came(label) == \E k \in DOMAIN assertions : assertions[k].outcome.label = label

lost == \E k \in DOMAIN sections : NewlyBlocked(sections[k].bm, sections[k].hm) # {}

\* Mutant: a vacuous assertion fails the run only if another one failed.
GateFails_NotVacuous(opt) == Came("FAIL") \/ (opt.fail_on_newly_blocked /\ lost)

GateFails(opt) ==
  \/ Came("FAIL")
  \/ ~opt.allow_vacuous /\ Came("VACUOUS")
  \/ opt.fail_on_newly_blocked /\ lost

Decide ==
  /\ pc = "evaluate"
  /\ to_check = <<>>
  /\ verdict' = IF GateFails(o) THEN 1 ELSE 0
  /\ GoOn(IF o.attest THEN "attest" ELSE "report")
  /\ UNCHANGED <<given, tip, inputs, compared, to_check, assertions, outputs>>

(***************************************************************************)
(* Writing the results.                                                    *)
(***************************************************************************)
\* The two inputs as the attestation lists them; a digest is that of a text.
Inputs ==
  <<[role |-> "base", label |-> 0, digest |-> base_src],
    [role |-> "head", label |-> head_label, digest |-> head_src]>>

\* Mutant: the subject's digest is taken from the head read a second time.
Subject_ReadAgain(listed) == {[name |-> listed[2].label, digest |-> {branch[tip]}]}

\* statement: what is attested is the head.
Subject(listed) ==
  {[name |-> i.label, digest |-> i.digest] : i \in {j \in ToSet(listed) : j.role = "head"}}

Numbered(label) == Cardinality({k \in DOMAIN assertions : assertions[k].outcome.label = label})

\* The cells of a delta up to a cap, and of each what the enumerator reaches.
Enumerated(section, set, cap) ==
  LET split == Attribute(section.bm, section.hm, set, cap)
  IN [cells |-> {[c EXCEPT !.set = Reached[c.set]] : c \in ToSet(split.cells)},
      truncated |-> split.truncated,
      incomplete |-> \E c \in ToSet(split.cells) : Reached[c.set] # c.set]

\* delta_json: one direction, by the rules that decide it, and whether that is
\* all of it.
delta_json(section, set) ==
  LET all == Enumerated(section, set, MaxCells)
  IN [cells |-> all.cells, packets |-> Cardinality(set),
      complete |-> ~all.truncated /\ ~all.incomplete]

DeltaOf(section) ==
  [chain |-> section.name,
   blocked |-> delta_json(section, NewlyBlocked(section.bm, section.hm)),
   allowed |-> delta_json(section, NewlyAllowed(section.bm, section.hm))]

\* Failures carry their counterexample, the others do not.
Statement ==
  [subject |-> Subject(Inputs), inputs |-> Inputs,
   delta |-> [k \in DOMAIN sections |-> DeltaOf(sections[k])],
   assertions |-> assertions,
   summary |-> [checked |-> Len(assertions), passed |-> Numbered("PASS"),
                failed |-> Numbered("FAIL"), vacuous |-> Numbered("VACUOUS")]]

WriteAttestation ==
  /\ pc = "attest"
  /\ attested' = {Statement}
  /\ GoOn("report")
  /\ UNCHANGED <<given, tip, inputs, compared, evaluated, reported, chain_at, findings>>

\* The remark about lost traffic: the text renderer adds it whatever the option
\* says, the page is given it when losing traffic does not fail the run.
SaysNotBlocking ==
  CASE o.format = "text" -> lost
    [] o.format = "html" -> lost /\ ~o.fail_on_newly_blocked
    [] o.format = "json" -> FALSE

\* assertion_row: a result as the page has it, the packet that broke it included.
AssertionRow(r) ==
  [name |-> r.assertion.name, kind |-> r.assertion.kind, outcome |-> r.outcome.label,
   shown |-> r.outcome.counterexample]

\* The section on intent, and the numbers under it, by the rows' own outcomes.
Intent ==
  LET rows == [k \in DOMAIN assertions |-> AssertionRow(assertions[k])]
      tally(outcome) == Cardinality({k \in DOMAIN rows : rows[k].outcome = outcome})
  IN [rows |-> rows, checked |-> Len(rows), passed |-> tally("PASS"), failed |-> tally("FAIL"),
      vacuous |-> tally("VACUOUS")]

\* Mutant: the cells the page's cap cuts off go unsaid.
direction_CapUnsaid(section, set, fits) ==
  LET all == Enumerated(section, set, PageCells)
  IN [cells |-> {[c EXCEPT !.set = @ \cap fits] : c \in all.cells}, packets |-> Cardinality(set),
      cells_truncated |-> FALSE, incomplete |-> all.incomplete,
      omitted |-> \E c \in all.cells : ~(c.set \subseteq fits)]

\* direction, in the report: attributed again under the page's own cap, of which
\* the rows that fit are shown; the totals are of the whole.  Module Report has
\* the detail.
direction(section, set, fits) ==
  LET all == Enumerated(section, set, PageCells)
  IN [cells |-> {[c EXCEPT !.set = @ \cap fits] : c \in all.cells}, packets |-> Cardinality(set),
      cells_truncated |-> all.truncated, incomplete |-> all.incomplete,
      omitted |-> \E c \in all.cells : ~(c.set \subseteq fits)]

PageOf(section, fits) ==
  [chain |-> section.name,
   blocked |-> direction(section, NewlyBlocked(section.bm, section.hm), fits),
   allowed |-> direction(section, NewlyAllowed(section.bm, section.hm), fits)]

\* diff_json has the listing of the attestation, the exit code and no assertions;
\* the other two are renderings of one model, which has a listing of its own.
ReportModel(fits) ==
  [labels |-> <<0, head_label>>,
   delta |-> [k \in DOMAIN sections |->
                IF o.format = "json" THEN DeltaOf(sections[k])
                ELSE PageOf(sections[k], fits[sections[k].name])],
   notes |-> unmatched, says_not_blocking |-> SaysNotBlocking,
   intent |-> IF o.format = "json" THEN {} ELSE {Intent},
   exit |-> IF o.format = "json" THEN {verdict} ELSE {}]

WriteReport ==
  /\ pc = "report"
  /\ \E fits \in [ToSet(ChainNames) -> SUBSET Packets] : reported' = {ReportModel(fits)}
  /\ exit_code' = verdict
  /\ pc' = "exit"
  /\ UNCHANGED <<given, tip, inputs, compared, evaluated, attested, chain_at, findings>>

CannotWrite ==
  /\ pc \in {"attest", "report"}
  /\ Abort
  /\ UNCHANGED <<given, tip, inputs, compared, evaluated, outputs>>

(***************************************************************************)
(* cmd_check: the dead and the needless rules of one revision, held as the *)
(* head.                                                                   *)
(***************************************************************************)
\* Mutant: a rule that is never reached is listed as redundant too.
redundant_AlsoShadowed(r) == r.redundant

\* ChainModel::redundant: being unreachable is the sharper finding.
redundant(r) == r.redundant /\ ~r.shadowed

\* The rule a line shows is looked up again, by the chain's name.
Shown(k, number) ==
  LET rules == ChainOf(head_rs, head_rs[k].name).rules
  IN IF number \in DOMAIN rules THEN {rules[number]} ELSE {}

FindingsIn(k) ==
  LET model == Compile(head_rs[k].body)
      line(n, what, covered) ==
        [chain |-> k, number |-> n, what |-> what, covered |-> covered, rule |-> Shown(k, n)]
      dead == Ascending({n \in DOMAIN model.rules : model.rules[n].shadowed})
      needless == Ascending({n \in DOMAIN model.rules : redundant(model.rules[n])})
  IN [j \in DOMAIN dead |-> line(dead[j], "unreachable", ExplainShadow(model, dead[j]))]
       \o [j \in DOMAIN needless |-> line(needless[j], "redundant", <<>>)]

StartCheck ==
  /\ pc = "table"
  /\ o.command = "check"
  /\ GoOn("check")
  /\ UNCHANGED <<given, tip, inputs, compared, evaluated, outputs>>

CheckChain ==
  /\ pc = "check"
  /\ chain_at \in DOMAIN head_rs
  /\ IF o.verify /\ ~Verify(Compile(head_rs[chain_at].body))
     THEN Abort /\ UNCHANGED findings
     ELSE findings' = findings \o FindingsIn(chain_at) /\ UNCHANGED <<pc, exit_code>>
  /\ chain_at' = chain_at + 1
  /\ UNCHANGED <<given, tip, inputs, compared, evaluated, attested, reported>>

\* Only now is the format found not to be one of check's; findings fail no run.
EndCheck ==
  /\ pc = "check"
  /\ chain_at \notin DOMAIN head_rs
  /\ IF o.format = "html" THEN Abort ELSE pc' = "exit" /\ exit_code' = 0
  /\ UNCHANGED <<given, tip, inputs, compared, evaluated, outputs>>

\* Somebody pushes to the branch.
MoveBranch ==
  /\ tip < Len(branch)
  /\ tip' = tip + 1
  /\ UNCHANGED <<given, pc, inputs, compared, evaluated, outputs, exit_code>>

Next ==
  \/ LoadBase \/ LoadHead \/ LabelHead \/ CannotRead \/ Parse \/ LoadPolicy \/ TooManyInterfaces
  \/ StartCheck \/ CheckChain \/ EndCheck
  \/ MatchChains \/ CompareChain \/ EndCompare
  \/ EvaluateAssertion \/ Decide \/ WriteAttestation \/ WriteReport \/ CannotWrite
  \/ MoveBranch

Spec == Init /\ [][Next]_vars

(***************************************************************************)
(* Correctness.                                                            *)
(***************************************************************************)
TypeOK ==
  /\ tip \in DOMAIN branch
  /\ pc \in {"load_base", "load_head", "label", "parse", "policy", "table", "check", "compare",
             "evaluate", "attest", "report", "exit"}
  /\ base_src \subseteq Texts /\ Cardinality(base_src) <= 1
  /\ head_src \subseteq ToSet(branch) /\ Cardinality(head_src) <= 1
  /\ head_label \in 0 .. tip
  /\ Cardinality(read_policy) <= Cardinality(assert_file)
  /\ names \in Seq(ToSet(ChainNames))
  /\ unmatched \subseteq [name : ToSet(ChainNames), what : {"added", "removed"}]
  /\ \A k \in DOMAIN assertions :
       /\ assertions[k].outcome.label \in Outcomes
       /\ assertions[k].chain \in {sections[l].name : l \in DOMAIN sections}
  /\ verdict \in {-1, 0, 1} /\ exit_code \in {-1, 0, 1, 2}
  /\ pc = "exit" <=> exit_code # -1

Finished == o.command = "diff" /\ exit_code \in {0, 1}

\* The chains of a name in both revisions, which is what the run compares.
Compared ==
  {name \in ToSet(ChainNames) :
     /\ Named(base_rs, name) # {} /\ Named(head_rs, name) # {}
     /\ o.only = {} \/ name \in o.only}

\* The claims the assertion file makes, from the words written in it: a name, a
\* kind, perhaps a chain, and the packets whose fields are as each key says.
Claims ==
  LET meaning(doc, t) ==
        [name |-> t["name"].of, kind |-> t["kind"].of,
         chain |-> IF "chain" \in DOMAIN t THEN {t["chain"].of} ELSE {},
         packets |->
           {p \in Packets : \A key \in DOMAIN t \ {"name", "kind", "chain"} :
              LET field == CASE key = "from" -> "src" [] key = "to" -> "dst" [] OTHER -> key
              IN Header[p][field] \in Stands(doc, key, t[key])}]
  IN UNION {{meaning(doc, t) : t \in ToSet(Tables(doc))} :
            doc \in {d \in assert_file : "assert" \in DOMAIN d}}

AppliesTo(claim, name) == claim.chain = {} \/ name \in claim.chain

\* By first match on the head alone: every packet described is treated as the
\* assertion says.
Holds(claim, body) ==
  \A p \in claim.packets : AcceptedFrom(body, 1, p) <=> claim.kind = "reachability"

\* Some packet described is decided by a rule and not by the policy.
Meaningful(claim, body) == \E p \in claim.packets : ~FallsThrough(body.rules, p)

\* The reader of assertion files passed over nothing in this one.
AllHeeded == \A doc \in assert_file : Heeded(doc)

\* The exit code a pipeline gates on, in terms of the texts alone: 0 when every
\* assertion that bears on a compared chain's rules holds of every packet, none
\* is empty of meaning unless that is allowed, and nothing was lost if that is
\* asked; 1 otherwise.  It is the number in a JSON report.
ExitCodeIsTheGate ==
  Finished /\ AllHeeded =>
    /\ exit_code = 1 <=>
         \E name \in Compared :
           LET was == ChainOf(base_rs, name)
               is == ChainOf(head_rs, name)
           IN \/ \E c \in Claims : AppliesTo(c, name) /\ Meaningful(c, is) /\ ~Holds(c, is)
              \/ \E c \in Claims : AppliesTo(c, name) /\ ~Meaningful(c, is) /\ ~o.allow_vacuous
              \/ o.fail_on_newly_blocked /\ ~(AcceptSet(was) \subseteq AcceptSet(is))
    /\ \A r \in reported : r.exit \subseteq {exit_code}

\* An assertion file is taken whole or refused: no key of an assertion goes
\* unread, and every assertion is answered as it was written, about the packets
\* its words describe, for every compared chain it applies to and no other.
\* PASS is a proof by the rules, FAIL carries one of its packets that the head
\* treats the other way.  Only what the reader is known to pass over is excepted.
EveryAssertionAnswered ==
  Finished /\ AllHeeded =>
    LET claim(a) == [name |-> a.name, kind |-> a.kind, chain |-> a.chain,
                     packets |-> assertion_set(The(read_policy), a)]
    IN /\ \A doc \in {d \in assert_file : "assert" \in DOMAIN d} :
            \A t \in ToSet(Tables(doc)) : DOMAIN t \subseteq ASSERT_KEYS
       /\ {<<claim(assertions[k].assertion), assertions[k].chain>> : k \in DOMAIN assertions}
            = {pair \in Claims \X Compared : AppliesTo(pair[1], pair[2])}
       /\ \A k \in DOMAIN assertions :
            LET c == claim(assertions[k].assertion)
                is == ChainOf(head_rs, assertions[k].chain)
                outcome == assertions[k].outcome
            IN CASE outcome.label = "PASS" -> Holds(c, is) /\ Meaningful(c, is)
                 [] outcome.label = "VACUOUS" -> ~Meaningful(c, is)
                 [] outcome.label = "FAIL" ->
                      \E p \in outcome.counterexample :
                        p \in c.packets /\ (AcceptedFrom(is, 1, p) <=> c.kind = "isolation")

\* A chain name in either revision, unless it was not asked for, is on the page:
\* compared, or noted as added or removed.
EveryNameAccounted ==
  Finished =>
    \A r \in reported : \A name \in ToSet(ChainNames) :
      LET in_base == Named(base_rs, name) # {}
          in_head == Named(head_rs, name) # {}
          noted(what) == [name |-> name, what |-> what] \in r.notes
      IN o.only = {} \/ name \in o.only =>
           /\ (in_base /\ in_head) <=> name \in {r.delta[k].chain : k \in DOMAIN r.delta}
           /\ (in_base /\ ~in_head) <=> noted("removed")
           /\ (~in_base /\ in_head) <=> noted("added")

\* Whatever fails and however the branch moves: a run that delivers a verdict
\* has written everything asked of it, a run that could not delivers no report,
\* and what is attested, reported and exited with comes from one read of each
\* revision.  The attestation is about the head that was analysed under the name
\* the report gives it, its results and totals are those on the page, and a run
\* that exits with 0 attests no failure, nor, unless vacuous assertions are
\* allowed, anything but passes.
OutputsComeFromOneRun ==
  /\ Finished => /\ reported # {}
                 /\ o.attest => attested # {}
  /\ exit_code = 2 => reported = {}
  /\ \A att \in attested :
       /\ att.inputs[1].digest = base_src
       /\ att.subject = {[name |-> att.inputs[2].label, digest |-> head_src]}
       /\ \A r \in reported :
            /\ r.labels = <<att.inputs[1].label, att.inputs[2].label>>
            /\ \A i \in r.intent :
                 /\ [checked |-> i.checked, passed |-> i.passed, failed |-> i.failed,
                     vacuous |-> i.vacuous] = att.summary
                 /\ \A k \in DOMAIN i.rows :
                      /\ i.rows[k].name = att.assertions[k].assertion.name
                      /\ i.rows[k].outcome = att.assertions[k].outcome.label
                      /\ i.rows[k].shown = att.assertions[k].outcome.counterexample
       /\ exit_code = 0 =>
            /\ att.summary.failed = 0
            /\ att.summary.checked = att.summary.passed + att.summary.vacuous
            /\ ~o.allow_vacuous => att.summary.checked = att.summary.passed

\* The packets a listing has, and whether it says that these are all: a JSON
\* listing in one word, the model of a page by setting none of three marks.  What
\* a renderer prints of the marks is the matter of module Report.
ListedIn(part) == UNION {cell.set : cell \in part.cells}

SaysAll(part) ==
  IF "complete" \in DOMAIN part THEN part.complete
  ELSE ~part.cells_truncated /\ ~part.incomplete /\ ~part.omitted

\* A listing is of a set: it has no packet but its packets, says of itself whether
\* it has them all, and its total is of all whatever it lists.
Tells(part, exactly) ==
  /\ ListedIn(part) \subseteq exactly
  /\ SaysAll(part) <=> ListedIn(part) = exactly
  /\ part.packets = Cardinality(exactly)

\* All there is on the page is in the other listing, under the same two deciders.
AttributedAlike(page, whole) ==
  \A row \in page.cells : \E cell \in whole.cells :
    row.was = cell.was /\ row.now = cell.now /\ row.set \subseteq cell.set

\* The attestation and the report list a delta apart, under caps of their own, and
\* neither can mislead about the other: each has only packets two first-match
\* evaluations of the texts differ on, and says whether they are all; the report
\* attributes no packet otherwise than the attestation, and a report that omits
\* nothing goes with an attestation that omits nothing.
ListingsAgree ==
  \A written \in attested \cup reported :
    \A k \in DOMAIN written.delta :
      LET part == written.delta[k]
          was == AcceptSet(ChainOf(base_rs, part.chain))
          is == AcceptSet(ChainOf(head_rs, part.chain))
      IN /\ Tells(part.blocked, was \ is) /\ Tells(part.allowed, is \ was)
         /\ \A att \in attested :
              LET whole == att.delta[k]
              IN /\ part.chain = whole.chain
                 /\ AttributedAlike(part.blocked, whole.blocked)
                 /\ AttributedAlike(part.allowed, whole.allowed)
                 /\ SaysAll(part.blocked) => SaysAll(whole.blocked)
                 /\ SaysAll(part.allowed) => SaysAll(whole.allowed)

\* check lists each rule no packet reaches, with earlier rules that cover it, and
\* each reachable rule whose deletion changes no packet's verdict, once each, and
\* no other; a line shows the rule it is about, in a chain that is the first of
\* its name.
CheckFindsDeadRules ==
  o.command = "check" /\ exit_code = 0 =>
    LET rules(k) == head_rs[k].body.rules
        dead(k, n) == \A p \in Packets : ~Decides(rules(k), n, p)
        needless(k, n) ==
          AcceptSet(Deleting(head_rs[k].body, n)) = AcceptSet(head_rs[k].body)
        matched_by(k, numbers) == UNION {rules(k)[j].match : j \in numbers}
        listed(what) ==
          {<<f.chain, f.number>> : f \in {g \in ToSet(findings) : g.what = what}}
        positions == UNION {{<<k, n>> : n \in DOMAIN rules(k)} : k \in DOMAIN head_rs}
    IN /\ listed("unreachable") = {at \in positions : dead(at[1], at[2])}
       /\ listed("redundant") =
            {at \in positions : ~dead(at[1], at[2]) /\ needless(at[1], at[2])}
       /\ Len(findings) = Cardinality(listed("unreachable") \cup listed("redundant"))
       /\ \A f \in ToSet(findings) :
            /\ f.what = "unreachable" =>
                 /\ ToSet(f.covered) \subseteq 1 .. (f.number - 1)
                 /\ rules(f.chain)[f.number].match \subseteq matched_by(f.chain, ToSet(f.covered))
            /\ (\A k \in 1 .. (f.chain - 1) : head_rs[k].name # head_rs[f.chain].name)
                 => f.rule = {rules(f.chain)[f.number]}

\* What the tool says of its assertions: they are checked against the head
\* revision, so a run of every chain that exits with 0 leaves none broken there.
AssertionsHoldInHead ==
  Finished /\ exit_code = 0 /\ o.only = {} /\ AllHeeded =>
    \A c \in Claims, k \in DOMAIN head_rs :
      AppliesTo(c, head_rs[k].name) /\ Meaningful(c, head_rs[k].body) => Holds(c, head_rs[k].body)
=============================================================================
