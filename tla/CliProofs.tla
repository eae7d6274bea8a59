------------------------------ MODULE CliProofs ------------------------------
(***************************************************************************)
(* Proofs about Cli, for every header space, every set of revisions,       *)
(* branches, assertion files and options, and whatever the words of an     *)
(* assertion file stand for.                                               *)
(***************************************************************************)
EXTENDS Cli, ChainModelProofs

(***************************************************************************)
(* The inductive invariant.                                                *)
(***************************************************************************)
\* A verdict was delivered, by diff or by check.
Delivered == exit_code \in {0, 1}

\* What there is to work on: the inputs are read before they are parsed, and
\* parsed before anything is done with them.
Analysing ==
  \/ pc \in {"policy", "table", "check", "compare", "evaluate", "attest", "report"}
  \/ Delivered
  \/ verdict # -1

Stages ==
  /\ o \in Invocations /\ assert_file \in Policies /\ branch \in Branches
  /\ tip \in 1 .. Len(branch)
  /\ pc \in {"load_base", "load_head", "label", "parse", "policy", "table", "check", "compare",
             "evaluate", "attest", "report", "exit"}
  /\ verdict \in {-1, 0, 1} /\ exit_code \in {-1, 0, 1, 2}
  /\ pc = "exit" <=> exit_code # -1
  /\ pc \in {"load_base", "policy", "compare", "evaluate", "attest", "report"} => o.command = "diff"
  /\ pc = "check" => o.command = "check"
  /\ head_label \in 0 .. tip

Loaded ==
  /\ base_src \subseteq Texts /\ head_src \subseteq ToSet(branch)
  /\ \A x, y \in base_src : x = y
  /\ \A x, y \in head_src : x = y
  /\ pc \in {"load_head", "label", "parse"} \/ Analysing => (o.command = "diff" => base_src # {})
  /\ pc \in {"label", "parse"} \/ Analysing => head_src # {}
  /\ Analysing => Rejected \notin base_src \cup head_src
  /\ read_policy \in {{}, UNION {parse_policy(doc) : doc \in assert_file}}
  /\ pc \in {"table", "check", "compare", "evaluate", "attest", "report"} \/ Delivered
       => (o.command = "diff" =>
             /\ read_policy = UNION {parse_policy(doc) : doc \in assert_file}
             /\ assert_file # {} => read_policy # {})

\* The names the run is about, and what becomes of one.
Wanted == {name \in ToSet(ChainNames) : Listed(base_rs, head_rs, o.only, name)}

SectionOf(name) ==
  [name |-> name, bm |-> Compile(ChainOf(base_rs, name)), hm |-> Compile(ChainOf(head_rs, name))]

Note(name, what) == [name |-> name, what |-> what]

Notes ==
  {Note(name, "removed") : name \in {n \in Wanted : Named(head_rs, n) = {}}}
    \cup {Note(name, "added") : name \in {n \in Wanted : Named(base_rs, n) = {}}}

Accounted(name) ==
  /\ name \in Compared => \E k \in DOMAIN sections : sections[k].name = name
  /\ \A what \in {"removed", "added"} : Note(name, what) \in Notes => Note(name, what) \in unmatched

Working == pc \in {"compare", "evaluate", "attest", "report"} \/ (o.command = "diff" /\ Delivered)

Matching ==
  /\ pc \in {"load_base", "load_head", "label", "parse", "policy", "table", "check"}
       \/ o.command = "check"
       => names = <<>> /\ sections = <<>> /\ unmatched = {}
  /\ names \in Seq(ToSet(ChainNames))
  /\ sections \in Seq(ToSet(sections))
  /\ \A k \in DOMAIN sections : sections[k].name \in Compared /\ sections[k] = SectionOf(sections[k].name)
  /\ \A note \in unmatched : note \in Notes
  /\ Working =>
       /\ ToSet(names) \subseteq Wanted
       /\ \A name \in Wanted : name \in ToSet(names) \/ Accounted(name)
       /\ pc # "compare" => names = <<>>

\* The assertions of the policy, and the reports there should be.
Asserted == IF read_policy = {} THEN {} ELSE ToSet(The(read_policy).assertions)

Concerns(a, name) == a.chain = {} \/ name \in a.chain

ReportOf(a, name) ==
  [assertion |-> a, chain |-> name,
   outcome |-> check(The(read_policy), Compile(ChainOf(head_rs, name)), a)]

Reports == UNION {{ReportOf(a, name) : name \in {n \in Compared : Concerns(a, n)}} : a \in Asserted}

Answered(a) ==
  \A name \in Compared : Concerns(a, name) => \E k \in DOMAIN assertions : assertions[k] = ReportOf(a, name)

Evaluating ==
  /\ pc \in {"load_base", "load_head", "label", "parse", "policy", "table", "check", "compare"}
       \/ o.command = "check"
       => to_check = <<>> /\ assertions = <<>>
  /\ to_check \in Seq(Asserted)
  /\ assertions \in Seq(ToSet(assertions))
  /\ \A k \in DOMAIN assertions :
       assertions[k] \in Reports /\ \E l \in DOMAIN sections : sections[l].name = assertions[k].chain
  /\ pc \in {"evaluate", "attest", "report"} \/ (o.command = "diff" /\ Delivered)
       => \A a \in Asserted : a \in ToSet(to_check) \/ Answered(a)
  /\ pc \in {"attest", "report"} \/ (o.command = "diff" /\ Delivered) => to_check = <<>>

\* The reports there may be, by what of the rows fits.
Pages == {ReportModel(fits) : fits \in [ToSet(ChainNames) -> SUBSET Packets]}

Concluding ==
  /\ verdict # -1 => pc \in {"attest", "report", "exit"} /\ o.command = "diff"
  /\ pc \in {"attest", "report"} \/ (o.command = "diff" /\ Delivered)
       => verdict = IF GateFails(o) THEN 1 ELSE 0
  /\ o.command = "diff" /\ Delivered => exit_code = verdict /\ \E page \in Pages : reported = {page}
  /\ ~(o.command = "diff" /\ Delivered) => reported = {}
  /\ \A att \in attested : att = Statement
  /\ attested # {} => pc \in {"report", "exit"} /\ o.command = "diff" /\ verdict # -1
  /\ o.attest /\ (pc = "report" \/ (o.command = "diff" /\ Delivered)) => attested # {}

\* What check lists of the chains it is done with.
Lines(upto) == UNION {ToSet(FindingsIn(k)) : k \in 1 .. upto}

Checking ==
  /\ (pc \in {"check", "exit"} /\ o.command = "check") \/ (chain_at = 1 /\ findings = <<>>)
  /\ chain_at \in Nat \ {0}
  /\ exit_code # 2 =>
       /\ findings \in Seq(Lines(chain_at - 1)) /\ ToSet(findings) = Lines(chain_at - 1)
       /\ \A i, j \in DOMAIN findings :
            findings[i].chain = findings[j].chain /\ findings[i].number = findings[j].number => i = j
       /\ chain_at > 1 => chain_at <= Len(head_rs) + 1
  /\ o.command = "check" /\ Delivered => exit_code = 0 /\ chain_at = Len(head_rs) + 1

IInv == Stages /\ Loaded /\ Matching /\ Evaluating /\ Concluding /\ Checking

(***************************************************************************)
(* What depends on which variables.                                        *)
(***************************************************************************)
\* The revisions stand, so the names do, and what becomes of them.
LEMMA SameRevisions ==
  ASSUME UNCHANGED <<o, base_src, head_src>>
  PROVE  /\ base_rs' = base_rs /\ head_rs' = head_rs
         /\ Compared' = Compared /\ Wanted' = Wanted /\ Notes' = Notes
         /\ \A name : SectionOf(name)' = SectionOf(name)
<1>1. base_rs' = base_rs /\ head_rs' = head_rs
  BY DEF base_rs, head_rs
<1>2. Compared' = Compared /\ Wanted' = Wanted
  BY <1>1 DEF Compared, Wanted
<1>3. Notes' = Notes
  BY <1>1, <1>2 DEF Notes
<1> QED
  BY <1>1, <1>2, <1>3 DEF SectionOf

\* The reports there should be depend on the sections and the policy alone.
LEMMA SameReports ==
  ASSUME UNCHANGED <<o, base_src, head_src, read_policy>>
  PROVE  /\ Asserted' = Asserted /\ Reports' = Reports
         /\ \A a, name : ReportOf(a, name)' = ReportOf(a, name)
<1>1. base_rs' = base_rs /\ head_rs' = head_rs /\ Compared' = Compared
  BY SameRevisions
<1>2. Asserted' = Asserted
  BY DEF Asserted
<1>3. \A a, name : ReportOf(a, name)' = ReportOf(a, name)
  BY <1>1 DEF ReportOf
<1>4. Reports' = Reports
  BY <1>1, <1>2, <1>3 DEF Reports
<1> QED
  BY <1>2, <1>3, <1>4

\* What check lists depends on the head alone.
LEMMA SameLines ==
  ASSUME head_src' = head_src
  PROVE  /\ head_rs' = head_rs
         /\ \A k : FindingsIn(k)' = FindingsIn(k)
         /\ \A n : Lines(n)' = Lines(n)
<1>1. head_rs' = head_rs
  BY DEF head_rs
<1>2. \A k, n : Shown(k, n)' = Shown(k, n)
  BY <1>1 DEF Shown
<1>3. \A k : FindingsIn(k)' = FindingsIn(k)
  BY <1>1, <1>2 DEF FindingsIn
<1> QED
  BY <1>1, <1>3 DEF Lines

\* The verdict depends on the sections, the reports and the options alone.
LEMMA SameDecision ==
  ASSUME UNCHANGED <<o, sections, assertions>>
  PROVE  GateFails(o)' = GateFails(o)
BY DEF GateFails, Came, lost

\* So does the attestation, with the inputs and their label,
LEMMA SameStatement ==
  ASSUME UNCHANGED <<base_src, head_src, head_label, sections, assertions>>
  PROVE  Statement' = Statement
<1>1. Inputs' = Inputs
  BY DEF Inputs
<1>2. \A label : Numbered(label)' = Numbered(label)
  BY DEF Numbered
<1> QED
  BY <1>1, <1>2 DEF Statement

\* and so do the reports there may be.
LEMMA SamePages ==
  ASSUME UNCHANGED <<o, head_label, sections, unmatched, assertions, verdict>>
  PROVE  Pages' = Pages
<1>1. Intent' = Intent
  BY DEF Intent
<1>2. SaysNotBlocking' = SaysNotBlocking
  BY DEF SaysNotBlocking, lost
<1> QED
  BY <1>1, <1>2 DEF Pages, ReportModel

(***************************************************************************)
(* What an action leaves alone keeps its part of the invariant.            *)
(***************************************************************************)
Early == {"load_base", "load_head", "label", "parse", "policy", "table", "check"}

\* Whatever leaves the names, the sections and the notes alone leaves Matching true.
LEMMA MatchingKept ==
  ASSUME Matching, UNCHANGED <<o, base_src, head_src, names, sections, unmatched>>,
         pc' \in Early => pc \in Early \/ o.command = "check",
         Working' => Working /\ (pc' # "compare" => pc # "compare")
  PROVE  Matching'
<1>1. /\ Compared' = Compared /\ Wanted' = Wanted /\ Notes' = Notes
      /\ \A name : SectionOf(name)' = SectionOf(name)
  BY SameRevisions
<1>2. \A name : Accounted(name)' = Accounted(name)
  BY <1>1 DEF Accounted
<1>3. base_rs' = base_rs /\ head_rs' = head_rs
  BY SameRevisions
<1> QED
  BY <1>1, <1>2, <1>3 DEF Matching, Early, SectionOf

\* Comparing is over when there is no name left.
LEMMA MatchingGoesOn ==
  ASSUME Matching, Working, names = <<>>,
         UNCHANGED <<o, base_src, head_src, names, sections, unmatched>>,
         pc' \notin Early, o.command = "diff"
  PROVE  Matching'
<1>1. /\ Compared' = Compared /\ Wanted' = Wanted /\ Notes' = Notes
      /\ \A name : SectionOf(name)' = SectionOf(name)
  BY SameRevisions
<1>2. \A name : Accounted(name)' = Accounted(name)
  BY <1>1 DEF Accounted
<1>3. base_rs' = base_rs /\ head_rs' = head_rs
  BY SameRevisions
<1> QED
  BY <1>1, <1>2, <1>3 DEF Matching, Early, SectionOf

\* Whatever leaves the assertions and the reports alone leaves Evaluating true.
LEMMA EvaluatingKept ==
  ASSUME Evaluating, UNCHANGED <<o, base_src, head_src, read_policy, sections, to_check, assertions>>,
         pc' \in Early \cup {"compare"} => pc \in Early \cup {"compare"} \/ o.command = "check",
         pc' \in {"evaluate", "attest", "report"} \/ (o.command = "diff" /\ Delivered')
           => pc \in {"evaluate", "attest", "report"} \/ (o.command = "diff" /\ Delivered),
         pc' \in {"attest", "report"} \/ (o.command = "diff" /\ Delivered')
           => pc \in {"attest", "report"} \/ (o.command = "diff" /\ Delivered)
  PROVE  Evaluating'
<1>1. /\ Asserted' = Asserted /\ Reports' = Reports /\ Compared' = Compared
      /\ \A a, name : ReportOf(a, name)' = ReportOf(a, name)
  BY SameReports, SameRevisions
<1>2. \A a : Answered(a)' = Answered(a)
  BY <1>1 DEF Answered
<1> QED
  BY <1>1, <1>2 DEF Evaluating, Early

\* Whatever leaves check's list alone leaves Checking true.
LEMMA CheckingKept ==
  ASSUME Checking, UNCHANGED <<o, head_src, chain_at, findings>>,
         pc \in {"check", "exit"} => pc' \in {"check", "exit"},
         exit_code' # 2 => exit_code # 2,
         o.command = "check" /\ Delivered' => o.command = "check" /\ Delivered /\ exit_code' = exit_code
  PROVE  Checking'
<1>1. head_rs' = head_rs /\ \A n : Lines(n)' = Lines(n)
  BY SameLines
<1> QED
  BY <1>1 DEF Checking

\* Nothing is concluded yet, and nothing is now.
Open ==
  pc \in {"load_base", "load_head", "label", "parse", "policy", "table", "check", "compare",
          "evaluate"}

\* Before the verdict there is nothing to conclude.
LEMMA ConcludingOpen ==
  ASSUME Concluding, Open, ~Delivered,
         UNCHANGED <<o, verdict, attested, reported>>,
         Open' \/ pc' = "exit", ~Delivered' \/ o.command # "diff"
  PROVE  Concluding'
<1>1. verdict = -1 /\ attested = {} /\ reported = {}
  BY DEF Concluding, Open
<1> QED
  BY <1>1 DEF Concluding, Open

\* Before anything is matched, evaluated or listed.
LEMMA NoItems == ToSet(<<>>) = {} /\ \A T : <<>> \in Seq(T)
BY DEF ToSet

\* With nothing matched, Matching holds;
LEMMA MatchingNone ==
  ASSUME names' = <<>>, sections' = <<>>, unmatched' = {}, ~Working'
  PROVE  Matching'
BY NoItems DEF Matching

\* with nothing evaluated, Evaluating does;
LEMMA EvaluatingNone ==
  ASSUME to_check' = <<>>, assertions' = <<>>, pc' \notin {"evaluate", "attest", "report"},
         ~(o'.command = "diff" /\ Delivered')
  PROVE  Evaluating'
<1>1. DOMAIN assertions' = {}
  BY EmptySeq
<1> QED
  BY <1>1, NoItems DEF Evaluating

\* about no chain there is no line;
LEMMA NoLines == Lines(0) = {}
<1>1. 1 .. 0 = {}
  OBVIOUS
<1> QED
  BY <1>1 DEF Lines

\* and with nothing listed, Checking does.
LEMMA CheckingNone ==
  ASSUME chain_at' = 1, findings' = <<>>, ~(o'.command = "check" /\ Delivered')
  PROVE  Checking'
<1>1. Lines(0)' = {}
  <2>1. 1 .. 0 = {}
    OBVIOUS
  <2> QED
    BY <2>1 DEF Lines
<1>2. (chain_at - 1)' = 0
  OBVIOUS
<1>3. findings' \in Seq(Lines(chain_at - 1)') /\ ToSet(findings') = Lines(chain_at - 1)'
  BY <1>1, <1>2, NoItems DEF Lines
<1>4. DOMAIN findings' = {}
  BY EmptySeq
<1> QED
  BY <1>3, <1>4 DEF Checking

\* The invariant holds at the start.
LEMMA Started == Init => IInv
<1> SUFFICES ASSUME Init PROVE IInv
  OBVIOUS
<1>1. Len(branch) \in Nat /\ Len(branch) # 0
  BY BranchesAssumption, EmptySeq DEF Init
<1>2. Stages
  BY <1>1, InvocationsAssumption DEF Init, Stages
<1>3. Loaded
  BY DEF Init, Loaded, Analysing, Delivered
<1>4. Matching
  BY NoItems DEF Init, Matching, Working, Delivered
<1>5. Evaluating
  <2>1. assertions = <<>> /\ DOMAIN assertions = {}
    BY EmptySeq DEF Init
  <2> QED
    BY <2>1, NoItems DEF Init, Evaluating, Delivered
<1>6. Concluding
  BY DEF Init, Concluding, Delivered
<1>7. Checking
  <2>1. findings \in Seq(Lines(chain_at - 1)) /\ ToSet(findings) = Lines(chain_at - 1)
    <3>1. chain_at - 1 = 0 /\ findings = <<>>
      BY DEF Init
    <3> QED
      BY <3>1, NoItems, NoLines
  <2>2. DOMAIN findings = {}
    BY EmptySeq DEF Init
  <2> QED
    BY <2>1, <2>2 DEF Init, Checking, Delivered
<1> QED
  BY <1>2, <1>3, <1>4, <1>5, <1>6, <1>7 DEF IInv

(***************************************************************************)
(* Reading the inputs.                                                     *)
(***************************************************************************)
\* While the inputs are read, nothing else has happened.
LEMMA NothingYet ==
  ASSUME IInv, pc \in Early \ {"check"}
  PROVE  /\ names = <<>> /\ sections = <<>> /\ unmatched = {}
         /\ to_check = <<>> /\ assertions = <<>>
         /\ verdict = -1 /\ attested = {} /\ reported = {}
         /\ chain_at = 1 /\ findings = <<>> /\ exit_code = -1
BY DEF IInv, Stages, Matching, Evaluating, Concluding, Checking, Early, Delivered

\* Reading on, or stopping because of an error, keeps it that way.
LEMMA StillNothing ==
  ASSUME IInv, pc \in Early \ {"check"},
         UNCHANGED <<given, compared, evaluated, outputs>>,
         pc' \in Early \/ pc' = "exit", exit_code' \in {-1, 2}
  PROVE  Matching' /\ Evaluating' /\ Concluding' /\ Checking'
<1>1. /\ names' = <<>> /\ sections' = <<>> /\ unmatched' = {}
      /\ to_check' = <<>> /\ assertions' = <<>>
      /\ verdict' = -1 /\ attested' = {} /\ reported' = {}
      /\ chain_at' = 1 /\ findings' = <<>>
  BY NothingYet DEF compared, evaluated, outputs
<1>2. ~Delivered' /\ ~Working' /\ pc' \notin {"evaluate", "attest", "report"}
  BY DEF Delivered, Working, Early
<1>3. Matching' /\ Evaluating' /\ Checking'
  BY <1>1, <1>2, MatchingNone, EvaluatingNone, CheckingNone
<1>4. Concluding'
  BY <1>1, <1>2 DEF Concluding
<1> QED
  BY <1>3, <1>4

\* Reading the base.
LEMMA LoadBaseStep == IInv /\ LoadBase => IInv'
<1> SUFFICES ASSUME IInv, LoadBase PROVE IInv'
  OBVIOUS
<1> USE DEF given, inputs, compared, evaluated, outputs
<1>1. pc = "load_base" /\ pc' = "load_head" /\ exit_code' = exit_code /\ exit_code = -1
      /\ verdict = -1
  BY NothingYet DEF LoadBase, GoOn, Early
<1>2. Stages'
  BY <1>1 DEF IInv, Stages, LoadBase
<1>3. Loaded'
  BY <1>1 DEF IInv, Loaded, Analysing, Delivered, LoadBase
<1>4. Matching' /\ Evaluating' /\ Concluding' /\ Checking'
  BY <1>1, StillNothing DEF LoadBase, Early
<1> QED
  BY <1>2, <1>3, <1>4 DEF IInv

\* Reading the head, where the branch is now.
LEMMA LoadHeadStep == IInv /\ LoadHead => IInv'
<1> SUFFICES ASSUME IInv, LoadHead PROVE IInv'
  OBVIOUS
<1> USE DEF given, inputs, compared, evaluated, outputs
<1>1. pc = "load_head" /\ pc' \in {"parse", "label"} /\ exit_code' = exit_code /\ exit_code = -1
      /\ verdict = -1
  BY NothingYet DEF LoadHead, GoOn, Early
<1>2. Stages'
  BY <1>1 DEF IInv, Stages, LoadHead
<1>3. branch[tip] \in ToSet(branch)
  <2>1. branch \in Seq(Texts) /\ tip \in 1 .. Len(branch)
    BY BranchesAssumption DEF IInv, Stages
  <2> QED
    BY <2>1 DEF ToSet
<1>4. Loaded'
  BY <1>1, <1>3 DEF IInv, Loaded, Analysing, Delivered, LoadHead
<1>5. Matching' /\ Evaluating' /\ Concluding' /\ Checking'
  BY <1>1, StillNothing DEF LoadHead, Early
<1> QED
  BY <1>2, <1>4, <1>5 DEF IInv

\* Naming the head, where the branch is by then.
LEMMA LabelHeadStep == IInv /\ LabelHead => IInv'
<1> SUFFICES ASSUME IInv, LabelHead PROVE IInv'
  OBVIOUS
<1> USE DEF given, inputs, compared, evaluated, outputs
<1>1. pc = "label" /\ pc' = "parse" /\ exit_code' = exit_code /\ exit_code = -1
      /\ verdict = -1
  BY NothingYet DEF LabelHead, GoOn, Early
<1>2. Len(branch) \in Nat
  BY BranchesAssumption DEF IInv, Stages
<1>3. Stages'
  BY <1>1, <1>2 DEF IInv, Stages, LabelHead
<1>4. Loaded'
  BY <1>1 DEF IInv, Loaded, Analysing, Delivered, LabelHead
<1>5. Matching' /\ Evaluating' /\ Concluding' /\ Checking'
  BY <1>1, StillNothing DEF LabelHead, Early
<1> QED
  BY <1>3, <1>4, <1>5 DEF IInv

\* A read that fails.
LEMMA CannotReadStep == IInv /\ CannotRead => IInv'
<1> SUFFICES ASSUME IInv, CannotRead PROVE IInv'
  OBVIOUS
<1> USE DEF given, inputs, compared, evaluated, outputs
<1>1. pc \in {"load_base", "load_head", "policy"} /\ pc' = "exit" /\ exit_code' = 2
      /\ verdict = -1
  BY NothingYet DEF CannotRead, Abort, Early
<1>2. Stages'
  BY <1>1 DEF IInv, Stages, CannotRead
<1>3. Loaded'
  BY <1>1 DEF IInv, Loaded, Analysing, Delivered, CannotRead
<1>4. Matching' /\ Evaluating' /\ Concluding' /\ Checking'
  BY <1>1, StillNothing DEF CannotRead, Early
<1> QED
  BY <1>2, <1>3, <1>4 DEF IInv

\* Both texts are taken or the run ends.
LEMMA ParseStep == IInv /\ Parse => IInv'
<1> SUFFICES ASSUME IInv, Parse PROVE IInv'
  OBVIOUS
<1> USE DEF given, inputs, compared, evaluated, outputs
<1>1. /\ pc = "parse" /\ exit_code = -1 /\ verdict = -1
      /\ \/ pc' = "exit" /\ exit_code' = 2
         \/ /\ Rejected \notin base_src \cup head_src /\ exit_code' = -1
            /\ pc' = IF o.command = "diff" THEN "policy" ELSE "table"
  BY NothingYet DEF Parse, Abort, GoOn, Early
<1>2. Stages'
  BY <1>1 DEF IInv, Stages, Parse
<1>3. Loaded'
  BY <1>1 DEF IInv, Loaded, Analysing, Delivered, Parse
<1>4. Matching' /\ Evaluating' /\ Concluding' /\ Checking'
  BY <1>1, StillNothing DEF Parse, Early
<1> QED
  BY <1>2, <1>3, <1>4 DEF IInv

\* The assertion file is read whole or the run ends.
LEMMA LoadPolicyStep == IInv /\ LoadPolicy => IInv'
<1> SUFFICES ASSUME IInv, LoadPolicy PROVE IInv'
  OBVIOUS
<1> USE DEF given, inputs, compared, evaluated, outputs
<1> DEFINE read == UNION {parse_policy(doc) : doc \in assert_file}
<1>1. /\ pc = "policy" /\ exit_code = -1 /\ verdict = -1
      /\ \/ pc' = "exit" /\ exit_code' = 2
         \/ ~(assert_file # {} /\ read_policy' = {}) /\ pc' = "table" /\ exit_code' = -1
  BY NothingYet DEF LoadPolicy, Abort, GoOn, Early, Refused
<1>2. Stages'
  BY <1>1 DEF IInv, Stages, LoadPolicy
<1>3. read_policy' = read /\ assert_file' = assert_file
  BY DEF LoadPolicy
<1> HIDE DEF read
<1>4. Loaded'
  BY <1>1, <1>3 DEF IInv, Loaded, Analysing, Delivered, LoadPolicy, read
<1>5. Matching' /\ Evaluating' /\ Concluding' /\ Checking'
  BY <1>1, StillNothing DEF LoadPolicy, Early
<1> QED
  BY <1>2, <1>4, <1>5 DEF IInv

\* The shared table is too small.
LEMMA TooManyInterfacesStep == IInv /\ TooManyInterfaces => IInv'
<1> SUFFICES ASSUME IInv, TooManyInterfaces PROVE IInv'
  OBVIOUS
<1> USE DEF given, inputs, compared, evaluated, outputs
<1>1. pc = "table" /\ pc' = "exit" /\ exit_code' = 2
  BY DEF TooManyInterfaces, Abort
<1>2. Stages'
  BY <1>1 DEF IInv, Stages, TooManyInterfaces
<1>3. Loaded'
  BY <1>1 DEF IInv, Loaded, Analysing, Delivered, TooManyInterfaces
<1>4. Matching' /\ Evaluating' /\ Concluding' /\ Checking'
  BY <1>1, StillNothing DEF TooManyInterfaces, Early
<1> QED
  BY <1>2, <1>3, <1>4 DEF IInv

\* From the table on, the inputs and what was read from them stay.
LEMMA LoadedKept ==
  ASSUME Loaded, UNCHANGED <<o, assert_file, branch, base_src, head_src, read_policy>>,
         pc \in {"table", "check", "compare", "evaluate", "attest", "report"},
         pc' \in {"table", "check", "compare", "evaluate", "attest", "report", "exit"}
  PROVE  Loaded'
BY DEF Loaded, Analysing, Delivered

(***************************************************************************)
(* Matching and comparing chains.                                          *)
(***************************************************************************)
\* An action that goes on to neither a verdict nor a conclusion.
LEMMA StagesKept ==
  ASSUME Stages, UNCHANGED <<given, tip, head_label, verdict>>,
         \/ pc' \in {"compare", "evaluate"} /\ exit_code' = -1 /\ o.command = "diff"
         \/ pc' = "check" /\ exit_code' = -1 /\ o.command = "check"
         \/ pc' = "exit" /\ exit_code' = 2
  PROVE  Stages'
BY DEF Stages, given

\* The names put in the list are those the run is about.
LEMMA NamesToCompare ==
  ASSUME NEW rs, NEW other, NEW only
  PROVE  LET listed == {k \in DOMAIN ChainNames : Listed(rs, other, only, ChainNames[k])}
         IN  /\ Picked(ChainNames, listed) \in Seq(ToSet(ChainNames))
             /\ ToSet(Picked(ChainNames, listed))
                  = {name \in ToSet(ChainNames) : Listed(rs, other, only, name)}
<1> DEFINE listed == {k \in DOMAIN ChainNames : Listed(rs, other, only, ChainNames[k])}
<1>1. ChainNames \in Seq(ToSet(ChainNames)) /\ listed \in SUBSET (DOMAIN ChainNames)
  BY ChainNamesAssumption
<1>2. /\ Picked(ChainNames, listed) \in Seq(ToSet(ChainNames))
      /\ ToSet(Picked(ChainNames, listed)) = {ChainNames[k] : k \in listed}
  BY <1>1, PickedSet
<1>3. {ChainNames[k] : k \in listed}
        = {name \in ToSet(ChainNames) : Listed(rs, other, only, name)}
  BY DEF ToSet
<1> QED
  BY <1>2, <1>3

\* The list of names is made.
LEMMA MatchChainsStep == IInv /\ MatchChains => IInv'
<1> SUFFICES ASSUME IInv, MatchChains PROVE IInv'
  OBVIOUS
<1> USE DEF given, inputs, compared, evaluated, outputs
<1>1. /\ pc = "table" /\ o.command = "diff" /\ exit_code = -1
      /\ \/ pc' = "exit" /\ exit_code' = 2
         \/ pc' = "compare" /\ exit_code' = -1
  BY NothingYet DEF MatchChains, Abort, GoOn, Early
<1>2. /\ sections = <<>> /\ unmatched = {} /\ to_check = <<>> /\ assertions = <<>>
      /\ verdict = -1 /\ attested = {} /\ reported = {} /\ chain_at = 1 /\ findings = <<>>
  BY <1>1, NothingYet DEF Early
<1>3. Stages' /\ Loaded'
  BY <1>1, StagesKept, LoadedKept DEF IInv, MatchChains
<1>4. Matching'
  <2>1. names' \in Seq(ToSet(ChainNames)) /\ ToSet(names') = Wanted
    <3> DEFINE listed == {k \in DOMAIN ChainNames : Listed(base_rs, head_rs, o.only, ChainNames[k])}
    <3>1. names' = Picked(ChainNames, listed)
      BY DEF MatchChains
    <3>2. /\ Picked(ChainNames, listed) \in Seq(ToSet(ChainNames))
          /\ ToSet(Picked(ChainNames, listed))
               = {name \in ToSet(ChainNames) : Listed(base_rs, head_rs, o.only, name)}
      BY NamesToCompare
    <3> HIDE DEF listed
    <3> QED
      BY <3>1, <3>2 DEF Wanted
  <2>2. Wanted' = Wanted
    BY SameRevisions DEF MatchChains
  <2>3. sections' = <<>> /\ unmatched' = {} /\ o' = o
    BY <1>2 DEF MatchChains
  <2>4. DOMAIN sections' = {}
    BY <2>3, EmptySeq
  <2> QED
    BY <1>1, <2>1, <2>2, <2>3, <2>4, NoItems DEF Matching, Working, Delivered
<1>5. Evaluating' /\ Checking'
  BY <1>1, <1>2, EvaluatingNone, CheckingNone DEF MatchChains, Delivered
<1>6. Concluding'
  BY <1>1, <1>2 DEF Concluding, MatchChains, Delivered
<1> QED
  BY <1>3, <1>4, <1>5, <1>6 DEF IInv

\* Which notes there should be.
LEMMA NotesOf ==
  ASSUME NEW name
  PROVE  /\ Note(name, "removed") \in Notes <=> name \in Wanted /\ Named(head_rs, name) = {}
         /\ Note(name, "added") \in Notes <=> name \in Wanted /\ Named(base_rs, name) = {}
BY DEF Note, Notes

\* While chains are compared, nothing later has happened.
LEMMA NotEvaluated ==
  ASSUME IInv, pc \in {"compare", "check"}
  PROVE  /\ to_check = <<>> /\ assertions = <<>> /\ exit_code = -1
         /\ verdict = -1 /\ attested = {} /\ reported = {}
         /\ o.command = "diff" => chain_at = 1 /\ findings = <<>>
BY DEF IInv, Stages, Evaluating, Concluding, Checking, Delivered

\* One name becomes a section, a note, or an error of the self-check.
LEMMA CompareChainStep == IInv /\ CompareChain => IInv'
<1> SUFFICES ASSUME IInv, CompareChain PROVE IInv'
  OBVIOUS
<1> USE DEF given, inputs, compared, evaluated, outputs
<1> DEFINE name == Head(names)
           section == SectionOf(name)
<1>1. /\ pc = "compare" /\ o.command = "diff" /\ exit_code = -1
      /\ names # <<>> /\ names' = Tail(names)
      /\ UNCHANGED <<given, tip, inputs, evaluated, outputs>>
  BY NotEvaluated DEF CompareChain, IInv, Stages
<1>2. /\ to_check = <<>> /\ assertions = <<>> /\ verdict = -1 /\ attested = {} /\ reported = {}
      /\ chain_at = 1 /\ findings = <<>>
  BY <1>1, NotEvaluated
<1>3. \/ /\ Named(base_rs, name) # {} /\ Named(head_rs, name) # {} /\ unmatched' = unmatched
         /\ \/ pc' = "exit" /\ exit_code' = 2 /\ sections' = sections
            \/ pc' = pc /\ exit_code' = exit_code /\ sections' = Append(sections, section)
      \/ /\ Named(head_rs, name) = {} /\ unmatched' = unmatched \cup {Note(name, "removed")}
         /\ pc' = pc /\ exit_code' = exit_code /\ sections' = sections
      \/ /\ Named(base_rs, name) = {} /\ unmatched' = unmatched \cup {Note(name, "added")}
         /\ pc' = pc /\ exit_code' = exit_code /\ sections' = sections
  BY DEF CompareChain, Abort, SectionOf, Note
<1>4. Stages' /\ Loaded'
  BY <1>1, <1>3, StagesKept, LoadedKept DEF IInv
<1>5. /\ names \in Seq(ToSet(ChainNames)) /\ ToSet(names) \subseteq Wanted
      /\ sections \in Seq(ToSet(sections))
      /\ \A k \in DOMAIN sections :
           sections[k].name \in Compared /\ sections[k] = SectionOf(sections[k].name)
      /\ unmatched \subseteq Notes
      /\ \A n \in Wanted : n \in ToSet(names) \/ Accounted(n)
  BY <1>1 DEF IInv, Matching, Working
<1>6. /\ Tail(names) \in Seq(ToSet(ChainNames)) /\ name \in ToSet(ChainNames)
      /\ ToSet(names) = {name} \cup ToSet(Tail(names))
  BY <1>1, <1>5, TailSet
<1>7. name \in Wanted
  BY <1>5, <1>6
<1>8. (name \in Compared <=> Named(base_rs, name) # {} /\ Named(head_rs, name) # {})
      /\ (Named(base_rs, name) # {} \/ Named(head_rs, name) # {})
  BY <1>7 DEF Wanted, Listed, Compared
<1>9. section.name = name
  BY DEF SectionOf
<1>10. /\ Append(sections, section) \in Seq(ToSet(Append(sections, section)))
       /\ \A k \in DOMAIN Append(sections, section) :
            \/ k \in DOMAIN sections /\ Append(sections, section)[k] = sections[k]
            \/ Append(sections, section)[k] = section
       /\ \A k \in DOMAIN sections :
            /\ k \in DOMAIN Append(sections, section)
            /\ Append(sections, section)[k] = sections[k]
       /\ \E k \in DOMAIN Append(sections, section) : Append(sections, section)[k] = section
  BY <1>5, AppendPlaces
<1>11. /\ Compared' = Compared /\ Wanted' = Wanted /\ Notes' = Notes
       /\ base_rs' = base_rs /\ head_rs' = head_rs
  BY <1>1, SameRevisions
<1> HIDE DEF section
<1>12. /\ sections' \in Seq(ToSet(sections'))
       /\ \A k \in DOMAIN sections' :
            sections'[k].name \in Compared /\ sections'[k] = SectionOf(sections'[k].name)
       /\ \A k \in DOMAIN sections : k \in DOMAIN sections' /\ sections'[k] = sections[k]
  <2>1. CASE sections' = sections
    BY <1>5, <2>1
  <2>2. CASE sections' = Append(sections, section) /\ name \in Compared
    BY <1>5, <1>9, <1>10, <2>2 DEF section
  <2> QED
    BY <1>3, <1>8, <2>1, <2>2
<1>13. unmatched' \subseteq Notes /\ unmatched \subseteq unmatched'
  BY <1>3, <1>5, <1>7, NotesOf
<1>14. ASSUME NEW n \in Wanted, pc' # "exit" PROVE n \in ToSet(names') \/ Accounted(n)'
  <2>1. CASE n # name /\ n \notin ToSet(names')
    <3>1. Accounted(n)
      BY <1>1, <1>5, <1>6, <2>1
    <3> QED
      BY <1>11, <1>12, <1>13, <3>1 DEF Accounted
  <2>2. CASE n = name
    <3>1. n \in Compared => \E k \in DOMAIN sections' : sections'[k].name = n
      BY <1>3, <1>8, <1>9, <1>10, <1>14, <2>2
    <3>2. \A what \in {"removed", "added"} : Note(n, what) \in Notes => Note(n, what) \in unmatched'
      BY <1>3, <1>8, <2>2, NotesOf
    <3> QED
      BY <1>11, <3>1, <3>2 DEF Accounted
  <2> QED
    BY <2>1, <2>2
<1>15. Matching'
  <2>1. names' \in Seq(ToSet(ChainNames)) /\ ToSet(names') \subseteq Wanted
    BY <1>1, <1>5, <1>6
  <2>2. pc' \in {"compare", "exit"} /\ (pc' = "exit" => exit_code' = 2) /\ o' = o
    BY <1>1, <1>3
  <2>3. Working' => pc' = "compare"
    BY <2>2 DEF Working, Delivered
  <2>4. \A k \in DOMAIN sections' :
          sections'[k].name \in Compared' /\ sections'[k] = SectionOf(sections'[k].name)
    BY <1>11, <1>12
  <2> QED
    BY <1>1, <1>11, <1>12, <1>13, <1>14, <2>1, <2>2, <2>3, <2>4 DEF Matching, SectionOf
<1>16. Evaluating' /\ Checking'
  BY <1>1, <1>2, <1>3, EvaluatingNone, CheckingNone DEF Delivered
<1>17. Concluding'
  BY <1>1, <1>2, <1>3 DEF Concluding, Delivered
<1> QED
  BY <1>4, <1>15, <1>16, <1>17 DEF IInv

(***************************************************************************)
(* Evaluating the assertions and deciding.                                 *)
(***************************************************************************)
\* What a document that is not refused is read as.
LEMMA ParsedPolicy ==
  ASSUME NEW doc, NEW p \in parse_policy(doc)
  PROVE  /\ parse_policy(doc) = {p}
         /\ parse_zones(doc) # Refused /\ p.zones = The(parse_zones(doc))
         /\ "assert" \notin DOMAIN doc => p.assertions = <<>>
         /\ "assert" \in DOMAIN doc =>
              /\ doc["assert"].type = "array"
              /\ \A k \in DOMAIN doc["assert"].of :
                   doc["assert"].of[k].type = "table" /\ ~malformed(p.zones, Tables(doc)[k])
              /\ p.assertions =
                   [k \in DOMAIN Tables(doc) |-> AssertionOf(p.zones, Tables(doc)[k])]
<1> DEFINE zones == The(parse_zones(doc))
           answers == [k \in DOMAIN Tables(doc) |-> AssertionOf(zones, Tables(doc)[k])]
           wrong == \/ doc["assert"].type # "array"
                    \/ \E k \in DOMAIN doc["assert"].of : doc["assert"].of[k].type # "table"
                    \/ \E k \in DOMAIN doc["assert"].of : malformed(zones, Tables(doc)[k])
<1>1. CASE parse_zones(doc) = Refused
  BY <1>1 DEF parse_policy, Refused
<1>2. CASE parse_zones(doc) # Refused /\ "assert" \notin DOMAIN doc
  <2>1. parse_policy(doc) = {[zones |-> zones, assertions |-> <<>>]}
    BY <1>2 DEF parse_policy
  <2> QED
    BY <1>2, <2>1
<1>3. CASE parse_zones(doc) # Refused /\ "assert" \in DOMAIN doc
  <2>1. parse_policy(doc) = IF wrong THEN Refused ELSE {[zones |-> zones, assertions |-> answers]}
    BY <1>3 DEF parse_policy
  <2>2. ~wrong /\ p = [zones |-> zones, assertions |-> answers] /\ parse_policy(doc) = {p}
    <3> HIDE DEF wrong
    <3> QED
      BY <2>1 DEF Refused
  <2>3. p.zones = zones /\ p.assertions = answers
    BY <2>2
  <2> QED
    BY <1>3, <2>2, <2>3
<1> QED
  BY <1>1, <1>2, <1>3

\* The policy there is, if any, is that of the one document.
LEMMA PolicyOf ==
  ASSUME Stages, Loaded, read_policy # {}
  PROVE  \E doc \in assert_file :
           /\ assert_file = {doc} /\ read_policy = parse_policy(doc)
           /\ The(read_policy) \in parse_policy(doc)
<1>1. read_policy = UNION {parse_policy(doc) : doc \in assert_file}
  BY DEF Loaded
<1>2. PICK doc \in assert_file : parse_policy(doc) # {}
  BY <1>1
<1>3. assert_file = {doc}
  BY <1>2, PoliciesAssumption DEF Stages
<1>4. read_policy = parse_policy(doc)
  BY <1>1, <1>3
<1>5. The(read_policy) \in read_policy
  BY DEF The
<1> QED
  BY <1>2, <1>3, <1>4, <1>5

\* Its assertions are a list.
LEMMA AssertionList ==
  ASSUME Stages, Loaded, read_policy # {}
  PROVE  The(read_policy).assertions \in Seq(ToSet(The(read_policy).assertions))
<1> DEFINE list == The(read_policy).assertions
<1>1. PICK doc \in assert_file : The(read_policy) \in parse_policy(doc)
  BY PolicyOf
<1>2. CASE "assert" \notin DOMAIN doc
  <2>1. list = <<>>
    BY <1>1, <1>2, ParsedPolicy
  <2> QED
    BY <2>1, NoItems
<1>3. CASE "assert" \in DOMAIN doc
  <2>1. /\ doc["assert"].type = "array"
        /\ list = [k \in DOMAIN Tables(doc) |-> AssertionOf(The(read_policy).zones, Tables(doc)[k])]
    BY <1>1, <1>3, ParsedPolicy
  <2>2. doc["assert"].of \in Seq(ToSet(doc["assert"].of))
    BY <1>1, <1>3, <2>1, PoliciesAssumption DEF Stages
  <2>3. DOMAIN Tables(doc) = 1 .. Len(doc["assert"].of) /\ Len(doc["assert"].of) \in Nat
    BY <2>2 DEF Tables
  <2> HIDE DEF list
  <2>4. DOMAIN list = 1 .. Len(doc["assert"].of) /\ list = [k \in 1 .. Len(doc["assert"].of) |-> list[k]]
    BY <2>1, <2>3 DEF list
  <2>5. \A k \in 1 .. Len(doc["assert"].of) : list[k] \in ToSet(list)
    BY <2>4 DEF ToSet
  <2> QED
    BY <2>3, <2>4, <2>5 DEF list
<1> QED
  BY <1>2, <1>3

\* The assertions are queued.
LEMMA EndCompareStep == IInv /\ EndCompare => IInv'
<1> SUFFICES ASSUME IInv, EndCompare PROVE IInv'
  OBVIOUS
<1> USE DEF given, inputs, compared, evaluated, outputs
<1>1. /\ pc = "compare" /\ o.command = "diff" /\ exit_code = -1 /\ exit_code' = exit_code
      /\ names = <<>> /\ pc' = "evaluate"
      /\ UNCHANGED <<given, tip, inputs, compared, assertions, verdict, outputs>>
      /\ to_check' = IF read_policy = {} THEN <<>> ELSE The(read_policy).assertions
  BY NotEvaluated DEF EndCompare, IInv, Stages, GoOn
<1>2. /\ assertions = <<>> /\ verdict = -1 /\ attested = {} /\ reported = {}
      /\ chain_at = 1 /\ findings = <<>>
  BY <1>1, NotEvaluated
<1>3. Stages' /\ Loaded'
  BY <1>1, StagesKept, LoadedKept DEF IInv
<1>4. Matching'
  <2>1. pc' \notin Early /\ Working
    BY <1>1 DEF Early, Working
  <2> QED
    BY <1>1, <2>1, MatchingGoesOn DEF IInv
<1>5. Evaluating'
  <2>1. to_check' \in Seq(Asserted) /\ ToSet(to_check') = Asserted
    <3>1. CASE read_policy = {}
      BY <1>1, <3>1, NoItems DEF Asserted
    <3>2. CASE read_policy # {}
      BY <1>1, <3>2, AssertionList DEF Asserted, IInv
    <3> QED
      BY <3>1, <3>2
  <2>2. Asserted' = Asserted
    BY <1>1, SameReports
  <2>3. DOMAIN assertions' = {} /\ assertions' = <<>>
    BY <1>1, <1>2, EmptySeq
  <2> QED
    BY <1>1, <2>1, <2>2, <2>3, NoItems DEF Evaluating, Delivered
<1>6. Concluding'
  BY <1>1, <1>2 DEF Concluding, Delivered
<1>7. Checking'
  BY <1>1, <1>2, CheckingNone DEF Delivered
<1> QED
  BY <1>3, <1>4, <1>5, <1>6, <1>7 DEF IInv

\* While assertions are evaluated, every chain there is has been compared.
LEMMA WhileEvaluating ==
  ASSUME IInv, pc = "evaluate"
  PROVE  /\ o.command = "diff" /\ exit_code = -1 /\ verdict = -1 /\ names = <<>>
         /\ attested = {} /\ reported = {} /\ chain_at = 1 /\ findings = <<>>
         /\ sections \in Seq(ToSet(sections))
         /\ \A k \in DOMAIN sections :
              sections[k].name \in Compared /\ sections[k] = SectionOf(sections[k].name)
         /\ \A name \in Compared : \E k \in DOMAIN sections : sections[k].name = name
<1>1. /\ o.command = "diff" /\ exit_code = -1 /\ verdict = -1 /\ names = <<>>
      /\ attested = {} /\ reported = {} /\ chain_at = 1 /\ findings = <<>>
  BY DEF IInv, Stages, Matching, Working, Concluding, Checking, Delivered
<1>2. \A name \in Compared : name \in Wanted
  BY DEF Compared, Wanted, Listed
<1>3. \A name \in Wanted : Accounted(name)
  BY <1>1, NoItems DEF IInv, Matching, Working
<1> QED
  BY <1>1, <1>2, <1>3 DEF IInv, Matching, Accounted

\* The reports of one assertion: one on each compared chain it is about.
LEMMA ReportsOf ==
  ASSUME IInv, pc = "evaluate", NEW a
  PROVE  LET targets == Targets(a, sections)
             reports == [k \in DOMAIN targets |->
                           [assertion |-> a, chain |-> targets[k].name,
                            outcome |-> check(The(read_policy), targets[k].hm, a)]]
         IN  /\ reports \in Seq(ToSet(reports))
             /\ \A k \in DOMAIN reports :
                  \E name \in Compared : Concerns(a, name) /\ reports[k] = ReportOf(a, name)
             /\ \A name \in Compared :
                  Concerns(a, name) => \E k \in DOMAIN reports : reports[k] = ReportOf(a, name)
<1> DEFINE targets == Targets(a, sections)
           report(k) == [assertion |-> a, chain |-> targets[k].name,
                         outcome |-> check(The(read_policy), targets[k].hm, a)]
           reports == [k \in DOMAIN targets |-> report(k)]
           P == {k \in DOMAIN sections : a.chain = {} \/ sections[k].name \in a.chain}
<1>1. /\ sections \in Seq(ToSet(sections))
      /\ \A k \in DOMAIN sections :
           sections[k].name \in Compared /\ sections[k] = SectionOf(sections[k].name)
      /\ \A name \in Compared : \E k \in DOMAIN sections : sections[k].name = name
  BY WhileEvaluating
<1>2. P \in SUBSET (DOMAIN sections) /\ targets = Picked(sections, P)
  BY DEF Targets
<1>3. targets \in Seq(ToSet(sections)) /\ ToSet(targets) = {sections[k] : k \in P}
  BY <1>1, <1>2, PickedSet
<1> HIDE DEF targets
<1>4. \A k \in DOMAIN targets :
        \E name \in Compared : Concerns(a, name) /\ targets[k] = SectionOf(name)
  <2> SUFFICES ASSUME NEW k \in DOMAIN targets
               PROVE  \E name \in Compared : Concerns(a, name) /\ targets[k] = SectionOf(name)
    OBVIOUS
  <2>1. targets[k] \in ToSet(targets)
    BY DEF ToSet
  <2>2. PICK j \in P : targets[k] = sections[j]
    BY <1>3, <2>1
  <2> QED
    BY <1>1, <2>2 DEF Concerns
<1>5. \A name \in Compared :
        Concerns(a, name) => \E k \in DOMAIN targets : targets[k] = SectionOf(name)
  <2> SUFFICES ASSUME NEW name \in Compared, Concerns(a, name)
               PROVE  \E k \in DOMAIN targets : targets[k] = SectionOf(name)
    OBVIOUS
  <2>1. PICK j \in DOMAIN sections : sections[j].name = name
    BY <1>1
  <2>2. sections[j] = SectionOf(name) /\ j \in P
    BY <1>1, <2>1 DEF Concerns
  <2>3. SectionOf(name) \in ToSet(targets)
    BY <1>3, <2>2
  <2> QED
    BY <2>3 DEF ToSet
<1>6. \A k, name : targets[k] = SectionOf(name) => report(k) = ReportOf(a, name)
  BY DEF SectionOf, ReportOf
<1>7. DOMAIN targets = 1 .. Len(targets) /\ Len(targets) \in Nat
  BY <1>3
<1> HIDE DEF report
<1>8. DOMAIN reports = DOMAIN targets /\ \A k \in DOMAIN targets : reports[k] = report(k)
  OBVIOUS
<1>9. reports = [k \in 1 .. Len(targets) |-> reports[k]]
  BY <1>7
<1> HIDE DEF reports
<1>10. reports \in Seq(ToSet(reports))
  BY <1>7, <1>8, <1>9 DEF ToSet
<1>11. /\ \A k \in DOMAIN reports :
            \E name \in Compared : Concerns(a, name) /\ reports[k] = ReportOf(a, name)
       /\ \A name \in Compared :
            Concerns(a, name) => \E k \in DOMAIN reports : reports[k] = ReportOf(a, name)
  BY <1>4, <1>5, <1>6, <1>8
<1> QED
  BY <1>10, <1>11 DEF reports, targets, report

\* One assertion is answered on every compared chain it is about.
LEMMA EvaluateAssertionStep == IInv /\ EvaluateAssertion => IInv'
<1> SUFFICES ASSUME IInv, EvaluateAssertion PROVE IInv'
  OBVIOUS
<1> USE DEF given, inputs, compared, evaluated, outputs
<1> DEFINE a == Head(to_check)
           targets == Targets(a, sections)
           reports == [k \in DOMAIN targets |->
                         [assertion |-> a, chain |-> targets[k].name,
                          outcome |-> check(The(read_policy), targets[k].hm, a)]]
<1>1. /\ pc = "evaluate" /\ to_check # <<>> /\ to_check' = Tail(to_check)
      /\ UNCHANGED <<given, tip, inputs, compared, verdict, outputs>>
  BY DEF EvaluateAssertion
<1>2. \/ pc' = "exit" /\ exit_code' = 2 /\ assertions' = assertions
      \/ pc' = pc /\ exit_code' = exit_code /\ assertions' = assertions \o reports
  BY DEF EvaluateAssertion, Abort
<1>3. /\ o.command = "diff" /\ exit_code = -1 /\ verdict = -1 /\ names = <<>>
      /\ attested = {} /\ reported = {} /\ chain_at = 1 /\ findings = <<>>
  BY <1>1, WhileEvaluating
<1>4. /\ reports \in Seq(ToSet(reports))
      /\ \A k \in DOMAIN reports :
           \E name \in Compared : Concerns(a, name) /\ reports[k] = ReportOf(a, name)
      /\ \A name \in Compared :
           Concerns(a, name) => \E k \in DOMAIN reports : reports[k] = ReportOf(a, name)
  BY <1>1, ReportsOf
<1> HIDE DEF a, reports
<1>5. /\ to_check \in Seq(Asserted) /\ assertions \in Seq(ToSet(assertions))
      /\ \A k \in DOMAIN assertions :
           /\ assertions[k] \in Reports
           /\ \E l \in DOMAIN sections : sections[l].name = assertions[k].chain
      /\ \A b \in Asserted : b \in ToSet(to_check) \/ Answered(b)
  BY <1>1 DEF IInv, Evaluating
<1>6. /\ a \in Asserted /\ Tail(to_check) \in Seq(Asserted)
      /\ ToSet(to_check) = {a} \cup ToSet(Tail(to_check))
  BY <1>1, <1>5, TailSet DEF a
<1>7. Stages' /\ Loaded'
  BY <1>1, <1>2, <1>3, StagesKept, LoadedKept DEF IInv
<1>8. Matching'
  <2>1. pc' \notin Early /\ Working
    BY <1>1, <1>2 DEF Early, Working
  <2> QED
    BY <1>1, <1>3, <2>1, MatchingGoesOn DEF IInv
<1>9. /\ Asserted' = Asserted /\ Reports' = Reports /\ Compared' = Compared
      /\ \A b, name : ReportOf(b, name)' = ReportOf(b, name)
  BY <1>1, SameReports, SameRevisions
<1>10. Evaluating'
  <2>1. CASE pc' = "exit" /\ exit_code' = 2 /\ assertions' = assertions
    BY <1>1, <1>3, <1>5, <1>6, <1>9, <2>1 DEF Evaluating, Delivered
  <2>2. CASE pc' = pc /\ exit_code' = exit_code /\ assertions' = assertions \o reports
    <3> DEFINE all == assertions \o reports
    <3>1. /\ all \in Seq(ToSet(all))
          /\ \A k \in DOMAIN all :
               \/ k \in DOMAIN assertions /\ all[k] = assertions[k]
               \/ k - Len(assertions) \in DOMAIN reports /\ all[k] = reports[k - Len(assertions)]
          /\ \A k \in DOMAIN assertions : k \in DOMAIN all /\ all[k] = assertions[k]
          /\ \A k \in DOMAIN reports :
               k + Len(assertions) \in DOMAIN all /\ all[k + Len(assertions)] = reports[k]
      BY <1>4, <1>5, ConcatPlaces
    <3> HIDE DEF all
    <3>2. \A name \in Compared : Concerns(a, name) => ReportOf(a, name) \in Reports
      BY <1>6 DEF Reports
    <3>3. \A k \in DOMAIN all :
            all[k] \in Reports /\ \E l \in DOMAIN sections : sections[l].name = all[k].chain
      <4>1. \A name \in Compared : \E l \in DOMAIN sections : sections[l].name = name
        BY <1>1, WhileEvaluating
      <4>2. \A name : ReportOf(a, name).chain = name
        BY DEF ReportOf
      <4>3. \A k \in DOMAIN reports :
              /\ reports[k] \in Reports
              /\ \E l \in DOMAIN sections : sections[l].name = reports[k].chain
        BY <1>4, <3>2, <4>1, <4>2
      <4> SUFFICES ASSUME NEW k \in DOMAIN all
                   PROVE  /\ all[k] \in Reports
                          /\ \E l \in DOMAIN sections : sections[l].name = all[k].chain
        OBVIOUS
      <4>4. CASE k \in DOMAIN assertions /\ all[k] = assertions[k]
        BY <1>5, <4>4
      <4>5. CASE k - Len(assertions) \in DOMAIN reports /\ all[k] = reports[k - Len(assertions)]
        BY <4>3, <4>5
      <4> QED
        BY <3>1, <4>4, <4>5
    <3>4. assertions' = all /\ pc' = "evaluate"
      BY <1>1, <2>2 DEF all
    <3>5. ASSUME NEW b \in Asserted PROVE b \in ToSet(Tail(to_check)) \/ Answered(b)'
      <4>1. CASE b = a
        BY <1>4, <1>9, <3>1, <3>4, <4>1 DEF Answered
      <4>2. CASE Answered(b)
        BY <1>9, <3>1, <3>4, <4>2 DEF Answered
      <4> QED
        BY <1>5, <1>6, <4>1, <4>2
    <3> QED
      BY <1>1, <1>3, <1>6, <1>9, <2>2, <3>1, <3>3, <3>4, <3>5 DEF Evaluating, Delivered
  <2> QED
    BY <1>2, <2>1, <2>2
<1>11. Concluding'
  BY <1>1, <1>2, <1>3 DEF Concluding, Delivered
<1>12. Checking'
  BY <1>1, <1>3, CheckingNone DEF Delivered
<1> QED
  BY <1>7, <1>8, <1>10, <1>11, <1>12 DEF IInv

\* The verdict is what the options say of the reports and sections.
LEMMA DecideStep == IInv /\ Decide => IInv'
<1> SUFFICES ASSUME IInv, Decide PROVE IInv'
  OBVIOUS
<1> USE DEF given, inputs, compared, evaluated, outputs
<1>1. /\ pc = "evaluate" /\ to_check = <<>> /\ exit_code' = exit_code
      /\ pc' = IF o.attest THEN "attest" ELSE "report"
      /\ verdict' = IF GateFails(o) THEN 1 ELSE 0
      /\ UNCHANGED <<given, tip, inputs, compared, to_check, assertions, outputs>>
  BY DEF Decide, GoOn
<1>2. /\ o.command = "diff" /\ exit_code = -1 /\ verdict = -1 /\ names = <<>>
      /\ attested = {} /\ reported = {} /\ chain_at = 1 /\ findings = <<>>
  BY <1>1, WhileEvaluating
<1>3. Stages'
  BY <1>1, <1>2 DEF IInv, Stages
<1>4. Loaded'
  BY <1>1, LoadedKept DEF IInv
<1>5. Matching'
  <2>1. pc' \notin Early /\ Working
    BY <1>1 DEF Early, Working
  <2> QED
    BY <1>1, <1>2, <2>1, MatchingGoesOn DEF IInv
<1>6. Evaluating'
  <2>1. /\ Asserted' = Asserted /\ Reports' = Reports /\ Compared' = Compared
        /\ \A b, name : ReportOf(b, name)' = ReportOf(b, name)
    BY <1>1, SameReports, SameRevisions
  <2>2. \A b : Answered(b)' = Answered(b)
    BY <1>1, <2>1 DEF Answered
  <2> QED
    BY <1>1, <1>2, <2>1, <2>2 DEF IInv, Evaluating
<1>7. Concluding'
  <2>1. GateFails(o)' = GateFails(o)
    BY <1>1, SameDecision
  <2> QED
    BY <1>1, <1>2, <2>1 DEF Concluding, Delivered
<1>8. Checking'
  BY <1>1, <1>2, CheckingNone DEF Delivered
<1> QED
  BY <1>3, <1>4, <1>5, <1>6, <1>7, <1>8 DEF IInv

(***************************************************************************)
(* Writing the results.                                                    *)
(***************************************************************************)
\* After the decision the results stand, and whatever is left is to write them.
LEMMA AfterDecision ==
  ASSUME IInv, pc \in {"attest", "report"},
         pc' \in {"attest", "report", "exit"},
         UNCHANGED <<given, tip, inputs, compared, evaluated, chain_at, findings>>
  PROVE  /\ o.command = "diff" /\ exit_code = -1 /\ names = <<>> /\ to_check = <<>>
         /\ verdict = IF GateFails(o) THEN 1 ELSE 0
         /\ reported = {} /\ chain_at = 1 /\ findings = <<>>
         /\ Loaded' /\ Matching' /\ Evaluating' /\ Checking'
         /\ GateFails(o)' = GateFails(o) /\ Statement' = Statement /\ Pages' = Pages
<1> USE DEF given, inputs, compared, evaluated, outputs
<1>1. /\ o.command = "diff" /\ exit_code = -1 /\ names = <<>> /\ to_check = <<>>
      /\ verdict = IF GateFails(o) THEN 1 ELSE 0
      /\ reported = {} /\ chain_at = 1 /\ findings = <<>>
  BY DEF IInv, Stages, Matching, Working, Evaluating, Concluding, Checking, Delivered
<1>2. Loaded'
  BY LoadedKept DEF IInv
<1>3. Matching'
  <2>1. pc' \notin Early /\ Working
    BY DEF Early, Working
  <2> QED
    BY <1>1, <2>1, MatchingGoesOn DEF IInv
<1>4. Evaluating'
  BY <1>1, EvaluatingKept DEF IInv, Early
<1>5. Checking'
  BY <1>1, CheckingNone DEF Delivered
<1>6. GateFails(o)' = GateFails(o) /\ Statement' = Statement /\ Pages' = Pages
  BY SameDecision, SameStatement, SamePages
<1> QED
  BY <1>1, <1>2, <1>3, <1>4, <1>5, <1>6

\* The attestation is of what was compared.
LEMMA WriteAttestationStep == IInv /\ WriteAttestation => IInv'
<1> SUFFICES ASSUME IInv, WriteAttestation PROVE IInv'
  OBVIOUS
<1> USE DEF given, inputs, compared, evaluated, outputs
<1>1. /\ pc = "attest" /\ pc' = "report" /\ exit_code' = exit_code /\ attested' = {Statement}
      /\ UNCHANGED <<given, tip, inputs, compared, evaluated, reported, chain_at, findings>>
  BY DEF WriteAttestation, GoOn
<1>2. /\ o.command = "diff" /\ exit_code = -1
      /\ verdict = IF GateFails(o) THEN 1 ELSE 0
      /\ reported = {}
      /\ Loaded' /\ Matching' /\ Evaluating' /\ Checking'
      /\ GateFails(o)' = GateFails(o) /\ Statement' = Statement
  BY <1>1, AfterDecision
<1>3. Stages'
  BY <1>1, <1>2 DEF IInv, Stages
<1>4. Concluding'
  BY <1>1, <1>2 DEF Concluding, Delivered
<1> QED
  BY <1>2, <1>3, <1>4 DEF IInv

\* So is the report, and the run ends with the verdict.
LEMMA WriteReportStep == IInv /\ WriteReport => IInv'
<1> SUFFICES ASSUME IInv, WriteReport PROVE IInv'
  OBVIOUS
<1> USE DEF given, inputs, compared, evaluated, outputs
<1>1. /\ pc = "report" /\ pc' = "exit" /\ exit_code' = verdict
      /\ \E page \in Pages : reported' = {page}
      /\ UNCHANGED <<given, tip, inputs, compared, evaluated, attested, chain_at, findings>>
  BY DEF WriteReport, Pages
<1>2. /\ o.command = "diff" /\ exit_code = -1
      /\ verdict = IF GateFails(o) THEN 1 ELSE 0
      /\ Loaded' /\ Matching' /\ Evaluating' /\ Checking'
      /\ GateFails(o)' = GateFails(o) /\ Statement' = Statement /\ Pages' = Pages
  BY <1>1, AfterDecision
<1>3. Stages'
  BY <1>1, <1>2 DEF IInv, Stages
<1>4. /\ \A att \in attested : att = Statement
      /\ o.attest => attested # {}
  BY <1>1 DEF IInv, Concluding
<1>5. Concluding'
  BY <1>1, <1>2, <1>4 DEF Concluding, Delivered
<1> QED
  BY <1>2, <1>3, <1>5 DEF IInv

\* A write that fails ends the run with an error.
LEMMA CannotWriteStep == IInv /\ CannotWrite => IInv'
<1> SUFFICES ASSUME IInv, CannotWrite PROVE IInv'
  OBVIOUS
<1> USE DEF given, inputs, compared, evaluated, outputs
<1>1. /\ pc \in {"attest", "report"} /\ pc' = "exit" /\ exit_code' = 2
      /\ UNCHANGED <<given, tip, inputs, compared, evaluated, outputs>>
  BY DEF CannotWrite, Abort
<1>2. /\ o.command = "diff" /\ exit_code = -1 /\ reported = {}
      /\ verdict = IF GateFails(o) THEN 1 ELSE 0
      /\ Loaded' /\ Matching' /\ Evaluating' /\ Checking' /\ Statement' = Statement
  BY <1>1, AfterDecision
<1>3. Stages'
  BY <1>1, <1>2 DEF IInv, Stages
<1>4. \A att \in attested : att = Statement
  BY DEF IInv, Concluding
<1>5. Concluding'
  BY <1>1, <1>2, <1>4 DEF IInv, Concluding, Delivered
<1> QED
  BY <1>2, <1>3, <1>5 DEF IInv

(***************************************************************************)
(* The world outside, and nothing happening.                               *)
(***************************************************************************)
\* What matters of the state is where it was.
LEMMA NothingHappened ==
  ASSUME IInv, UNCHANGED <<given, pc, inputs, compared, evaluated, outputs, exit_code>>
  PROVE  Loaded' /\ Matching' /\ Evaluating' /\ Concluding' /\ Checking'
<1> USE DEF given, inputs, compared, evaluated, outputs
<1>1. Delivered' = Delivered /\ Working' = Working /\ Analysing' = Analysing
  BY DEF Delivered, Working, Analysing
<1>2. Loaded'
  BY <1>1 DEF IInv, Loaded
<1>3. Matching' /\ Evaluating'
  BY <1>1, MatchingKept, EvaluatingKept DEF IInv
<1>4. Checking'
  BY <1>1, CheckingKept DEF IInv
<1>5. Concluding'
  <2>1. GateFails(o)' = GateFails(o) /\ Statement' = Statement /\ Pages' = Pages
    BY SameDecision, SameStatement, SamePages
  <2> QED
    BY <1>1, <2>1 DEF IInv, Concluding
<1> QED
  BY <1>2, <1>3, <1>4, <1>5

\* The branch moves; what has been read has not.
LEMMA MoveBranchStep == IInv /\ MoveBranch => IInv'
<1> SUFFICES ASSUME IInv, MoveBranch PROVE IInv'
  OBVIOUS
<1>1. /\ tip < Len(branch) /\ tip' = tip + 1
      /\ UNCHANGED <<given, pc, inputs, compared, evaluated, outputs, exit_code>>
  BY DEF MoveBranch
<1>2. branch \in Branches /\ tip \in 1 .. Len(branch) /\ Len(branch) \in Nat
  BY BranchesAssumption DEF IInv, Stages
<1>3. head_label \in 0 .. (tip + 1)
  BY <1>2 DEF IInv, Stages
<1>4. Stages'
  BY <1>1, <1>2, <1>3 DEF IInv, Stages, given, inputs, evaluated
<1> QED
  BY <1>1, <1>4, NothingHappened DEF IInv

(***************************************************************************)
(* check: the rules of one revision.                                       *)
(***************************************************************************)
\* A revision is a list of chains.
LEMMA RulesetBodies ==
  ASSUME NEW rs \in Ruleset
  PROVE  /\ DOMAIN rs = 1 .. Len(rs) /\ Len(rs) \in Nat
         /\ \A k \in DOMAIN rs : rs[k].name \in ToSet(ChainNames) /\ rs[k].body \in Chain
<1> DEFINE E == [name : ToSet(ChainNames), body : Chain]
<1>1. rs \in Seq(E)
  BY DEF Ruleset
<1>2. \A e \in E : e.name \in ToSet(ChainNames) /\ e.body \in Chain
  OBVIOUS
<1> HIDE DEF E
<1> QED
  BY <1>1, <1>2

\* A revision that is worked on is one the frontend took.
LEMMA Read ==
  ASSUME Stages, Loaded, Analysing
  PROVE  /\ head_rs \in head_src /\ head_src = {head_rs} /\ head_rs \in Ruleset
         /\ o.command = "diff" =>
              base_rs \in base_src /\ base_src = {base_rs} /\ base_rs \in Ruleset
<1>1. head_src # {} /\ \A x, y \in head_src : x = y
  BY DEF Loaded
<1>2. head_rs \in head_src /\ head_src = {head_rs}
  BY <1>1 DEF head_rs
<1>3. branch \in Seq(Texts)
  BY BranchesAssumption DEF Stages
<1>4. ToSet(branch) \subseteq Texts
  BY <1>3, SeqDomain
<1>5. head_src \subseteq Texts /\ base_src \subseteq Texts /\ Rejected \notin base_src \cup head_src
  BY <1>4 DEF Loaded
<1>6. head_rs \in Ruleset
  BY <1>2, <1>5, TextsAssumption
<1>7. ASSUME o.command = "diff"
      PROVE  base_rs \in base_src /\ base_src = {base_rs} /\ base_rs \in Ruleset
  <2>1. base_src # {} /\ \A x, y \in base_src : x = y
    BY <1>7 DEF Loaded
  <2>2. base_rs \in base_src /\ base_src = {base_rs}
    BY <2>1 DEF base_rs
  <2> QED
    BY <1>5, <2>2, TextsAssumption
<1> QED
  BY <1>2, <1>6, <1>7

\* The lines about one chain: in turn the rules nothing reaches and the ones
\* that could go, each once.
LineOf(k, n, what, covered) ==
  [chain |-> k, number |-> n, what |-> what, covered |-> covered, rule |-> Shown(k, n)]

DeadIn(k) == {n \in DOMAIN Compile(head_rs[k].body).rules : Compile(head_rs[k].body).rules[n].shadowed}

NeedlessIn(k) ==
  {n \in DOMAIN Compile(head_rs[k].body).rules : redundant(Compile(head_rs[k].body).rules[n])}

\* The lines about one chain: its dead rules and its needless ones, each once.
LEMMA LinesOfChain ==
  ASSUME NEW k \in DOMAIN head_rs, head_rs[k].body \in Chain
  PROVE  LET list == FindingsIn(k)
         IN  /\ list \in Seq(ToSet(list))
             /\ ToSet(list) =
                  {LineOf(k, n, "unreachable", ExplainShadow(Compile(head_rs[k].body), n)) :
                     n \in DeadIn(k)}
                    \cup {LineOf(k, n, "redundant", <<>>) : n \in NeedlessIn(k)}
             /\ \A i \in DOMAIN list : list[i].chain = k
             /\ \A i, j \in DOMAIN list : list[i].number = list[j].number => i = j
<1> DEFINE model == Compile(head_rs[k].body)
           N == Len(head_rs[k].body.rules)
           D == DeadIn(k)
           R == NeedlessIn(k)
           dead == Ascending(D)
           needless == Ascending(R)
           first == [j \in DOMAIN dead |->
                       LineOf(k, dead[j], "unreachable", ExplainShadow(model, dead[j]))]
           second == [j \in DOMAIN needless |-> LineOf(k, needless[j], "redundant", <<>>)]
           list == first \o second
<1>1. FindingsIn(k) = list
  BY DEF FindingsIn, LineOf, DeadIn, NeedlessIn
<1>2. DOMAIN model.rules = 1 .. N /\ N \in Nat
  BY Compiled, ChainShape
<1>3. D \in SUBSET (1 .. N) /\ R \in SUBSET (1 .. N) /\ D \cap R = {}
  BY <1>2 DEF DeadIn, NeedlessIn, redundant
<1>4. /\ dead \in Seq(D) /\ ToSet(dead) = D /\ Increasing(dead)
      /\ needless \in Seq(R) /\ ToSet(needless) = R /\ Increasing(needless)
  BY <1>2, <1>3, AscendingNumbers
<1> HIDE DEF dead, needless, D, R, model
<1>5. /\ DOMAIN dead = 1 .. Len(dead) /\ Len(dead) \in Nat
      /\ DOMAIN needless = 1 .. Len(needless) /\ Len(needless) \in Nat
      /\ \A j \in DOMAIN dead : dead[j] \in D
      /\ \A j \in DOMAIN needless : needless[j] \in R
  BY <1>4
<1>6. /\ DOMAIN first = DOMAIN dead
      /\ \A j \in DOMAIN dead :
           first[j] = LineOf(k, dead[j], "unreachable", ExplainShadow(model, dead[j]))
      /\ DOMAIN second = DOMAIN needless
      /\ \A j \in DOMAIN needless : second[j] = LineOf(k, needless[j], "redundant", <<>>)
  OBVIOUS
<1>7. first = [j \in 1 .. Len(dead) |-> first[j]] /\ second = [j \in 1 .. Len(needless) |-> second[j]]
  BY <1>5
<1> HIDE DEF first, second
<1>8. first \in Seq(ToSet(first)) /\ Len(first) = Len(dead)
  BY <1>5, <1>6, <1>7 DEF ToSet
<1>9. second \in Seq(ToSet(second)) /\ Len(second) = Len(needless)
  BY <1>5, <1>6, <1>7 DEF ToSet
<1>10. ToSet(first) =
         {LineOf(k, n, "unreachable", ExplainShadow(model, n)) : n \in D}
  <2>1. ASSUME NEW x \in ToSet(first)
        PROVE  \E n \in D : x = LineOf(k, n, "unreachable", ExplainShadow(model, n))
    <3>1. PICK j \in DOMAIN first : x = first[j]
      BY DEF ToSet
    <3> QED
      BY <1>5, <1>6, <3>1
  <2>2. ASSUME NEW n \in D
        PROVE  LineOf(k, n, "unreachable", ExplainShadow(model, n)) \in ToSet(first)
    <3>1. PICK j \in DOMAIN dead : dead[j] = n
      BY <1>4 DEF ToSet
    <3> QED
      BY <1>6, <3>1 DEF ToSet
  <2> QED
    BY <2>1, <2>2
<1>11. ToSet(second) = {LineOf(k, n, "redundant", <<>>) : n \in R}
  <2>1. ASSUME NEW x \in ToSet(second)
        PROVE  \E n \in R : x = LineOf(k, n, "redundant", <<>>)
    <3>1. PICK j \in DOMAIN second : x = second[j]
      BY DEF ToSet
    <3> QED
      BY <1>5, <1>6, <3>1
  <2>2. ASSUME NEW n \in R
        PROVE  LineOf(k, n, "redundant", <<>>) \in ToSet(second)
    <3>1. PICK j \in DOMAIN needless : needless[j] = n
      BY <1>4 DEF ToSet
    <3> QED
      BY <1>6, <3>1 DEF ToSet
  <2> QED
    BY <2>1, <2>2
<1>12. /\ list \in Seq(ToSet(list)) /\ ToSet(list) = ToSet(first) \cup ToSet(second)
       /\ DOMAIN list = 1 .. (Len(dead) + Len(needless))
       /\ \A i \in DOMAIN list :
            \/ i \in DOMAIN dead /\ list[i] = first[i]
            \/ i - Len(dead) \in DOMAIN needless /\ list[i] = second[i - Len(dead)]
  <2>1. /\ list \in Seq(ToSet(list)) /\ ToSet(list) = ToSet(first) \cup ToSet(second)
        /\ DOMAIN list = 1 .. (Len(first) + Len(second))
        /\ \A i \in DOMAIN list :
             \/ i \in DOMAIN first /\ list[i] = first[i]
             \/ i - Len(first) \in DOMAIN second /\ list[i] = second[i - Len(first)]
    BY <1>8, <1>9, ConcatPlaces
  <2> HIDE DEF list
  <2> QED
    BY <1>6, <1>8, <1>9, <2>1
<1> HIDE DEF list
<1>13. /\ \A j \in DOMAIN dead : first[j].chain = k /\ first[j].number = dead[j]
       /\ \A j \in DOMAIN needless : second[j].chain = k /\ second[j].number = needless[j]
  BY <1>6 DEF LineOf
<1>14. \A i \in DOMAIN list : list[i].chain = k
  BY <1>12, <1>13
<1>15. ASSUME NEW i \in DOMAIN list, NEW j \in DOMAIN list, list[i].number = list[j].number
       PROVE  i = j
  <2>1. /\ \A x, y \in DOMAIN dead : dead[x] = dead[y] => x = y
        /\ \A x, y \in DOMAIN needless : needless[x] = needless[y] => x = y
    <3>1. /\ \A x \in DOMAIN dead : dead[x] \in Int
          /\ \A x \in DOMAIN needless : needless[x] \in Int
      <4>1. D \subseteq Int /\ R \subseteq Int
        BY <1>2, <1>3
      <4> QED
        BY <1>5, <4>1
    <3> QED
      BY <1>4, <1>5, <3>1, SMTT(60) DEF Increasing
  <2>2. \A x \in DOMAIN dead, y \in DOMAIN needless : dead[x] # needless[y]
    BY <1>3, <1>5
  <2>3. i \in Int /\ j \in Int
    BY <1>5, <1>12
  <2>4. CASE i \in DOMAIN dead /\ list[i] = first[i]
    <3>1. CASE j \in DOMAIN dead /\ list[j] = first[j]
      BY <1>13, <1>15, <2>1, <2>4, <3>1
    <3>2. CASE j - Len(dead) \in DOMAIN needless /\ list[j] = second[j - Len(dead)]
      BY <1>13, <1>15, <2>2, <2>4, <3>2
    <3> QED
      BY <1>12, <3>1, <3>2
  <2>5. CASE i - Len(dead) \in DOMAIN needless /\ list[i] = second[i - Len(dead)]
    <3>1. CASE j \in DOMAIN dead /\ list[j] = first[j]
      BY <1>13, <1>15, <2>2, <2>5, <3>1
    <3>2. CASE j - Len(dead) \in DOMAIN needless /\ list[j] = second[j - Len(dead)]
      <4>1. i - Len(dead) = j - Len(dead)
        BY <1>13, <1>15, <2>1, <2>5, <3>2
      <4> QED
        BY <1>5, <2>3, <4>1
    <3> QED
      BY <1>12, <3>1, <3>2
  <2> QED
    BY <1>12, <2>4, <2>5
<1>16. /\ FindingsIn(k) \in Seq(ToSet(FindingsIn(k)))
       /\ \A i \in DOMAIN FindingsIn(k) : FindingsIn(k)[i].chain = k
       /\ \A i, j \in DOMAIN FindingsIn(k) :
            FindingsIn(k)[i].number = FindingsIn(k)[j].number => i = j
  BY <1>1, <1>12, <1>14, <1>15
<1>17. ToSet(FindingsIn(k)) = ToSet(first) \cup ToSet(second)
  BY <1>1, <1>12
<1> QED
  BY <1>10, <1>11, <1>16, <1>17 DEF D, R, model

\* check begins.
LEMMA StartCheckStep == IInv /\ StartCheck => IInv'
<1> SUFFICES ASSUME IInv, StartCheck PROVE IInv'
  OBVIOUS
<1> USE DEF given, inputs, compared, evaluated, outputs
<1>1. /\ pc = "table" /\ o.command = "check" /\ pc' = "check" /\ exit_code' = exit_code
      /\ UNCHANGED <<given, tip, inputs, compared, evaluated, outputs>>
  BY DEF StartCheck, GoOn
<1>2. /\ names = <<>> /\ sections = <<>> /\ unmatched = {} /\ to_check = <<>> /\ assertions = <<>>
      /\ verdict = -1 /\ attested = {} /\ reported = {} /\ chain_at = 1 /\ findings = <<>>
      /\ exit_code = -1
  BY <1>1, NothingYet DEF Early
<1>3. Stages' /\ Loaded'
  BY <1>1, <1>2, StagesKept, LoadedKept DEF IInv
<1>4. Matching' /\ Evaluating' /\ Checking'
  BY <1>1, <1>2, MatchingNone, EvaluatingNone, CheckingNone DEF Working, Delivered
<1>5. Concluding'
  BY <1>1, <1>2 DEF Concluding, Delivered
<1> QED
  BY <1>3, <1>4, <1>5 DEF IInv

\* While the rules are gone through, there is nothing of diff's.
LEMMA WhileChecking ==
  ASSUME IInv, pc = "check"
  PROVE  /\ o.command = "check" /\ exit_code = -1
         /\ names = <<>> /\ sections = <<>> /\ unmatched = {} /\ to_check = <<>> /\ assertions = <<>>
         /\ verdict = -1 /\ attested = {} /\ reported = {}
         /\ head_rs \in Ruleset /\ DOMAIN head_rs = 1 .. Len(head_rs) /\ Len(head_rs) \in Nat
         /\ \A k \in DOMAIN head_rs : head_rs[k].body \in Chain
<1>1. /\ o.command = "check" /\ exit_code = -1
      /\ names = <<>> /\ sections = <<>> /\ unmatched = {} /\ to_check = <<>> /\ assertions = <<>>
      /\ verdict = -1 /\ attested = {} /\ reported = {}
  BY DEF IInv, Stages, Matching, Evaluating, Concluding, Delivered
<1>2. head_rs \in Ruleset
  BY Read DEF IInv, Analysing
<1>3. DOMAIN head_rs = 1 .. Len(head_rs) /\ Len(head_rs) \in Nat
  BY <1>2 DEF Ruleset
<1> QED
  BY <1>1, <1>2, <1>3, RulesetBodies

\* The lines about the first chains, and about one more.
LEMMA MoreLines ==
  ASSUME NEW n \in Nat
  PROVE  Lines(n + 1) = Lines(n) \cup ToSet(FindingsIn(n + 1))
<1>1. 1 .. (n + 1) = (1 .. n) \cup {n + 1}
  OBVIOUS
<1> QED
  BY <1>1 DEF Lines

\* Lines of earlier chains are about other chains.
LEMMA LinesBefore ==
  ASSUME NEW n \in Nat, n <= Len(head_rs), Len(head_rs) \in Nat, DOMAIN head_rs = 1 .. Len(head_rs),
         \A k \in DOMAIN head_rs : head_rs[k].body \in Chain
  PROVE  \A f \in Lines(n) : f.chain \in 1 .. n
<1> SUFFICES ASSUME NEW f \in Lines(n) PROVE f.chain \in 1 .. n
  OBVIOUS
<1>1. PICK k \in 1 .. n : f \in ToSet(FindingsIn(k))
  BY DEF Lines
<1>2. k \in DOMAIN head_rs
  OBVIOUS
<1>3. \A i \in DOMAIN FindingsIn(k) : FindingsIn(k)[i].chain = k
  BY <1>2, LinesOfChain
<1> QED
  BY <1>1, <1>3 DEF ToSet

\* One chain's rules are listed, or its self-check fails.
LEMMA CheckChainStep == IInv /\ CheckChain => IInv'
<1> SUFFICES ASSUME IInv, CheckChain PROVE IInv'
  OBVIOUS
<1> USE DEF given, inputs, compared, evaluated, outputs
<1> DEFINE new == FindingsIn(chain_at)
           all == findings \o new
<1>1. /\ pc = "check" /\ chain_at \in DOMAIN head_rs /\ chain_at' = chain_at + 1
      /\ UNCHANGED <<given, tip, inputs, compared, evaluated, attested, reported>>
      /\ \/ pc' = "exit" /\ exit_code' = 2 /\ findings' = findings
         \/ pc' = pc /\ exit_code' = exit_code /\ findings' = all
  BY DEF CheckChain, Abort
<1> HIDE DEF new
<1>2. /\ o.command = "check" /\ exit_code = -1
      /\ names = <<>> /\ sections = <<>> /\ unmatched = {} /\ to_check = <<>> /\ assertions = <<>>
      /\ verdict = -1 /\ attested = {} /\ reported = {}
      /\ head_rs \in Ruleset /\ DOMAIN head_rs = 1 .. Len(head_rs) /\ Len(head_rs) \in Nat
      /\ \A k \in DOMAIN head_rs : head_rs[k].body \in Chain
  BY <1>1, WhileChecking
<1>3. Stages' /\ Loaded'
  BY <1>1, <1>2, StagesKept, LoadedKept DEF IInv
<1>4. Matching' /\ Evaluating'
  BY <1>1, <1>2, MatchingNone, EvaluatingNone DEF Working, Delivered
<1>5. Concluding'
  BY <1>1, <1>2 DEF Concluding, Delivered
<1>6. /\ chain_at \in Nat \ {0} /\ chain_at <= Len(head_rs)
      /\ findings \in Seq(Lines(chain_at - 1)) /\ ToSet(findings) = Lines(chain_at - 1)
      /\ \A i, j \in DOMAIN findings :
           findings[i].chain = findings[j].chain /\ findings[i].number = findings[j].number => i = j
  BY <1>1, <1>2 DEF IInv, Checking
<1>7. /\ new \in Seq(ToSet(new))
      /\ \A i \in DOMAIN new : new[i].chain = chain_at
      /\ \A i, j \in DOMAIN new : new[i].number = new[j].number => i = j
  BY <1>1, <1>2, LinesOfChain DEF new
<1>8. \A i \in DOMAIN findings : findings[i].chain \in 1 .. (chain_at - 1)
  <2>1. \A f \in Lines(chain_at - 1) : f.chain \in 1 .. (chain_at - 1)
    BY <1>2, <1>6, LinesBefore
  <2> QED
    BY <1>6, <2>1
<1>9. /\ all \in Seq(ToSet(all)) /\ ToSet(all) = ToSet(findings) \cup ToSet(new)
      /\ Len(findings) \in Nat /\ DOMAIN findings = 1 .. Len(findings)
      /\ DOMAIN all = 1 .. (Len(findings) + Len(new)) /\ Len(new) \in Nat
      /\ \A k \in DOMAIN all :
           \/ k \in DOMAIN findings /\ all[k] = findings[k]
           \/ k - Len(findings) \in DOMAIN new /\ all[k] = new[k - Len(findings)]
  <2>1. findings \in Seq(ToSet(findings))
    BY <1>6
  <2> QED
    BY <1>7, <2>1, ConcatPlaces
<1> HIDE DEF all
<1>10. ASSUME NEW i \in DOMAIN all, NEW j \in DOMAIN all,
              all[i].chain = all[j].chain, all[i].number = all[j].number
       PROVE  i = j
  <2>1. i \in Int /\ j \in Int
    BY <1>9
  <2>2. CASE i \in DOMAIN findings /\ all[i] = findings[i]
    <3>1. all[j].chain # chain_at
      BY <1>6, <1>8, <1>10, <2>2
    <3>2. j \in DOMAIN findings /\ all[j] = findings[j]
      BY <1>7, <1>9, <3>1
    <3> QED
      BY <1>6, <1>10, <2>2, <3>2
  <2>3. CASE i - Len(findings) \in DOMAIN new /\ all[i] = new[i - Len(findings)]
    <3>1. all[j].chain = chain_at
      BY <1>7, <1>10, <2>3
    <3>2. j - Len(findings) \in DOMAIN new /\ all[j] = new[j - Len(findings)]
      BY <1>6, <1>8, <1>9, <3>1
    <3>3. i - Len(findings) = j - Len(findings)
      BY <1>7, <1>10, <2>3, <3>2
    <3> QED
      BY <1>9, <2>1, <3>3
  <2> QED
    BY <1>9, <2>2, <2>3
<1>11. Lines(chain_at) = Lines(chain_at - 1) \cup ToSet(new)
  <2>1. chain_at - 1 \in Nat /\ (chain_at - 1) + 1 = chain_at
    BY <1>6
  <2> QED
    BY <2>1, MoreLines DEF new
<1>12. head_rs' = head_rs /\ \A n : Lines(n)' = Lines(n)
  BY <1>1, SameLines
<1>13. Checking'
  <2>1. chain_at' \in Nat \ {0} /\ chain_at' - 1 = chain_at /\ chain_at' <= Len(head_rs) + 1
    BY <1>1, <1>2, <1>6
  <2>2. CASE pc' = "exit" /\ exit_code' = 2
    BY <1>1, <1>2, <2>1, <2>2 DEF Checking, Delivered
  <2>3. CASE pc' = pc /\ exit_code' = exit_code /\ findings' = all
    <3>1. ToSet(all) = Lines(chain_at) /\ all \in Seq(Lines(chain_at))
      BY <1>6, <1>9, <1>11
    <3>2. Lines(chain_at - 1)' = Lines(chain_at)
      BY <1>12, <2>1 DEF Lines
    <3> QED
      BY <1>1, <1>2, <1>10, <1>12, <2>1, <2>3, <3>1, <3>2 DEF Checking, Delivered
  <2> QED
    BY <1>1, <2>2, <2>3
<1> QED
  BY <1>3, <1>4, <1>5, <1>13 DEF IInv

\* check ends, with 0 or with an error about the format.
LEMMA EndCheckStep == IInv /\ EndCheck => IInv'
<1> SUFFICES ASSUME IInv, EndCheck PROVE IInv'
  OBVIOUS
<1> USE DEF given, inputs, compared, evaluated, outputs
<1>1. /\ pc = "check" /\ chain_at \notin DOMAIN head_rs
      /\ pc' = "exit" /\ exit_code' \in {0, 2}
      /\ UNCHANGED <<given, tip, inputs, compared, evaluated, outputs>>
  BY DEF EndCheck, Abort
<1>2. /\ o.command = "check" /\ exit_code = -1
      /\ names = <<>> /\ sections = <<>> /\ unmatched = {} /\ to_check = <<>> /\ assertions = <<>>
      /\ verdict = -1 /\ attested = {} /\ reported = {}
      /\ head_rs \in Ruleset /\ DOMAIN head_rs = 1 .. Len(head_rs) /\ Len(head_rs) \in Nat
  BY <1>1, WhileChecking
<1>3. Stages' /\ Loaded'
  BY <1>1, <1>2, LoadedKept DEF IInv, Stages
<1>4. Matching' /\ Evaluating'
  BY <1>1, <1>2, MatchingNone, EvaluatingNone DEF Working
<1>5. Concluding'
  BY <1>1, <1>2 DEF Concluding
<1>6. chain_at = Len(head_rs) + 1
  <2>1. chain_at \in Nat \ {0} /\ (chain_at > 1 => chain_at <= Len(head_rs) + 1)
    BY <1>2 DEF IInv, Checking
  <2> QED
    BY <1>1, <1>2, <2>1
<1>7. Checking'
  <2>1. head_rs' = head_rs /\ \A n : Lines(n)' = Lines(n)
    BY <1>1, SameLines
  <2> QED
    BY <1>1, <1>2, <1>6, <2>1 DEF IInv, Checking, Delivered
<1> QED
  BY <1>3, <1>4, <1>5, <1>7 DEF IInv

(***************************************************************************)
(* The invariant holds.                                                    *)
(***************************************************************************)
\* Every run of diff or check, with whatever fails or moves, keeps IInv.
THEOREM Inductive == Spec => []IInv
<1>1. IInv /\ UNCHANGED vars => IInv'
  <2> SUFFICES ASSUME IInv, UNCHANGED vars PROVE IInv'
    OBVIOUS
  <2>1. UNCHANGED <<given, tip, pc, inputs, compared, evaluated, outputs, exit_code>>
    BY DEF vars
  <2>2. Stages'
    BY <2>1 DEF IInv, Stages, given, inputs, evaluated
  <2> QED
    BY <2>1, <2>2, NothingHappened DEF IInv
<1>2. IInv /\ Next => IInv'
  BY LoadBaseStep, LoadHeadStep, LabelHeadStep, CannotReadStep, ParseStep, LoadPolicyStep,
     TooManyInterfacesStep, StartCheckStep, CheckChainStep, EndCheckStep, MatchChainsStep,
     CompareChainStep, EndCompareStep, EvaluateAssertionStep, DecideStep, WriteAttestationStep,
     WriteReportStep, CannotWriteStep, MoveBranchStep DEF Next
<1>3. IInv /\ [Next]_vars => IInv'
  BY <1>1, <1>2
<1> QED
  BY Started, <1>3, PTL DEF Spec

(***************************************************************************)
(* Type correctness.                                                       *)
(***************************************************************************)
\* A set of which all members are equal holds one or none.
LEMMA AtMostOne ==
  ASSUME NEW S, \A x, y \in S : x = y
  PROVE  IsFiniteSet(S) /\ Cardinality(S) <= 1 /\ (S # {} => Cardinality(S) = 1)
<1>1. CASE S = {}
  BY <1>1, FS_EmptySet
<1>2. CASE S # {}
  <2>1. PICK x : S = {x}
    BY <1>2
  <2>2. IsFiniteSet({x}) /\ Cardinality({x}) = 1
    BY FS_Singleton
  <2> QED
    BY <2>1, <2>2
<1> QED
  BY <1>1, <1>2

\* An outcome is one of the three, whatever it is about.
LEMMA LabelOfCheck == \A policy, model, a : check(policy, model, a).label \in Outcomes
BY DEF check, Outcomes

\* Every field of the run's state keeps its type, and there is never more than one
\* text on a side, one policy from one file, or a report on a chain that is not a
\* section of the run.
THEOREM TypeCorrect == Spec => []TypeOK
<1>1. IInv => TypeOK
  <2> SUFFICES ASSUME IInv PROVE TypeOK
    OBVIOUS
  <2>1. tip \in DOMAIN branch
    BY BranchesAssumption DEF IInv, Stages
  <2>2. base_src \subseteq Texts /\ Cardinality(base_src) <= 1
    BY AtMostOne DEF IInv, Loaded
  <2>3. head_src \subseteq ToSet(branch) /\ Cardinality(head_src) <= 1
    BY AtMostOne DEF IInv, Loaded
  <2>4. Cardinality(read_policy) <= Cardinality(assert_file)
    <3>1. \A x, y \in assert_file : x = y
      BY PoliciesAssumption DEF IInv, Stages
    <3>2. IsFiniteSet(assert_file) /\ (assert_file # {} => Cardinality(assert_file) = 1)
      BY <3>1, AtMostOne
    <3>3. CASE read_policy = {}
      BY <3>2, <3>3, FS_EmptySet, FS_CardinalityType
    <3>4. CASE read_policy # {}
      <4>1. PICK doc \in assert_file : read_policy = {The(read_policy)}
        BY <3>4, PolicyOf, ParsedPolicy DEF IInv
      <4>2. \A x, y \in read_policy : x = y
        BY <4>1
      <4> QED
        BY <3>2, <4>2, AtMostOne
    <3> QED
      BY <3>3, <3>4
  <2>5. names \in Seq(ToSet(ChainNames))
    BY DEF IInv, Matching
  <2>6. unmatched \subseteq [name : ToSet(ChainNames), what : {"added", "removed"}]
    BY DEF IInv, Matching, Notes, Note, Wanted
  <2>7. ASSUME NEW k \in DOMAIN assertions
        PROVE  /\ assertions[k].outcome.label \in Outcomes
               /\ assertions[k].chain \in {sections[l].name : l \in DOMAIN sections}
    <3>1. /\ assertions[k] \in Reports
          /\ \E l \in DOMAIN sections : sections[l].name = assertions[k].chain
      BY DEF IInv, Evaluating
    <3>2. \E a, name : assertions[k] = ReportOf(a, name)
      BY <3>1 DEF Reports
    <3>3. assertions[k].outcome.label \in Outcomes
      BY <3>2, LabelOfCheck DEF ReportOf
    <3> QED
      BY <3>1, <3>3
  <2> QED
    BY <2>1, <2>2, <2>3, <2>4, <2>5, <2>6, <2>7 DEF IInv, Stages, TypeOK
<1> QED
  BY <1>1, Inductive, PTL

(***************************************************************************)
(* Every name is accounted for.                                            *)
(***************************************************************************)
\* What a report has of each section, in either shape.
LEMMA PageParts ==
  ASSUME NEW r \in Pages
  PROVE  /\ r.labels = <<0, head_label>> /\ r.notes = unmatched
         /\ DOMAIN r.delta = DOMAIN sections
         /\ (\A i \in r.intent : i = Intent) /\ r.exit \subseteq {verdict}
         /\ \A k \in DOMAIN sections :
              /\ r.delta[k].chain = sections[k].name
              /\ \/ r.delta[k] = DeltaOf(sections[k])
                 \/ \E fits : r.delta[k] = PageOf(sections[k], fits)
<1>1. PICK fits \in [ToSet(ChainNames) -> SUBSET Packets] : r = ReportModel(fits)
  BY DEF Pages
<1>2. \A section, fit : DeltaOf(section).chain = section.name /\ PageOf(section, fit).chain = section.name
  BY DEF DeltaOf, PageOf
<1> HIDE DEF Pages
<1>3. /\ r.labels = <<0, head_label>> /\ r.notes = unmatched
      /\ (\A i \in r.intent : i = Intent) /\ r.exit \subseteq {verdict}
      /\ r.delta = [k \in DOMAIN sections |->
                     IF o.format = "json" THEN DeltaOf(sections[k])
                     ELSE PageOf(sections[k], fits[sections[k].name])]
  BY <1>1 DEF ReportModel
<1> QED
  BY <1>2, <1>3

\* What a run of diff that delivered a verdict has in hand.
LEMMA AtTheEnd ==
  ASSUME IInv, Finished
  PROVE  /\ names = <<>> /\ to_check = <<>> /\ exit_code = verdict
         /\ verdict = IF GateFails(o) THEN 1 ELSE 0
         /\ (\E page \in Pages : reported = {page}) /\ (o.attest => attested # {})
         /\ base_rs \in Ruleset /\ head_rs \in Ruleset
         /\ base_src = {base_rs} /\ head_src = {head_rs}
         /\ sections \in Seq(ToSet(sections))
         /\ \A k \in DOMAIN sections :
              sections[k].name \in Compared /\ sections[k] = SectionOf(sections[k].name)
         /\ \A name \in Compared : \E k \in DOMAIN sections : sections[k].name = name
         /\ unmatched = Notes
<1>1. Delivered /\ o.command = "diff" /\ Analysing /\ Working /\ pc = "exit"
  BY DEF Finished, Delivered, Analysing, Working, IInv, Stages
<1>2. /\ names = <<>> /\ to_check = <<>> /\ exit_code = verdict
      /\ \E page \in Pages : reported = {page}
      /\ verdict = (IF GateFails(o) THEN 1 ELSE 0) /\ (o.attest => attested # {})
  BY <1>1 DEF IInv, Matching, Evaluating, Concluding
<1>3. base_rs \in Ruleset /\ head_rs \in Ruleset /\ base_src = {base_rs} /\ head_src = {head_rs}
  BY <1>1, Read DEF IInv
<1>4. \A name \in Wanted : Accounted(name)
  BY <1>1, <1>2, NoItems DEF IInv, Matching
<1>5. \A name \in Compared : name \in Wanted
  BY DEF Compared, Wanted, Listed
<1>6. unmatched = Notes
  <2>1. unmatched \subseteq Notes
    BY DEF IInv, Matching
  <2>2. ASSUME NEW note \in Notes PROVE note \in unmatched
    <3>1. \E name \in Wanted, what \in {"removed", "added"} : note = Note(name, what)
      BY DEF Notes
    <3> QED
      BY <1>4, <2>2, <3>1 DEF Accounted
  <2> QED
    BY <2>1, <2>2
<1> QED
  BY <1>2, <1>3, <1>4, <1>5, <1>6 DEF IInv, Matching, Accounted

\* A name in either revision that was asked for, or any if none was, is on the
\* page of a run that finishes: as a compared chain exactly when it is in both,
\* and as a note that it was removed or added exactly when it is in one.
THEOREM NamesAccounted == Spec => []EveryNameAccounted
<1>1. IInv => EveryNameAccounted
  <2> SUFFICES ASSUME IInv, Finished, NEW r \in reported, NEW name \in ToSet(ChainNames),
                      o.only = {} \/ name \in o.only
               PROVE  /\ (Named(base_rs, name) # {} /\ Named(head_rs, name) # {})
                           <=> name \in {r.delta[k].chain : k \in DOMAIN r.delta}
                      /\ (Named(base_rs, name) # {} /\ Named(head_rs, name) = {})
                           <=> Note(name, "removed") \in r.notes
                      /\ (Named(base_rs, name) = {} /\ Named(head_rs, name) # {})
                           <=> Note(name, "added") \in r.notes
    BY DEF EveryNameAccounted, Note
  <2>1. r \in Pages
    BY AtTheEnd
  <2>2. /\ r.notes = unmatched /\ DOMAIN r.delta = DOMAIN sections
        /\ \A k \in DOMAIN sections : r.delta[k].chain = sections[k].name
    BY <2>1, PageParts
  <2>3. {r.delta[k].chain : k \in DOMAIN r.delta} = {sections[k].name : k \in DOMAIN sections}
    BY <2>2
  <2>4. {sections[k].name : k \in DOMAIN sections} = Compared
    BY AtTheEnd
  <2>5. name \in Wanted <=> Named(base_rs, name) # {} \/ Named(head_rs, name) # {}
    BY DEF Wanted, Listed
  <2>6. /\ Note(name, "removed") \in Notes <=> name \in Wanted /\ Named(head_rs, name) = {}
        /\ Note(name, "added") \in Notes <=> name \in Wanted /\ Named(base_rs, name) = {}
    BY NotesOf
  <2>7. name \in Compared <=> Named(base_rs, name) # {} /\ Named(head_rs, name) # {}
    BY DEF Compared
  <2> QED
    BY <2>2, <2>3, <2>4, <2>5, <2>6, <2>7, AtTheEnd
<1> QED
  BY <1>1, Inductive, PTL

(***************************************************************************)
(* check finds the dead rules.                                             *)
(***************************************************************************)
\* What is listed of a rule of a compiled chain, in terms of the chain.
LEMMA RuleListed ==
  ASSUME NEW c \in Chain, NEW n \in 1 .. Len(c.rules)
  PROVE  /\ Compile(c).rules[n].shadowed <=> \A p \in Packets : ~Decides(c.rules, n, p)
         /\ Compile(c).rules[n].redundant <=> AcceptSet(Deleting(c, n)) = AcceptSet(c)
         /\ Compile(c).rules[n].matched = c.rules[n].match
<1>1. Compile(c).rules[n] = CompiledRule(c, n)
  BY DEF Compile
<1>2. /\ Compile(c).rules[n].shadowed = (EffectiveSet(c, n) = {})
      /\ Compile(c).rules[n].redundant = AgreesWithRest(c, n)
      /\ Compile(c).rules[n].matched = c.rules[n].match
  BY <1>1 DEF CompiledRule
<1>3. EffectiveSet(c, n) = {} <=> \A p \in Packets : ~Decides(c.rules, n, p)
  BY DEF EffectiveSet
<1>4. AgreesWithRest(c, n) <=> AcceptSet(Deleting(c, n)) = AcceptSet(c)
  BY RedundantExactly
<1> QED
  BY <1>2, <1>3, <1>4

\* The rules named for a dead rule come before it and cover it.
LEMMA Covers ==
  ASSUME NEW c \in Chain, NEW n \in 1 .. Len(c.rules), \A p \in Packets : ~Decides(c.rules, n, p)
  PROVE  LET named == ExplainShadow(Compile(c), n)
         IN  /\ ToSet(named) \subseteq 1 .. (n - 1)
             /\ c.rules[n].match \subseteq UNION {c.rules[j].match : j \in ToSet(named)}
<1> DEFINE model == Compile(c)
           named == ExplainShadow(model, n)
           N == Len(c.rules)
<1>1. /\ N \in Nat /\ DOMAIN model.rules = 1 .. N
      /\ \A i \in 1 .. N : c.rules[i].match \in SUBSET Packets
  BY Compiled, ChainShape
<1>2. \A i \in 1 .. N : model.rules[i].matched = c.rules[i].match
  BY RuleListed
<1> HIDE DEF model
<1> DEFINE good == /\ ToSet(named) \subseteq 1 .. (n - 1)
                   /\ c.rules[n].match \subseteq UNION {c.rules[j].match : j \in ToSet(named)}
<1>3. ASSUME c.rules[n].match = {} PROVE good
  <2>1. named = <<>>
    BY <1>1, <1>2, <1>3 DEF ExplainShadow
  <2> HIDE DEF named
  <2> QED
    BY <1>3, <2>1, NoItems
<1>4. ASSUME c.rules[n].match # {} PROVE good
  <2>1. CoveredBy(model, model.rules[n].matched, 1 .. (n - 1))
    <3> SUFFICES ASSUME NEW p \in c.rules[n].match
                 PROVE  \E j \in 1 .. (n - 1) : p \in model.rules[j].matched
      BY <1>2 DEF CoveredBy
    <3>1. \E j \in 1 .. (n - 1) : p \in c.rules[j].match
      BY <1>1 DEF Decides
    <3> QED
      BY <1>1, <1>2, <3>1
  <2>2. /\ named \in Seq(1 .. (n - 1)) /\ NamedBy(named) \subseteq 1 .. (n - 1)
        /\ CoveredBy(model, model.rules[n].matched, NamedBy(named))
    BY <1>1, <1>2, <1>4, <2>1, ExplanationExact
  <2> HIDE DEF named
  <2>3. NamedBy(named) = ToSet(named)
    BY DEF NamedBy, ToSet
  <2>4. ASSUME NEW p \in c.rules[n].match
        PROVE  \E j \in ToSet(named) : p \in c.rules[j].match
    <3>1. PICK j \in ToSet(named) : p \in model.rules[j].matched
      BY <1>2, <2>2, <2>3 DEF CoveredBy
    <3>2. j \in 1 .. N
      BY <1>1, <2>2, <2>3
    <3> QED
      BY <1>2, <3>1, <3>2
  <2> QED
    BY <2>2, <2>3, <2>4
<1> QED
  BY <1>3, <1>4 DEF model

\* The first chain of a name is the one its name finds.
LEMMA FirstOfName ==
  ASSUME NEW rs \in Ruleset, NEW k \in DOMAIN rs,
         \A l \in 1 .. (k - 1) : rs[l].name # rs[k].name
  PROVE  ChainOf(rs, rs[k].name) = rs[k].body
<1> DEFINE T == Named(rs, rs[k].name)
<1>1. DOMAIN rs = 1 .. Len(rs) /\ Len(rs) \in Nat
  BY RulesetBodies
<1>2. T \in SUBSET Nat /\ k \in T /\ k \in Nat
  BY <1>1 DEF Named
<1>3. Least(T) \in T /\ Least(T) <= k
  BY <1>2, LeastOf
<1>4. Least(T) \in DOMAIN rs /\ rs[Least(T)].name = rs[k].name
  BY <1>3 DEF Named
<1> HIDE DEF T
<1>5. Least(T) = k
  BY <1>1, <1>2, <1>3, <1>4
<1> QED
  BY <1>5 DEF ChainOf, T

\* What check has listed when it is done: the lines about every chain, each once.
LEMMA CheckDone ==
  ASSUME IInv, o.command = "check", exit_code = 0
  PROVE  /\ head_rs \in Ruleset
         /\ findings \in Seq(ToSet(findings)) /\ ToSet(findings) = Lines(Len(head_rs))
         /\ \A i, j \in DOMAIN findings :
              findings[i].chain = findings[j].chain /\ findings[i].number = findings[j].number => i = j
<1>1. Delivered /\ Analysing
  BY DEF Delivered, Analysing
<1>2. head_rs \in Ruleset
  BY <1>1, Read DEF IInv
<1>3. chain_at = Len(head_rs) + 1 /\ Len(head_rs) \in Nat
  BY <1>1, <1>2 DEF IInv, Checking, Ruleset
<1>4. chain_at - 1 = Len(head_rs)
  BY <1>3
<1>5. /\ findings \in Seq(Lines(Len(head_rs))) /\ ToSet(findings) = Lines(Len(head_rs))
      /\ \A i, j \in DOMAIN findings :
           findings[i].chain = findings[j].chain /\ findings[i].number = findings[j].number => i = j
  BY <1>4 DEF IInv, Checking
<1> QED
  BY <1>2, <1>5

\* A line is about a rule nothing reaches or one that could go, and there is one
\* for each.
LEMMA EveryLine ==
  ASSUME NEW f, head_rs \in Ruleset
  PROVE  f \in Lines(Len(head_rs)) <=>
           \E k \in DOMAIN head_rs :
             \/ \E n \in DeadIn(k) :
                  f = LineOf(k, n, "unreachable", ExplainShadow(Compile(head_rs[k].body), n))
             \/ \E n \in NeedlessIn(k) : f = LineOf(k, n, "redundant", <<>>)
<1>1. DOMAIN head_rs = 1 .. Len(head_rs) /\ \A k \in DOMAIN head_rs : head_rs[k].body \in Chain
  BY RulesetBodies
<1>2. f \in Lines(Len(head_rs)) <=> \E k \in DOMAIN head_rs : f \in ToSet(FindingsIn(k))
  BY <1>1 DEF Lines
<1>3. ASSUME NEW k \in DOMAIN head_rs
      PROVE  f \in ToSet(FindingsIn(k)) <=>
               \/ \E n \in DeadIn(k) :
                    f = LineOf(k, n, "unreachable", ExplainShadow(Compile(head_rs[k].body), n))
               \/ \E n \in NeedlessIn(k) : f = LineOf(k, n, "redundant", <<>>)
  <2>1. ToSet(FindingsIn(k)) =
          {LineOf(k, n, "unreachable", ExplainShadow(Compile(head_rs[k].body), n)) : n \in DeadIn(k)}
            \cup {LineOf(k, n, "redundant", <<>>) : n \in NeedlessIn(k)}
    BY <1>1, LinesOfChain
  <2> QED
    BY <2>1
<1> QED
  BY <1>2, <1>3

\* A list without repetition is as long as what it lists.
LEMMA OnceEach ==
  ASSUME NEW s, s \in Seq(ToSet(s)), NEW S, NEW f \in [DOMAIN s -> S],
         \A x \in S : \E i \in DOMAIN s : f[i] = x,
         \A i, j \in DOMAIN s : f[i] = f[j] => i = j
  PROVE  Len(s) = Cardinality(S)
<1>1. DOMAIN s = 1 .. Len(s) /\ Len(s) \in Nat
  OBVIOUS
<1>2. f \in Bijection(1 .. Len(s), S)
  BY <1>1 DEF Bijection, Injection, Surjection, IsInjective
<1> QED
  BY <1>1, <1>2, FS_CountingElements DEF ExistsBijection

\* Whatever revision it is given: check lists each rule no packet reaches, naming
\* earlier rules that cover it, and each reachable rule whose deletion changes no
\* packet's verdict, once each, and no other; and a line shows the rule it is about
\* when its chain is the first of its name.
THEOREM DeadRulesFound == Spec => []CheckFindsDeadRules
<1>1. ASSUME IInv, o.command = "check", exit_code = 0 PROVE CheckFindsDeadRules
  <2> DEFINE rules(k) == head_rs[k].body.rules
             dead(k, n) == \A p \in Packets : ~Decides(rules(k), n, p)
             needless(k, n) ==
               AcceptSet(Deleting(head_rs[k].body, n)) = AcceptSet(head_rs[k].body)
             matched_by(k, numbers) == UNION {rules(k)[j].match : j \in numbers}
             listed(what) ==
               {<<f.chain, f.number>> : f \in {g \in ToSet(findings) : g.what = what}}
             positions == UNION {{<<k, n>> : n \in DOMAIN rules(k)} : k \in DOMAIN head_rs}
             covers(k, n) == ExplainShadow(Compile(head_rs[k].body), n)
  <2>1. /\ head_rs \in Ruleset
        /\ findings \in Seq(ToSet(findings)) /\ ToSet(findings) = Lines(Len(head_rs))
        /\ \A i, j \in DOMAIN findings :
             findings[i].chain = findings[j].chain /\ findings[i].number = findings[j].number => i = j
    BY <1>1, CheckDone
  <2>2. \A k \in DOMAIN head_rs : head_rs[k].body \in Chain
    BY <2>1, RulesetBodies
  <2>3. ASSUME NEW k \in DOMAIN head_rs, NEW n
        PROVE  /\ n \in DeadIn(k) <=> n \in DOMAIN rules(k) /\ dead(k, n)
               /\ n \in NeedlessIn(k) <=> n \in DOMAIN rules(k) /\ ~dead(k, n) /\ needless(k, n)
    <3>1. /\ head_rs[k].body \in Chain
          /\ DOMAIN Compile(head_rs[k].body).rules = 1 .. Len(rules(k))
          /\ DOMAIN rules(k) = 1 .. Len(rules(k))
      BY <2>2, Compiled, ChainShape
    <3>2. ASSUME n \in 1 .. Len(rules(k))
          PROVE  /\ Compile(head_rs[k].body).rules[n].shadowed <=> dead(k, n)
                 /\ Compile(head_rs[k].body).rules[n].redundant <=> needless(k, n)
      BY <3>1, <3>2, RuleListed
    <3> HIDE DEF dead, needless
    <3> QED
      BY <3>1, <3>2 DEF DeadIn, NeedlessIn, redundant
  <2>4. ASSUME NEW f
        PROVE  f \in ToSet(findings) <=>
                 \E k \in DOMAIN head_rs :
                   \/ \E n \in DeadIn(k) : f = LineOf(k, n, "unreachable", covers(k, n))
                   \/ \E n \in NeedlessIn(k) : f = LineOf(k, n, "redundant", <<>>)
    BY <2>1, EveryLine
  <2>5. \A k, n, what, covered :
          LET f == LineOf(k, n, what, covered)
          IN  f.chain = k /\ f.number = n /\ f.what = what /\ f.covered = covered
                /\ f.rule = Shown(k, n)
    BY DEF LineOf
  <2> HIDE DEF rules, dead, needless, covers
  <2>6. listed("unreachable") = {at \in positions : dead(at[1], at[2])}
    <3>1. ASSUME NEW at \in listed("unreachable")
          PROVE  at \in positions /\ dead(at[1], at[2])
      <4>1. PICK f \in ToSet(findings) : f.what = "unreachable" /\ at = <<f.chain, f.number>>
        OBVIOUS
      <4>2. PICK k \in DOMAIN head_rs : \E n \in DeadIn(k) : f = LineOf(k, n, "unreachable", covers(k, n))
        BY <2>4, <2>5, <4>1
      <4>3. PICK n \in DeadIn(k) : f = LineOf(k, n, "unreachable", covers(k, n))
        BY <4>2
      <4>4. at = <<k, n>>
        BY <2>5, <4>1, <4>3
      <4> QED
        BY <2>3, <4>3, <4>4
    <3>2. ASSUME NEW at \in positions, dead(at[1], at[2])
          PROVE  at \in listed("unreachable")
      <4>1. PICK k \in DOMAIN head_rs : \E n \in DOMAIN rules(k) : at = <<k, n>>
        OBVIOUS
      <4>2. PICK n \in DOMAIN rules(k) : at = <<k, n>>
        BY <4>1
      <4>3. LineOf(k, n, "unreachable", covers(k, n)) \in ToSet(findings)
        BY <2>3, <2>4, <3>2, <4>2
      <4> QED
        BY <2>5, <4>2, <4>3
    <3> HIDE DEF listed, positions
    <3> QED
      BY <3>1, <3>2
  <2>7. listed("redundant") =
          {at \in positions : ~dead(at[1], at[2]) /\ needless(at[1], at[2])}
    <3>1. ASSUME NEW at \in listed("redundant")
          PROVE  at \in positions /\ ~dead(at[1], at[2]) /\ needless(at[1], at[2])
      <4>1. PICK f \in ToSet(findings) : f.what = "redundant" /\ at = <<f.chain, f.number>>
        OBVIOUS
      <4>2. PICK k \in DOMAIN head_rs : \E n \in NeedlessIn(k) : f = LineOf(k, n, "redundant", <<>>)
        BY <2>4, <2>5, <4>1
      <4>3. PICK n \in NeedlessIn(k) : f = LineOf(k, n, "redundant", <<>>)
        BY <4>2
      <4>4. at = <<k, n>>
        BY <2>5, <4>1, <4>3
      <4> QED
        BY <2>3, <4>3, <4>4
    <3>2. ASSUME NEW at \in positions, ~dead(at[1], at[2]), needless(at[1], at[2])
          PROVE  at \in listed("redundant")
      <4>1. PICK k \in DOMAIN head_rs : \E n \in DOMAIN rules(k) : at = <<k, n>>
        OBVIOUS
      <4>2. PICK n \in DOMAIN rules(k) : at = <<k, n>>
        BY <4>1
      <4>3. LineOf(k, n, "redundant", <<>>) \in ToSet(findings)
        BY <2>3, <2>4, <3>2, <4>2
      <4> QED
        BY <2>5, <4>2, <4>3
    <3> HIDE DEF listed, positions
    <3> QED
      BY <3>1, <3>2
  <2>8. \A f \in ToSet(findings) : f.what \in {"unreachable", "redundant"}
    BY <2>4, <2>5
  <2>9. Len(findings) = Cardinality(listed("unreachable") \cup listed("redundant"))
    <3> DEFINE S == listed("unreachable") \cup listed("redundant")
               at == [i \in DOMAIN findings |-> <<findings[i].chain, findings[i].number>>]
    <3>1. \A i \in DOMAIN findings : findings[i] \in ToSet(findings)
      BY DEF ToSet
    <3>2. at \in [DOMAIN findings -> S]
      BY <2>8, <3>1
    <3>3. ASSUME NEW x \in S PROVE \E i \in DOMAIN findings : at[i] = x
      <4>1. PICK f \in ToSet(findings) : x = <<f.chain, f.number>>
        OBVIOUS
      <4>2. PICK i \in DOMAIN findings : findings[i] = f
        BY DEF ToSet
      <4> QED
        BY <4>1, <4>2
    <3>4. \A i, j \in DOMAIN findings : at[i] = at[j] => i = j
      BY <2>1
    <3> HIDE DEF S, at
    <3> QED
      BY <2>1, <3>2, <3>3, <3>4, OnceEach DEF S
  <2>10. ASSUME NEW f \in ToSet(findings)
         PROVE  /\ f.what = "unreachable" =>
                     /\ ToSet(f.covered) \subseteq 1 .. (f.number - 1)
                     /\ rules(f.chain)[f.number].match \subseteq matched_by(f.chain, ToSet(f.covered))
                /\ (\A k \in 1 .. (f.chain - 1) : head_rs[k].name # head_rs[f.chain].name)
                     => f.rule = {rules(f.chain)[f.number]}
    <3> DEFINE line(k, n) ==
                 \/ n \in DeadIn(k) /\ f = LineOf(k, n, "unreachable", covers(k, n))
                 \/ n \in NeedlessIn(k) /\ f = LineOf(k, n, "redundant", <<>>)
    <3>1. PICK k \in DOMAIN head_rs : \E n : line(k, n)
      BY <2>4
    <3>2. PICK n : line(k, n)
      BY <3>1
    <3>3. f.chain = k /\ f.number = n /\ f.rule = Shown(k, n) /\ n \in DOMAIN rules(k)
      BY <2>3, <2>5, <3>2
    <3>4. head_rs[k].body \in Chain /\ DOMAIN rules(k) = 1 .. Len(rules(k))
      BY <2>2, ChainShape DEF rules
    <3>5. ASSUME f.what = "unreachable"
          PROVE  /\ ToSet(f.covered) \subseteq 1 .. (n - 1)
                 /\ rules(k)[n].match \subseteq matched_by(k, ToSet(f.covered))
      <4>1. n \in DeadIn(k) /\ f.covered = covers(k, n) /\ dead(k, n)
        BY <2>3, <2>5, <3>2, <3>5
      <4>2. /\ ToSet(covers(k, n)) \subseteq 1 .. (n - 1)
            /\ rules(k)[n].match \subseteq UNION {rules(k)[j].match : j \in ToSet(covers(k, n))}
        BY <3>3, <3>4, <4>1, Covers DEF rules, dead, covers
      <4> QED
        BY <4>1, <4>2
    <3>6. ASSUME \A l \in 1 .. (k - 1) : head_rs[l].name # head_rs[k].name
          PROVE  f.rule = {rules(k)[n]}
      <4>1. ChainOf(head_rs, head_rs[k].name) = head_rs[k].body
        BY <2>1, <3>6, FirstOfName
      <4> QED
        BY <3>3, <4>1 DEF Shown, rules
    <3> QED
      BY <3>3, <3>5, <3>6
  <2> QED
    BY <2>6, <2>7, <2>9, <2>10 DEF CheckFindsDeadRules, rules, dead, needless
<1>2. IInv => CheckFindsDeadRules
  BY <1>1 DEF CheckFindsDeadRules
<1> QED
  BY <1>2, Inductive, PTL

(***************************************************************************)
(* What is written comes from one run.                                     *)
(***************************************************************************)
\* A compared chain is a chain of each revision.
LEMMA ComparedChains ==
  ASSUME base_rs \in Ruleset, head_rs \in Ruleset, NEW name \in Compared
  PROVE  ChainOf(base_rs, name) \in Chain /\ ChainOf(head_rs, name) \in Chain
<1>1. ASSUME NEW rs \in Ruleset, Named(rs, name) # {} PROVE ChainOf(rs, name) \in Chain
  <2>1. DOMAIN rs = 1 .. Len(rs) /\ \A k \in DOMAIN rs : rs[k].body \in Chain
    BY RulesetBodies
  <2>2. Named(rs, name) \in SUBSET Nat
    BY <2>1 DEF Named
  <2>3. Least(Named(rs, name)) \in Named(rs, name)
    BY <1>1, <2>2, LeastOf
  <2>4. Least(Named(rs, name)) \in DOMAIN rs
    BY <2>3 DEF Named
  <2> QED
    BY <2>1, <2>4 DEF ChainOf
<1> QED
  BY <1>1 DEF Compared

\* The three outcomes between them are all of the reports.
LEMMA Tally ==
  ASSUME assertions \in Seq(ToSet(assertions)),
         \A k \in DOMAIN assertions : assertions[k].outcome.label \in Outcomes
  PROVE  /\ Len(assertions) = Numbered("PASS") + Numbered("FAIL") + Numbered("VACUOUS")
         /\ \A label : Numbered(label) \in Nat /\ (~Came(label) => Numbered(label) = 0)
<1> DEFINE N == Len(assertions)
           all == 1 .. N
           of(label) == {k \in DOMAIN assertions : assertions[k].outcome.label = label}
<1>1. N \in Nat /\ DOMAIN assertions = all
  OBVIOUS
<1>2. IsFiniteSet(all) /\ Cardinality(all) = N
  BY <1>1, FS_Interval
<1> HIDE DEF N, all
<1>3. \A label : IsFiniteSet(of(label)) /\ Cardinality(of(label)) \in Nat
  <2> SUFFICES ASSUME NEW label PROVE IsFiniteSet(of(label)) /\ Cardinality(of(label)) \in Nat
    OBVIOUS
  <2>1. of(label) \in SUBSET all
    BY <1>1
  <2> HIDE DEF of
  <2>2. IsFiniteSet(of(label))
    BY <1>2, <2>1, FS_Subset
  <2> QED
    BY <2>2, FS_CardinalityType
<1>4. all = (of("PASS") \cup of("FAIL")) \cup of("VACUOUS")
  BY <1>1 DEF Outcomes
<1>5. /\ of("PASS") \cap of("FAIL") = {}
      /\ (of("PASS") \cup of("FAIL")) \cap of("VACUOUS") = {}
  OBVIOUS
<1>6. \A label : Numbered(label) = Cardinality(of(label))
  BY DEF Numbered
<1>7. \A label : ~Came(label) => of(label) = {}
  BY DEF Came
<1> HIDE DEF of
<1>8. /\ IsFiniteSet(of("PASS") \cup of("FAIL"))
      /\ Cardinality(of("PASS") \cup of("FAIL"))
           = Cardinality(of("PASS")) + Cardinality(of("FAIL")) - Cardinality({})
  <2>1. IsFiniteSet(of("PASS")) /\ IsFiniteSet(of("FAIL"))
    BY <1>3
  <2>2. /\ IsFiniteSet(of("PASS") \cup of("FAIL"))
        /\ Cardinality(of("PASS") \cup of("FAIL"))
             = Cardinality(of("PASS")) + Cardinality(of("FAIL"))
                 - Cardinality(of("PASS") \cap of("FAIL"))
    BY <2>1, FS_Union
  <2> QED
    BY <1>5, <2>2
<1>9. Cardinality(all)
        = Cardinality(of("PASS") \cup of("FAIL")) + Cardinality(of("VACUOUS")) - Cardinality({})
  BY <1>3, <1>4, <1>5, <1>8, FS_Union
<1>10. Cardinality({}) = 0
  BY FS_EmptySet
<1>11. N = Numbered("PASS") + Numbered("FAIL") + Numbered("VACUOUS")
  BY <1>2, <1>3, <1>6, <1>8, <1>9, <1>10
<1> QED
  BY <1>3, <1>6, <1>7, <1>10, <1>11 DEF N

\* What the reports are while there is a verdict.
LEMMA ReportsKnown ==
  ASSUME IInv
  PROVE  /\ assertions \in Seq(ToSet(assertions))
         /\ \A k \in DOMAIN assertions : assertions[k].outcome.label \in Outcomes
<1>1. \A k \in DOMAIN assertions : \E a, name : assertions[k] = ReportOf(a, name)
  BY DEF IInv, Evaluating, Reports
<1>2. \A a, name : ReportOf(a, name).outcome.label \in Outcomes
  BY LabelOfCheck DEF ReportOf
<1> QED
  BY <1>1, <1>2 DEF IInv, Evaluating

\* While something is attested, the revisions are what was read and a section is
\* the two compiled chains of a compared name.
LEMMA WhileAttested ==
  ASSUME IInv, attested # {}
  PROVE  /\ o.command = "diff" /\ attested = {Statement}
         /\ base_rs \in Ruleset /\ head_rs \in Ruleset
         /\ exit_code = 0 => ~GateFails(o)
         /\ \A r \in reported : r \in Pages
         /\ \A k \in DOMAIN sections :
              sections[k].name \in Compared /\ sections[k] = SectionOf(sections[k].name)
<1>1. o.command = "diff" /\ verdict # -1 /\ \A att \in attested : att = Statement
  BY DEF IInv, Concluding
<1>2. base_rs \in Ruleset /\ head_rs \in Ruleset
  BY <1>1, Read DEF IInv, Analysing
<1>3. ASSUME exit_code = 0 PROVE ~GateFails(o)
  <2>1. exit_code = verdict /\ verdict = IF GateFails(o) THEN 1 ELSE 0
    BY <1>1, <1>3 DEF IInv, Concluding, Delivered
  <2> QED
    BY <1>3, <2>1
<1>4. \A r \in reported : r \in Pages
  BY DEF IInv, Concluding
<1> QED
  BY <1>1, <1>2, <1>3, <1>4 DEF IInv, Matching

\* The page and the attestation carry the same results and the same totals.
LEMMA SameResults ==
  ASSUME IInv, NEW i, i = Intent
  PROVE  /\ [checked |-> i.checked, passed |-> i.passed, failed |-> i.failed,
             vacuous |-> i.vacuous] = Statement.summary
         /\ \A k \in DOMAIN i.rows :
              /\ i.rows[k].name = Statement.assertions[k].assertion.name
              /\ i.rows[k].outcome = Statement.assertions[k].outcome.label
              /\ i.rows[k].shown = Statement.assertions[k].outcome.counterexample
<1> DEFINE rows == [k \in DOMAIN assertions |-> AssertionRow(assertions[k])]
           tally(label) == Cardinality({k \in DOMAIN rows : rows[k].outcome = label})
<1>1. i = [rows |-> rows, checked |-> Len(rows), passed |-> tally("PASS"),
           failed |-> tally("FAIL"), vacuous |-> tally("VACUOUS")]
  BY DEF Intent
<1>2. /\ DOMAIN rows = DOMAIN assertions
      /\ \A k \in DOMAIN assertions :
           /\ rows[k].name = assertions[k].assertion.name
           /\ rows[k].outcome = assertions[k].outcome.label
           /\ rows[k].shown = assertions[k].outcome.counterexample
  BY DEF AssertionRow
<1>3. Len(rows) = Len(assertions)
  <2>1. assertions \in Seq(ToSet(assertions))
    BY ReportsKnown
  <2>2. DOMAIN assertions = 1 .. Len(assertions) /\ Len(assertions) \in Nat
    BY <2>1
  <2>3. rows = [k \in 1 .. Len(assertions) |-> AssertionRow(assertions[k])]
    BY <2>2
  <2> HIDE DEF rows
  <2> QED
    BY <2>2, <2>3
<1>4. \A label : tally(label) = Numbered(label)
  <2> SUFFICES ASSUME NEW label PROVE tally(label) = Numbered(label)
    OBVIOUS
  <2> HIDE DEF rows
  <2>1. {k \in DOMAIN rows : rows[k].outcome = label}
          = {k \in DOMAIN assertions : assertions[k].outcome.label = label}
    BY <1>2
  <2> QED
    BY <2>1 DEF Numbered
<1>5. /\ Statement.assertions = assertions
      /\ Statement.summary =
           [checked |-> Len(assertions), passed |-> Numbered("PASS"),
            failed |-> Numbered("FAIL"), vacuous |-> Numbered("VACUOUS")]
  BY DEF Statement
<1> HIDE DEF rows, tally
<1>6. i.rows = rows /\ i.checked = Len(rows) /\ i.passed = tally("PASS")
      /\ i.failed = tally("FAIL") /\ i.vacuous = tally("VACUOUS")
  BY <1>1
<1> QED
  BY <1>2, <1>3, <1>4, <1>5, <1>6

\* However the branch moves and whatever fails: a run that delivers a verdict has
\* written everything asked of it and one that could not delivers no report, and
\* what is attested, reported and exited with is of one read of each revision and
\* agrees with itself.
THEOREM OutputsAgree == Spec => []OutputsComeFromOneRun
<1>1. IInv => OutputsComeFromOneRun
  <2> SUFFICES ASSUME IInv PROVE OutputsComeFromOneRun
    OBVIOUS
  <2>1. Finished => reported # {} /\ (o.attest => attested # {})
    BY AtTheEnd
  <2>2. exit_code = 2 => reported = {}
    BY DEF IInv, Concluding, Delivered
  <2>3. ASSUME NEW att \in attested
        PROVE  /\ att = Statement /\ o.command = "diff"
               /\ base_rs \in Ruleset /\ head_rs \in Ruleset
               /\ exit_code = 0 => ~GateFails(o)
               /\ \A r \in reported : r \in Pages
               /\ \A k \in DOMAIN sections :
                    sections[k].name \in Compared /\ sections[k] = SectionOf(sections[k].name)
    BY WhileAttested
  <2>4. /\ Statement.inputs = Inputs /\ Statement.subject = Subject(Inputs)
        /\ Statement.delta = [k \in DOMAIN sections |-> DeltaOf(sections[k])]
        /\ Statement.assertions = assertions
        /\ Statement.summary.checked = Len(assertions)
        /\ Statement.summary.passed = Numbered("PASS")
        /\ Statement.summary.failed = Numbered("FAIL")
        /\ Statement.summary.vacuous = Numbered("VACUOUS")
    BY DEF Statement
  <2>5. /\ Inputs[1].digest = base_src /\ Inputs[1].label = 0 /\ Inputs[2].label = head_label
        /\ Subject(Inputs) = {[name |-> head_label, digest |-> head_src]}
    <3> DEFINE in1 == [role |-> "base", label |-> 0, digest |-> base_src]
               in2 == [role |-> "head", label |-> head_label, digest |-> head_src]
    <3>1. Inputs = <<in1, in2>>
      BY DEF Inputs
    <3>2. DOMAIN <<in1, in2>> = 1 .. 2
      OBVIOUS
    <3>3. ToSet(Inputs) = {in1, in2}
      <4>1. \A k \in 1 .. 2 : k = 1 \/ k = 2
        OBVIOUS
      <4>2. Inputs[1] = in1 /\ Inputs[2] = in2 /\ DOMAIN Inputs = 1 .. 2
        BY <3>1, <3>2
      <4> HIDE DEF in1, in2
      <4> QED
        BY <4>1, <4>2 DEF ToSet
    <3>4. {j \in ToSet(Inputs) : j.role = "head"} = {in2}
      BY <3>3
    <3>5. Subject(Inputs) = {[name |-> i.label, digest |-> i.digest] : i \in {in2}}
      <4> HIDE DEF in1, in2
      <4> QED
        BY <3>4 DEF Subject
    <3> QED
      BY <3>1, <3>5
  <2>6. ASSUME NEW att \in attested
        PROVE  /\ att.inputs[1].digest = base_src
               /\ att.subject = {[name |-> att.inputs[2].label, digest |-> head_src]}
    BY <2>3, <2>4, <2>5
  <2>7. ASSUME NEW att \in attested, NEW r \in reported
        PROVE  /\ r.labels = <<att.inputs[1].label, att.inputs[2].label>>
               /\ \A i \in r.intent :
                    /\ [checked |-> i.checked, passed |-> i.passed, failed |-> i.failed,
                        vacuous |-> i.vacuous] = att.summary
                    /\ \A k \in DOMAIN i.rows :
                         /\ i.rows[k].name = att.assertions[k].assertion.name
                         /\ i.rows[k].outcome = att.assertions[k].outcome.label
                         /\ i.rows[k].shown = att.assertions[k].outcome.counterexample
    <3>1. att = Statement /\ r \in Pages
      BY <2>3
    <3>2. r.labels = <<0, head_label>> /\ \A i \in r.intent : i = Intent
      BY <3>1, PageParts
    <3>3. \A i \in r.intent :
            /\ [checked |-> i.checked, passed |-> i.passed, failed |-> i.failed,
                vacuous |-> i.vacuous] = att.summary
            /\ \A k \in DOMAIN i.rows :
                 /\ i.rows[k].name = att.assertions[k].assertion.name
                 /\ i.rows[k].outcome = att.assertions[k].outcome.label
                 /\ i.rows[k].shown = att.assertions[k].outcome.counterexample
      <4> SUFFICES ASSUME NEW i \in r.intent
                   PROVE  /\ [checked |-> i.checked, passed |-> i.passed, failed |-> i.failed,
                              vacuous |-> i.vacuous] = Statement.summary
                          /\ \A k \in DOMAIN i.rows :
                               /\ i.rows[k].name = Statement.assertions[k].assertion.name
                               /\ i.rows[k].outcome = Statement.assertions[k].outcome.label
                               /\ i.rows[k].shown = Statement.assertions[k].outcome.counterexample
        BY <3>1
      <4>1. i = Intent
        BY <3>2
      <4> QED
        BY <4>1, SameResults
    <3> QED
      BY <2>4, <2>5, <3>1, <3>2, <3>3
  <2>8. ASSUME NEW att \in attested, exit_code = 0
        PROVE  /\ att.summary.failed = 0
               /\ att.summary.checked = att.summary.passed + att.summary.vacuous
               /\ ~o.allow_vacuous => att.summary.checked = att.summary.passed
    <3>1. ~Came("FAIL") /\ (~o.allow_vacuous => ~Came("VACUOUS"))
      BY <2>3, <2>8 DEF GateFails
    <3>2. /\ Len(assertions) = Numbered("PASS") + Numbered("FAIL") + Numbered("VACUOUS")
          /\ \A label : Numbered(label) \in Nat /\ (~Came(label) => Numbered(label) = 0)
      BY ReportsKnown, Tally
    <3> QED
      BY <2>3, <2>4, <3>1, <3>2
  <2> QED
    BY <2>1, <2>2, <2>6, <2>7, <2>8 DEF OutputsComeFromOneRun
<1> QED
  BY <1>1, Inductive, PTL

(***************************************************************************)
(* Every listing says how much of the difference it is.                    *)
(***************************************************************************)
\* The cells of a delta under a cap, and what is left of them.
CellsUnder(b, h, delta, cap) == ToSet(Attribute(Compile(b), Compile(h), delta, cap).cells)

CutOff(b, h, delta, cap) == Attribute(Compile(b), Compile(h), delta, cap).truncated

Left(cells, F) == UNION {F[c.set] : c \in cells}

NoneShrank(cells, F) == \A c \in cells : F[c.set] = c.set

Shrinks(F) ==
  F \in [SUBSET Packets -> SUBSET Packets] /\ \A set \in SUBSET Packets : F[set] \subseteq set

IsCell(c) == c.set \in SUBSET Packets /\ c = [was |-> c.was, now |-> c.now, set |-> c.set]

Apart(cells) == \A c, d \in cells : c # d => c.set \cap d.set = {}

\* The cells do not overlap, and are all of the delta exactly when the cap cut
\* none off.
LEMMA CellsKnown ==
  ASSUME NEW b \in Chain, NEW h \in Chain, NEW delta \in SUBSET Packets, NEW cap \in Nat
  PROVE  /\ \A c \in CellsUnder(b, h, delta, cap) : c.set \subseteq delta /\ IsCell(c)
         /\ Apart(CellsUnder(b, h, delta, cap))
         /\ CutOff(b, h, delta, cap) <=> UNION {c.set : c \in CellsUnder(b, h, delta, cap)} # delta
<1> DEFINE split == Attribute(Compile(b), Compile(h), delta, cap)
           S == CellSet(Compile(b), Compile(h), delta)
           cells == ToSet(split.cells)
           n == Len(split.cells)
<1>1. /\ split.cells \in Seq(S) /\ n \in Nat /\ n <= cap /\ DOMAIN split.cells = 1 .. n
      /\ \A k \in 1 .. n : split.cells[k] \in S
      /\ \A j, k \in 1 .. n : j # k => split.cells[j].set \cap split.cells[k].set = {}
      /\ split.truncated \in BOOLEAN
      /\ split.truncated <=> UNION {split.cells[k].set : k \in 1 .. n} # delta
  BY Attributed
<1>2. \A x \in S : x.set \subseteq delta /\ x = [was |-> x.was, now |-> x.now, set |-> x.set]
  <2>1. \A x \in S : x = Cell(Compile(b), Compile(h), delta, x.was, x.now) /\ x.set \subseteq delta
    BY CellsExact
  <2> HIDE DEF S
  <2> QED
    BY <2>1 DEF Cell
<1> HIDE DEF split, S
<1>3. cells = {split.cells[k] : k \in 1 .. n}
  BY <1>1 DEF ToSet
<1>4. \A c \in cells : /\ c.set \subseteq delta /\ c.set \in SUBSET Packets
                       /\ c = [was |-> c.was, now |-> c.now, set |-> c.set]
  BY <1>1, <1>2, <1>3
<1>5. \A c, d \in cells : c # d => c.set \cap d.set = {}
  BY <1>1, <1>3
<1>6. split.truncated <=> UNION {c.set : c \in cells} # delta
  <2>1. UNION {split.cells[k].set : k \in 1 .. n} = UNION {c.set : c \in cells}
    BY <1>3
  <2> QED
    BY <1>1, <2>1
<1>7. cells = CellsUnder(b, h, delta, cap) /\ split.truncated = CutOff(b, h, delta, cap)
  BY DEF cells, split, CellsUnder, CutOff
<1> HIDE DEF cells, n
<1> QED
  BY <1>4, <1>5, <1>6, <1>7 DEF IsCell, Apart

\* What is made of the cells, none of them grown, lies in the delta, and is all
\* of it exactly when the cap cut none off and none shrank.
LEMMA CellsTell ==
  ASSUME NEW b \in Chain, NEW h \in Chain, NEW delta \in SUBSET Packets, NEW cap \in Nat,
         NEW F, Shrinks(F)
  PROVE  /\ Left(CellsUnder(b, h, delta, cap), F) \subseteq delta
         /\ (~CutOff(b, h, delta, cap) /\ NoneShrank(CellsUnder(b, h, delta, cap), F))
              <=> Left(CellsUnder(b, h, delta, cap), F) = delta
<1> DEFINE cells == CellsUnder(b, h, delta, cap)
           truncated == CutOff(b, h, delta, cap)
           listed == Left(cells, F)
<1>1. /\ \A c \in cells : c.set \subseteq delta /\ c.set \in SUBSET Packets
      /\ \A c, d \in cells : c # d => c.set \cap d.set = {}
      /\ truncated <=> UNION {c.set : c \in cells} # delta
  <2>1. /\ \A c \in cells : c.set \subseteq delta /\ IsCell(c)
        /\ Apart(cells)
        /\ truncated <=> UNION {c.set : c \in cells} # delta
    BY CellsKnown
  <2> HIDE DEF cells, truncated
  <2> QED
    BY <2>1 DEF IsCell, Apart
<1>2. \A c \in cells : F[c.set] \subseteq c.set
  BY <1>1 DEF Shrinks
<1>3. \A x : x \in listed <=> \E c \in cells : x \in F[c.set]
  BY DEF Left
<1> HIDE DEF cells, truncated, listed
<1>4. listed \subseteq delta /\ listed \subseteq UNION {c.set : c \in cells}
  BY <1>1, <1>2, <1>3
<1>5. ASSUME ~truncated, \A c \in cells : F[c.set] = c.set PROVE listed = delta
  <2>1. UNION {c.set : c \in cells} = delta
    BY <1>1, <1>5
  <2>2. \A x \in delta : \E c \in cells : x \in c.set
    BY <2>1
  <2>3. delta \subseteq listed
    BY <1>3, <1>5, <2>2
  <2> QED
    BY <1>4, <2>3
<1>6. ASSUME listed = delta PROVE ~truncated
  <2>1. UNION {c.set : c \in cells} \subseteq delta
    BY <1>1
  <2>2. UNION {c.set : c \in cells} = delta
    BY <1>4, <1>6, <2>1
  <2> QED
    BY <1>1, <2>2
<1>7. ASSUME listed = delta, NEW c \in cells PROVE F[c.set] = c.set
  <2>1. ASSUME NEW q \in c.set PROVE q \in F[c.set]
    <3>1. PICK d \in cells : q \in F[d.set]
      BY <1>1, <1>3, <1>7, <2>1
    <3>2. d = c
      BY <1>1, <1>2, <2>1, <3>1
    <3> QED
      BY <3>1, <3>2
  <2> QED
    BY <1>2, <2>1
<1>8. (~truncated /\ \A c \in cells : F[c.set] = c.set) <=> listed = delta
  BY <1>5, <1>6, <1>7
<1> QED
  BY <1>4, <1>8 DEF cells, truncated, listed, NoneShrank

\* So a listing in JSON is of its delta,
LEMMA JsonTells ==
  ASSUME NEW b \in Chain, NEW h \in Chain, NEW delta \in SUBSET Packets, NEW section,
         section.bm = Compile(b), section.hm = Compile(h)
  PROVE  Tells(delta_json(section, delta), delta)
<1> DEFINE cells == CellsUnder(b, h, delta, MaxCells)
           truncated == CutOff(b, h, delta, MaxCells)
           all == Enumerated(section, delta, MaxCells)
           part == delta_json(section, delta)
           cut(c) == [c EXCEPT !.set = Reached[c.set]]
           listed == Left(cells, Reached)
<1>1. /\ listed \subseteq delta
      /\ (~truncated /\ NoneShrank(cells, Reached)) <=> listed = delta
      /\ \A c \in cells : IsCell(c)
  <2>1. MaxCells \in Nat /\ Shrinks(Reached)
    BY CellsAssumption, ReachedAssumption DEF Shrinks
  <2> QED
    BY <2>1, CellsKnown, CellsTell
<1>2. /\ all.cells = {cut(c) : c \in cells}
      /\ all.truncated = truncated
      /\ all.incomplete = ~NoneShrank(cells, Reached)
  BY DEF Enumerated, CellsUnder, CutOff, NoneShrank
<1> HIDE DEF cells, truncated, all
<1>3. ListedIn(part) = listed
  <2>1. ListedIn(part) = UNION {cell.set : cell \in all.cells}
    BY DEF delta_json, all, ListedIn
  <2>2. \A c \in cells : cut(c).set = Reached[c.set]
    BY <1>1 DEF IsCell
  <2> HIDE DEF part, cut
  <2>3. \A x : x \in ListedIn(part) <=> \E c \in cells : x \in cut(c).set
    BY <1>2, <2>1
  <2>4. \A x : x \in ListedIn(part) <=> x \in listed
    BY <2>2, <2>3 DEF Left
  <2> QED
    BY <2>1, <2>4
<1>4. SaysAll(part) = (~all.truncated /\ ~all.incomplete) /\ part.packets = Cardinality(delta)
  BY DEF SaysAll, delta_json, all
<1> HIDE DEF part, listed
<1>5. Tells(part, delta)
  BY <1>1, <1>2, <1>3, <1>4 DEF Tells
<1> QED
  BY <1>5 DEF part

\* and a page's, whatever fits on it.
LEMMA PageTells ==
  ASSUME NEW b \in Chain, NEW h \in Chain, NEW delta \in SUBSET Packets, NEW section, NEW fits,
         section.bm = Compile(b), section.hm = Compile(h)
  PROVE  Tells(direction(section, delta, fits), delta)
<1> DEFINE F == [set \in SUBSET Packets |-> Reached[set] \cap fits]
           cells == CellsUnder(b, h, delta, PageCells)
           truncated == CutOff(b, h, delta, PageCells)
           all == Enumerated(section, delta, PageCells)
           part == direction(section, delta, fits)
           cut(c) == [c EXCEPT !.set = Reached[c.set]]
           fit(c) == [c EXCEPT !.set = @ \cap fits]
           listed == Left(cells, F)
<1>1. /\ Shrinks(F)
      /\ \A set \in SUBSET Packets : F[set] = Reached[set] \cap fits /\ Reached[set] \subseteq set
  BY ReachedAssumption DEF Shrinks
<1>2. PageCells \in Nat
  BY CellsAssumption
<1> HIDE DEF F
<1>3. /\ listed \subseteq delta
      /\ (~truncated /\ NoneShrank(cells, F)) <=> listed = delta
      /\ \A c \in cells : IsCell(c)
  BY <1>1, <1>2, CellsKnown, CellsTell
<1>4. /\ all.cells = {cut(c) : c \in cells}
      /\ all.truncated = truncated
      /\ all.incomplete = \E c \in cells : Reached[c.set] # c.set
  BY DEF Enumerated, CellsUnder, CutOff
<1>5. /\ part.cells = {fit(c) : c \in all.cells}
      /\ part.packets = Cardinality(delta)
      /\ SaysAll(part) =
           (~all.truncated /\ ~all.incomplete /\ ~(\E c \in all.cells : ~(c.set \subseteq fits)))
  BY DEF direction, SaysAll
<1> HIDE DEF cells, truncated, all, part
<1>6. \A c \in cells : cut(c).set = Reached[c.set] /\ fit(cut(c)).set = F[c.set]
  BY <1>1, <1>3 DEF IsCell
<1> HIDE DEF cut, fit
<1>7. ListedIn(part) = listed
  <2>1. ListedIn(part) = UNION {cell.set : cell \in part.cells}
    BY DEF ListedIn
  <2>2. \A x : x \in ListedIn(part) <=> \E c \in cells : x \in fit(cut(c)).set
    BY <1>4, <1>5, <2>1
  <2>3. \A x : x \in ListedIn(part) <=> x \in listed
    BY <1>6, <2>2 DEF Left
  <2> QED
    BY <2>1, <2>3
<1>8. (~all.incomplete /\ ~(\E c \in all.cells : ~(c.set \subseteq fits)))
        <=> NoneShrank(cells, F)
  <2>1. (\A c \in all.cells : c.set \subseteq fits)
          <=> \A c \in cells : Reached[c.set] \subseteq fits
    BY <1>4, <1>6
  <2>2. ASSUME NEW c \in cells
        PROVE  F[c.set] = c.set <=> Reached[c.set] = c.set /\ Reached[c.set] \subseteq fits
    <3>1. c.set \in SUBSET Packets
      BY <1>3 DEF IsCell
    <3>2. F[c.set] = Reached[c.set] \cap fits /\ Reached[c.set] \subseteq c.set
      BY <1>1, <3>1
    <3> QED
      BY <3>2
  <2> QED
    BY <1>4, <2>1, <2>2 DEF NoneShrank
<1> HIDE DEF listed
<1>9. Tells(part, delta)
  BY <1>3, <1>4, <1>5, <1>7, <1>8 DEF Tells
<1> QED
  BY <1>9 DEF part

\* The cells under the page's cap are among those under the other.
LEMMA CellsGrow ==
  ASSUME NEW b \in Chain, NEW h \in Chain, NEW delta \in SUBSET Packets
  PROVE  CellsUnder(b, h, delta, PageCells) \subseteq CellsUnder(b, h, delta, MaxCells)
<1> DEFINE all == AllCells(Compile(b), Compile(h), delta)
           S == CellSet(Compile(b), Compile(h), delta)
           N == Cardinality(S)
           upto(cap) == IF Len(all) > cap THEN cap ELSE Len(all)
           first(cap) == SubSeq(all, 1, upto(cap))
<1>1. N \in Nat /\ all \in Seq(S) /\ Len(all) = N
  BY CellsListed
<1>2. \A cap : CellsUnder(b, h, delta, cap) = ToSet(first(cap))
  BY DEF Attribute, CellsUnder
<1> HIDE DEF all, S, N
<1>3. \A cap \in Nat : DOMAIN first(cap) = 1 .. upto(cap) /\ \A k \in 1 .. upto(cap) : first(cap)[k] = all[k]
  BY <1>1
<1>4. PageCells \in Nat /\ MaxCells \in Nat /\ PageCells <= MaxCells
  BY CellsAssumption
<1>5. upto(PageCells) <= upto(MaxCells) /\ upto(PageCells) \in Nat /\ upto(MaxCells) \in Nat
  BY <1>1, <1>4
<1> HIDE DEF upto, first
<1>6. ASSUME NEW k \in 1 .. upto(PageCells)
      PROVE  k \in 1 .. upto(MaxCells) /\ first(PageCells)[k] = first(MaxCells)[k]
  BY <1>3, <1>4, <1>5
<1>7. ToSet(first(PageCells)) \subseteq ToSet(first(MaxCells))
  BY <1>3, <1>4, <1>6 DEF ToSet
<1> QED
  BY <1>2, <1>7

\* A page attributes nothing otherwise than the listing in JSON.
LEMMA PageWithin ==
  ASSUME NEW b \in Chain, NEW h \in Chain, NEW delta \in SUBSET Packets, NEW section, NEW fits,
         section.bm = Compile(b), section.hm = Compile(h)
  PROVE  AttributedAlike(direction(section, delta, fits), delta_json(section, delta))
<1> DEFINE few == CellsUnder(b, h, delta, PageCells)
           many == CellsUnder(b, h, delta, MaxCells)
           page == direction(section, delta, fits)
           whole == delta_json(section, delta)
           cut(c) == [c EXCEPT !.set = Reached[c.set]]
           fit(c) == [c EXCEPT !.set = @ \cap fits]
<1>1. few \subseteq many
  BY CellsGrow
<1>2. \A c \in many : IsCell(c)
  BY CellsAssumption, CellsKnown
<1>3. whole.cells = {cut(c) : c \in many}
  BY DEF delta_json, Enumerated, CellsUnder
<1>4. page.cells = {fit(c) : c \in {cut(c) : c \in few}}
  BY DEF direction, Enumerated, CellsUnder
<1>5. \A c \in many :
        /\ cut(c).was = c.was /\ cut(c).now = c.now /\ cut(c).set = Reached[c.set]
        /\ fit(cut(c)).was = c.was /\ fit(cut(c)).now = c.now
        /\ fit(cut(c)).set = Reached[c.set] \cap fits
  <2>1. ASSUME NEW c \in many
        PROVE  /\ cut(c) = [was |-> c.was, now |-> c.now, set |-> Reached[c.set]]
               /\ fit(cut(c)) = [was |-> c.was, now |-> c.now, set |-> Reached[c.set] \cap fits]
    <3>1. c = [was |-> c.was, now |-> c.now, set |-> c.set]
      BY <1>2 DEF IsCell
    <3>2. cut(c) = [was |-> c.was, now |-> c.now, set |-> Reached[c.set]]
      BY <3>1
    <3>3. fit([was |-> c.was, now |-> c.now, set |-> Reached[c.set]])
            = [was |-> c.was, now |-> c.now, set |-> Reached[c.set] \cap fits]
      OBVIOUS
    <3> HIDE DEF cut, fit
    <3> QED
      BY <3>2, <3>3
  <2> HIDE DEF cut, fit
  <2> QED
    BY <2>1
<1> HIDE DEF cut, fit
<1> HIDE DEF few, many, page, whole
<1>6. ASSUME NEW row \in page.cells
      PROVE  \E cell \in whole.cells :
               row.was = cell.was /\ row.now = cell.now /\ row.set \subseteq cell.set
  <2>1. PICK c \in few : row = fit(cut(c))
    BY <1>4
  <2>2. c \in many /\ cut(c) \in whole.cells
    BY <1>1, <1>3
  <2>3. /\ row.was = cut(c).was /\ row.now = cut(c).now /\ row.set \subseteq cut(c).set
    BY <1>5, <2>1, <2>2
  <2> QED
    BY <2>2, <2>3
<1>7. AttributedAlike(page, whole)
  BY <1>6 DEF AttributedAlike
<1> QED
  BY <1>7 DEF page, whole

\* A listing that agrees with another and is all there is makes that one all.
LEMMA AllCarries ==
  ASSUME NEW part, NEW whole, NEW exactly,
         Tells(part, exactly), Tells(whole, exactly), AttributedAlike(part, whole), SaysAll(part)
  PROVE  SaysAll(whole)
<1>1. ListedIn(part) = exactly /\ ListedIn(whole) \subseteq exactly
  BY DEF Tells
<1>2. ListedIn(part) \subseteq ListedIn(whole)
  BY DEF AttributedAlike, ListedIn
<1> QED
  BY <1>1, <1>2 DEF Tells

\* What is written of a section, in either shape.
LEMMA SectionTells ==
  ASSUME base_rs \in Ruleset, head_rs \in Ruleset, NEW name \in Compared, NEW part,
         part = DeltaOf(SectionOf(name)) \/ \E fits : part = PageOf(SectionOf(name), fits)
  PROVE  LET whole == DeltaOf(SectionOf(name))
             was == AcceptSet(ChainOf(base_rs, name))
             is == AcceptSet(ChainOf(head_rs, name))
         IN  /\ part.chain = name
             /\ Tells(part.blocked, was \ is) /\ Tells(part.allowed, is \ was)
             /\ AttributedAlike(part.blocked, whole.blocked)
             /\ AttributedAlike(part.allowed, whole.allowed)
             /\ SaysAll(part.blocked) => SaysAll(whole.blocked)
             /\ SaysAll(part.allowed) => SaysAll(whole.allowed)
<1> DEFINE b == ChainOf(base_rs, name)
           h == ChainOf(head_rs, name)
           section == SectionOf(name)
           whole == DeltaOf(section)
           lost_set == AcceptSet(b) \ AcceptSet(h)
           won_set == AcceptSet(h) \ AcceptSet(b)
<1>1. b \in Chain /\ h \in Chain
  BY ComparedChains
<1>2. section.name = name /\ section.bm = Compile(b) /\ section.hm = Compile(h)
  BY DEF SectionOf
<1>3. NewlyBlocked(section.bm, section.hm) = lost_set /\ NewlyAllowed(section.bm, section.hm) = won_set
  BY <1>1, <1>2, Compiled DEF NewlyBlocked, NewlyAllowed
<1>4. lost_set \in SUBSET Packets /\ won_set \in SUBSET Packets
  BY DEF AcceptSet
<1> HIDE DEF b, h, section, lost_set, won_set
<1>5. /\ whole.chain = name
      /\ whole.blocked = delta_json(section, lost_set) /\ whole.allowed = delta_json(section, won_set)
  BY <1>2, <1>3 DEF DeltaOf
<1>6. Tells(whole.blocked, lost_set) /\ Tells(whole.allowed, won_set)
  BY <1>1, <1>2, <1>4, <1>5, JsonTells
<1>7. /\ part.chain = name
      /\ Tells(part.blocked, lost_set) /\ Tells(part.allowed, won_set)
      /\ AttributedAlike(part.blocked, whole.blocked)
      /\ AttributedAlike(part.allowed, whole.allowed)
  <2>1. CASE part = whole
    BY <1>5, <1>6, <2>1 DEF AttributedAlike
  <2>2. ASSUME NEW fits, part = PageOf(section, fits)
        PROVE  /\ part.chain = name
               /\ Tells(part.blocked, lost_set) /\ Tells(part.allowed, won_set)
               /\ AttributedAlike(part.blocked, whole.blocked)
               /\ AttributedAlike(part.allowed, whole.allowed)
    <3>1. /\ part.chain = name
          /\ part.blocked = direction(section, lost_set, fits)
          /\ part.allowed = direction(section, won_set, fits)
      BY <1>2, <1>3, <2>2 DEF PageOf
    <3> HIDE DEF whole
    <3> QED
      BY <1>1, <1>2, <1>4, <1>5, <3>1, PageTells, PageWithin
  <2> QED
    BY <2>1, <2>2 DEF section
<1> HIDE DEF whole
<1>8. /\ SaysAll(part.blocked) => SaysAll(whole.blocked)
      /\ SaysAll(part.allowed) => SaysAll(whole.allowed)
  BY <1>6, <1>7, AllCarries
<1> QED
  BY <1>7, <1>8 DEF whole, lost_set, won_set, b, h, section

\* Whatever the caps and wherever the enumerator stops: the attestation and the
\* report have nothing but what the texts differ on, each says whether it has it
\* all, the report attributes no packet otherwise than the attestation does, and
\* one that omits nothing goes with an attestation that omits nothing.
THEOREM ListingsTell == Spec => []ListingsAgree
<1>1. IInv => ListingsAgree
  <2> SUFFICES ASSUME IInv, NEW written \in attested \cup reported, NEW k \in DOMAIN written.delta
               PROVE  LET part == written.delta[k]
                          was == AcceptSet(ChainOf(base_rs, part.chain))
                          is == AcceptSet(ChainOf(head_rs, part.chain))
                      IN /\ Tells(part.blocked, was \ is) /\ Tells(part.allowed, is \ was)
                         /\ \A att \in attested :
                              LET whole == att.delta[k]
                              IN /\ part.chain = whole.chain
                                 /\ AttributedAlike(part.blocked, whole.blocked)
                                 /\ AttributedAlike(part.allowed, whole.allowed)
                                 /\ SaysAll(part.blocked) => SaysAll(whole.blocked)
                                 /\ SaysAll(part.allowed) => SaysAll(whole.allowed)
    BY DEF ListingsAgree
  <2>1. /\ base_rs \in Ruleset /\ head_rs \in Ruleset
        /\ written \in attested => written = Statement
        /\ written \in reported => written \in Pages
        /\ \A j \in DOMAIN sections :
             sections[j].name \in Compared /\ sections[j] = SectionOf(sections[j].name)
    <3>1. CASE attested # {}
      BY <3>1, WhileAttested
    <3>2. CASE attested = {}
      <4>1. Finished
        BY <3>2 DEF IInv, Concluding, Delivered, Finished
      <4> QED
        BY <3>2, <4>1, AtTheEnd
    <3> QED
      BY <3>1, <3>2
  <2>2. /\ Statement.delta = [j \in DOMAIN sections |-> DeltaOf(sections[j])]
        /\ \A att \in attested : att = Statement
    BY DEF Statement, IInv, Concluding
  <2>3. /\ k \in DOMAIN sections
        /\ \/ written.delta[k] = DeltaOf(sections[k])
           \/ \E fits : written.delta[k] = PageOf(sections[k], fits)
    <3>1. CASE written \in attested
      BY <2>1, <2>2, <3>1
    <3>2. CASE written \in reported
      BY <2>1, <3>2, PageParts
    <3> QED
      BY <3>1, <3>2
  <2> DEFINE name == sections[k].name
             part == written.delta[k]
  <2>4. name \in Compared /\ sections[k] = SectionOf(name)
    BY <2>1, <2>3
  <2>5. \A att \in attested : att.delta[k] = DeltaOf(SectionOf(name))
    BY <2>2, <2>3, <2>4
  <2>6. part = DeltaOf(SectionOf(name)) \/ \E fits : part = PageOf(SectionOf(name), fits)
    BY <2>3, <2>4
  <2>7. DeltaOf(SectionOf(name)).chain = name
    BY DEF DeltaOf, SectionOf
  <2> HIDE DEF name, part
  <2> QED
    BY <2>1, <2>4, <2>5, <2>6, <2>7, SectionTells DEF part
<1> QED
  BY <1>1, Inductive, PTL

(***************************************************************************)
(* An assertion file says what its words say.                              *)
(***************************************************************************)
\* The members of a list are the atoms of its value.
LEMMA MembersAtoms ==
  ASSUME NEW v
  PROVE  Atoms(v) = {Members(v)[k] : k \in DOMAIN Members(v)}
<1>1. CASE v.type = "array"
  BY <1>1 DEF Atoms, Members, ToSet
<1>2. CASE v.type # "array"
  <2>1. Members(v) = <<v>> /\ Atoms(v) = {v}
    BY <1>2 DEF Atoms, Members
  <2>2. DOMAIN <<v>> = 1 .. 1 /\ <<v>>[1] = v
    OBVIOUS
  <2>3. \A k \in 1 .. 1 : k = 1
    OBVIOUS
  <2> QED
    BY <2>1, <2>2, <2>3
<1> QED
  BY <1>1, <1>2

\* A list that is not refused is the union of what its members are read as.
LEMMA WholeList ==
  ASSUME NEW read, AllOf(read) # Refused
  PROVE  Refused \notin read /\ AllOf(read) = {UNION UNION read}
BY DEF AllOf

\* A zone is the addresses written in it.
LEMMA ZoneExact ==
  ASSUME NEW v, zone(v) # Refused
  PROVE  UNION zone(v) = UNION {AddressText[m.of] : m \in Atoms(v)}
<1> DEFINE read == {zone_member(Members(v)[k]) : k \in DOMAIN Members(v)}
<1>1. AllOf(read) # Refused /\ zone(v) = AllOf(read) \ {{}}
  BY DEF zone, Refused
<1>2. Refused \notin read /\ AllOf(read) = {UNION UNION read}
  BY <1>1, WholeList
<1>3. read = {zone_member(m) : m \in Atoms(v)}
  BY MembersAtoms
<1>4. \A m \in Atoms(v) : zone_member(m) # Refused
  BY <1>2, <1>3
<1>5. \A m \in Atoms(v) : zone_member(m) = {AddressText[m.of]}
  BY <1>4 DEF zone_member, parse_addr, Refused
<1> HIDE DEF read
<1>6. UNION zone(v) = UNION UNION read
  BY <1>1, <1>2 DEF Refused
<1>7. UNION UNION read = UNION {AddressText[m.of] : m \in Atoms(v)}
  <2>1. \A x : x \in UNION UNION read <=> \E m \in Atoms(v) : x \in AddressText[m.of]
    BY <1>3, <1>5
  <2> QED
    BY <2>1
<1> QED
  BY <1>6, <1>7

\* Ports are the ports written.
LEMMA PortsExact ==
  ASSUME NEW v, parse_ports(v) # Refused
  PROVE  parse_ports(v) =
           {UNION {IF m.type = "integer" THEN {m.of} ELSE RangeText[m.of] : m \in Atoms(v)}}
<1> DEFINE read == {port(Members(v)[k]) : k \in DOMAIN Members(v)}
           says(m) == IF m.type = "integer" THEN {m.of} ELSE RangeText[m.of]
<1>1. Refused \notin read /\ parse_ports(v) = {UNION UNION read}
  BY WholeList DEF parse_ports
<1>2. read = {port(m) : m \in Atoms(v)}
  BY MembersAtoms
<1>3. \A m \in Atoms(v) : port(m) # Refused
  BY <1>1, <1>2
<1>4. \A m \in Atoms(v) : port(m) = {says(m)}
  BY <1>3 DEF port, Refused
<1> HIDE DEF read, says
<1>5. UNION UNION read = UNION {says(m) : m \in Atoms(v)}
  <2>1. \A x : x \in UNION UNION read <=> \E m \in Atoms(v) : x \in says(m)
    BY <1>2, <1>4
  <2> QED
    BY <2>1
<1> QED
  BY <1>1, <1>5 DEF says

\* Protocols are the protocols written.
LEMMA ProtosExact ==
  ASSUME NEW v, parse_protos(v) # Refused
  PROVE  parse_protos(v) =
           {{IF m.type = "integer" THEN m.of ELSE ProtocolNumber[m.of] : m \in Atoms(v)}}
<1> DEFINE read == {protocol(Members(v)[k]) : k \in DOMAIN Members(v)}
           says(m) == IF m.type = "integer" THEN m.of ELSE ProtocolNumber[m.of]
<1>1. Refused \notin read /\ parse_protos(v) = {UNION UNION read}
  BY WholeList DEF parse_protos
<1>2. read = {protocol(m) : m \in Atoms(v)}
  BY MembersAtoms
<1>3. \A m \in Atoms(v) : protocol(m) # Refused
  BY <1>1, <1>2
<1>4. \A m \in Atoms(v) : protocol(m) = {{says(m)}}
  BY <1>3 DEF protocol, Refused
<1> HIDE DEF read, says
<1>5. UNION UNION read = {says(m) : m \in Atoms(v)}
  <2>1. \A m \in Atoms(v) : UNION protocol(m) = {says(m)}
    BY <1>4
  <2>2. \A x : x \in UNION UNION read <=> \E m \in Atoms(v) : x \in UNION protocol(m)
    BY <1>2
  <2>3. \A x : x \in UNION UNION read <=> \E m \in Atoms(v) : x = says(m)
    BY <2>1, <2>2
  <2> QED
    BY <2>3
<1> QED
  BY <1>1, <1>5 DEF says

\* The zones of a document are those of its table.
LEMMA ZonesExact ==
  ASSUME NEW doc, parse_zones(doc) # Refused
  PROVE  LET zones == The(parse_zones(doc))
         IN  /\ \A name : name \in DOMAIN zones
                            <=> "zones" \in DOMAIN doc /\ name \in DOMAIN doc["zones"].of
             /\ \A name \in DOMAIN zones :
                  zones[name] = UNION {AddressText[m.of] : m \in Atoms(doc["zones"].of[name])}
<1> DEFINE zones == The(parse_zones(doc))
<1>1. CASE "zones" \notin DOMAIN doc
  <2>1. parse_zones(doc) = {EmptyTable}
    BY <1>1 DEF parse_zones
  <2>2. zones = EmptyTable
    BY <2>1 DEF The
  <2>3. DOMAIN zones = {}
    BY <2>2 DEF EmptyTable
  <2> QED
    BY <1>1, <2>3
<1>2. CASE "zones" \in DOMAIN doc
  <2> DEFINE table == doc["zones"].of
             read == [name \in DOMAIN table |-> UNION zone(table[name])]
  <2>1. /\ \A name \in DOMAIN table : zone(table[name]) # Refused
        /\ parse_zones(doc) = {read}
    BY <1>2 DEF parse_zones, Refused
  <2>2. zones = read
    BY <2>1 DEF The
  <2>3. /\ DOMAIN zones = DOMAIN table
        /\ \A name \in DOMAIN table : zones[name] = UNION zone(table[name])
    BY <2>2
  <2> QED
    BY <1>2, <2>1, <2>3, ZoneExact
<1> QED
  BY <1>1, <1>2

\* The text of a key that wants one, when it is there and is a text.
LEMMA TextOf ==
  ASSUME NEW t, NEW key
  PROVE  /\ key \notin DOMAIN t => str_field(t, key) = {}
         /\ key \in DOMAIN t /\ t[key].type = "string" => str_field(t, key) = {t[key].of}
         /\ str_field(t, key) # {} =>
              key \in DOMAIN t /\ str_field(t, key) = {t[key].of} /\ The(str_field(t, key)) = t[key].of
<1>1. key \notin DOMAIN t => str_field(t, key) = {}
  BY DEF str_field, Get
<1>2. key \in DOMAIN t => Get(t, key) = {t[key]}
  BY DEF Get
<1>3. key \in DOMAIN t => str_field(t, key) = IF t[key].type = "string" THEN {t[key].of} ELSE {}
  BY <1>2 DEF str_field
<1>4. \A x : The({x}) = x
  BY DEF The
<1> QED
  BY <1>1, <1>3, <1>4

\* One table of a document the reader passed nothing over in, read as an assertion.
LEMMA TableRead ==
  ASSUME NEW doc, Heeded(doc), NEW p \in parse_policy(doc), "assert" \in DOMAIN doc,
         NEW k \in DOMAIN Tables(doc)
  PROVE  LET t == Tables(doc)[k]
             a == AssertionOf(p.zones, t)
         IN  /\ ~malformed(p.zones, t) /\ DOMAIN t \subseteq ASSERT_KEYS
             /\ \A key \in DOMAIN t \cap {"from", "to", "iif", "oif", "chain"} : t[key].type = "string"
             /\ "name" \in DOMAIN t /\ a.name = t["name"].of
             /\ "kind" \in DOMAIN t /\ a.kind = t["kind"].of /\ a.kind \in Kinds
             /\ a.chain = IF "chain" \in DOMAIN t THEN {t["chain"].of} ELSE {}
<1> DEFINE t == Tables(doc)[k]
           a == AssertionOf(p.zones, t)
<1>1. k \in DOMAIN doc["assert"].of /\ t = doc["assert"].of[k].of
  BY DEF Tables
<1>2. ~malformed(p.zones, t)
  BY <1>1, ParsedPolicy
<1>3. \A key \in DOMAIN t \cap {"from", "to", "iif", "oif", "chain"} : t[key].type = "string"
  BY <1>1 DEF Heeded
<1>4. a.name = The(str_field(t, "name")) /\ a.kind = The(str_field(t, "kind"))
      /\ a.chain = str_field(t, "chain")
  BY DEF AssertionOf
<1> HIDE DEF t, a
<1>5. /\ DOMAIN t \subseteq ASSERT_KEYS
      /\ str_field(t, "name") # {} /\ str_field(t, "kind") \cap Kinds # {}
  BY <1>2 DEF malformed
<1>6. "name" \in DOMAIN t /\ a.name = t["name"].of
  BY <1>4, <1>5, TextOf
<1>7. "kind" \in DOMAIN t /\ a.kind = t["kind"].of /\ a.kind \in Kinds
  <2>1. str_field(t, "kind") # {}
    BY <1>5
  <2>2. "kind" \in DOMAIN t /\ a.kind = t["kind"].of /\ str_field(t, "kind") = {t["kind"].of}
    BY <1>4, <2>1, TextOf
  <2> QED
    BY <1>5, <2>2
<1>8. a.chain = IF "chain" \in DOMAIN t THEN {t["chain"].of} ELSE {}
  BY <1>3, <1>4, TextOf
<1> QED
  BY <1>2, <1>3, <1>5, <1>6, <1>7, <1>8 DEF t, a

\* An endpoint admits the addresses its text stands for, and no text admits all.
LEMMA EndExact ==
  ASSUME NEW doc, NEW t, NEW key \in {"from", "to"}, NEW v, parse_zones(doc) # Refused,
         ~malformed(The(parse_zones(doc)), t), key \in DOMAIN t => t[key].type = "string",
         NEW policy, policy.zones = The(parse_zones(doc))
  PROVE  Within(v, Ends(policy, {endpoint(policy.zones, text) : text \in str_field(t, key)}))
           <=> (key \in DOMAIN t => v \in Stands(doc, key, t[key]))
<1> DEFINE zones == The(parse_zones(doc))
           ends == {endpoint(zones, text) : text \in str_field(t, key)}
<1>1. CASE key \notin DOMAIN t
  <2>1. ends = {}
    BY <1>1, TextOf
  <2> QED
    BY <1>1, <2>1 DEF Within, Ends
<1>2. CASE key \in DOMAIN t
  <2> DEFINE text == t[key].of
             e == endpoint(zones, text)
             admitted == UNION resolve(zones, e)
  <2>1. str_field(t, key) = {text}
    BY <1>2, TextOf
  <2>2. resolve(zones, e) # Refused
    BY <2>1 DEF malformed
  <2>3. ends = {e}
    BY <2>1
  <2>4. Ends(policy, ends) = {admitted}
    BY <2>3 DEF Ends
  <2>5. Within(v, Ends(policy, ends)) <=> v \in admitted
    BY <2>4 DEF Within
  <2>6. /\ text \in DOMAIN zones <=> "zones" \in DOMAIN doc /\ text \in DOMAIN doc["zones"].of
        /\ text \in DOMAIN zones =>
             zones[text] = UNION {AddressText[m.of] : m \in Atoms(doc["zones"].of[text])}
    BY ZonesExact
  <2>7. Stands(doc, key, t[key]) =
          IF "zones" \in DOMAIN doc /\ text \in DOMAIN doc["zones"].of
          THEN UNION {AddressText[m.of] : m \in Atoms(doc["zones"].of[text])}
          ELSE AddressText[text]
    BY DEF Stands
  <2> HIDE DEF zones, text
  <2>8. CASE text \in DOMAIN zones
    <3>1. e = [form |-> "zone", text |-> text]
      BY <2>8 DEF endpoint
    <3>2. resolve(zones, e) = {zones[text]}
      BY <2>8, <3>1 DEF resolve
    <3>3. admitted = zones[text]
      BY <3>2
    <3> QED
      BY <1>2, <2>5, <2>6, <2>7, <2>8, <3>3 DEF zones
  <2>9. CASE text \notin DOMAIN zones
    <3>1. e = [form |-> IF text \in AddressShaped THEN "literal" ELSE "zone", text |-> text]
      BY <2>9 DEF endpoint
    <3>2. resolve(zones, e) = parse_addr(text)
      BY <2>2, <2>9, <3>1 DEF resolve
    <3>3. resolve(zones, e) = {AddressText[text]}
      BY <2>2, <3>2 DEF parse_addr
    <3>4. admitted = AddressText[text]
      BY <3>3
    <3> QED
      BY <1>2, <2>5, <2>6, <2>7, <2>9, <3>4 DEF zones
  <2> QED
    BY <2>8, <2>9
<1> QED
  BY <1>1, <1>2

\* The same for ports, protocols and interfaces.
LEMMA FieldsExact ==
  ASSUME NEW doc, NEW t, NEW zones, ~malformed(zones, t), NEW v,
         \A key \in DOMAIN t \cap {"iif", "oif"} : t[key].type = "string"
  PROVE  /\ \A key \in {"sport", "dport"} :
              Within(v, UNION {parse_ports(w) : w \in Get(t, key)})
                <=> (key \in DOMAIN t => v \in Stands(doc, key, t[key]))
         /\ Within(v, UNION {parse_protos(w) : w \in Get(t, "proto")})
              <=> ("proto" \in DOMAIN t => v \in Stands(doc, "proto", t["proto"]))
         /\ \A key \in {"iif", "oif"} :
              Within(v, {{name} : name \in str_field(t, key)})
                <=> (key \in DOMAIN t => v \in Stands(doc, key, t[key]))
<1>1. \A key : Get(t, key) = IF key \in DOMAIN t THEN {t[key]} ELSE {}
  BY DEF Get
<1>2. ASSUME NEW key \in {"sport", "dport"}
      PROVE  Within(v, UNION {parse_ports(w) : w \in Get(t, key)})
               <=> (key \in DOMAIN t => v \in Stands(doc, key, t[key]))
  <2>1. CASE key \notin DOMAIN t
    BY <1>1, <2>1 DEF Within
  <2>2. CASE key \in DOMAIN t
    <3>1. Get(t, key) = {t[key]} /\ parse_ports(t[key]) # Refused
      BY <1>1, <2>2 DEF malformed
    <3>2. parse_ports(t[key]) = {Stands(doc, key, t[key])}
      BY <3>1, PortsExact DEF Stands
    <3>3. UNION {parse_ports(w) : w \in Get(t, key)} = {Stands(doc, key, t[key])}
      BY <3>1, <3>2
    <3> QED
      BY <2>2, <3>3 DEF Within
  <2> QED
    BY <2>1, <2>2
<1>3. Within(v, UNION {parse_protos(w) : w \in Get(t, "proto")})
        <=> ("proto" \in DOMAIN t => v \in Stands(doc, "proto", t["proto"]))
  <2>1. CASE "proto" \notin DOMAIN t
    BY <1>1, <2>1 DEF Within
  <2>2. CASE "proto" \in DOMAIN t
    <3>1. Get(t, "proto") = {t["proto"]} /\ parse_protos(t["proto"]) # Refused
      BY <1>1, <2>2 DEF malformed
    <3>2. parse_protos(t["proto"]) = {Stands(doc, "proto", t["proto"])}
      BY <3>1, ProtosExact DEF Stands
    <3>3. UNION {parse_protos(w) : w \in Get(t, "proto")} = {Stands(doc, "proto", t["proto"])}
      BY <3>1, <3>2
    <3> QED
      BY <2>2, <3>3 DEF Within
  <2> QED
    BY <2>1, <2>2
<1>4. ASSUME NEW key \in {"iif", "oif"}
      PROVE  Within(v, {{name} : name \in str_field(t, key)})
               <=> (key \in DOMAIN t => v \in Stands(doc, key, t[key]))
  <2>1. CASE key \notin DOMAIN t
    BY <2>1, TextOf DEF Within
  <2>2. CASE key \in DOMAIN t
    <3>1. str_field(t, key) = {t[key].of}
      BY <2>2, TextOf
    <3>2. Stands(doc, key, t[key]) = {t[key].of}
      BY DEF Stands
    <3> QED
      BY <2>2, <3>1, <3>2 DEF Within
  <2> QED
    BY <2>1, <2>2
<1> QED
  BY <1>2, <1>3, <1>4

\* What a table claims, by its words.
Field(key) == CASE key = "from" -> "src" [] key = "to" -> "dst" [] OTHER -> key

Meaning(doc, t) ==
  [name |-> t["name"].of, kind |-> t["kind"].of,
   chain |-> IF "chain" \in DOMAIN t THEN {t["chain"].of} ELSE {},
   packets |->
     {p \in Packets : \A key \in DOMAIN t \ {"name", "kind", "chain"} :
        Header[p][Field(key)] \in Stands(doc, key, t[key])}]

\* What an assertion is taken to claim.
Claim(policy, a) ==
  [name |-> a.name, kind |-> a.kind, chain |-> a.chain, packets |-> assertion_set(policy, a)]

\* An assertion is about the packets its words describe, and no others.
LEMMA AssertionExact ==
  ASSUME NEW doc, Heeded(doc), NEW p \in parse_policy(doc), "assert" \in DOMAIN doc,
         NEW k \in DOMAIN Tables(doc)
  PROVE  Claim(p, AssertionOf(p.zones, Tables(doc)[k])) = Meaning(doc, Tables(doc)[k])
<1> DEFINE t == Tables(doc)[k]
           a == AssertionOf(p.zones, t)
<1>1. /\ ~malformed(p.zones, t) /\ DOMAIN t \subseteq ASSERT_KEYS
      /\ \A key \in DOMAIN t \cap {"from", "to", "iif", "oif", "chain"} : t[key].type = "string"
      /\ a.name = t["name"].of /\ a.kind = t["kind"].of
      /\ a.chain = IF "chain" \in DOMAIN t THEN {t["chain"].of} ELSE {}
  BY TableRead
<1>2. parse_zones(doc) # Refused /\ p.zones = The(parse_zones(doc))
  BY ParsedPolicy
<1>3. /\ a.from = {endpoint(p.zones, text) : text \in str_field(t, "from")}
      /\ a.to = {endpoint(p.zones, text) : text \in str_field(t, "to")}
      /\ a.proto = UNION {parse_protos(v) : v \in Get(t, "proto")}
      /\ a.sport = UNION {parse_ports(v) : v \in Get(t, "sport")}
      /\ a.dport = UNION {parse_ports(v) : v \in Get(t, "dport")}
      /\ a.iif = str_field(t, "iif") /\ a.oif = str_field(t, "oif")
  BY DEF AssertionOf
<1> HIDE DEF t, a
<1>4. ASSUME NEW q \in Packets
      PROVE  q \in assertion_set(p, a) <=>
               \A key \in DOMAIN t \ {"name", "kind", "chain"} :
                 Header[q][Field(key)] \in Stands(doc, key, t[key])
  <2> DEFINE holds(key) == key \in DOMAIN t => Header[q][Field(key)] \in Stands(doc, key, t[key])
  <2>1. /\ Within(Header[q].src, Ends(p, a.from)) <=> holds("from")
        /\ Within(Header[q].dst, Ends(p, a.to)) <=> holds("to")
    <3>1. Field("from") = "src" /\ Field("to") = "dst"
      BY DEF Field
    <3>2. /\ "from" \in DOMAIN t => t["from"].type = "string"
          /\ "to" \in DOMAIN t => t["to"].type = "string"
      BY <1>1
    <3>3. Within(Header[q].src, Ends(p, a.from))
            <=> ("from" \in DOMAIN t => Header[q].src \in Stands(doc, "from", t["from"]))
      BY <1>1, <1>2, <1>3, <3>2, EndExact
    <3>4. Within(Header[q].dst, Ends(p, a.to))
            <=> ("to" \in DOMAIN t => Header[q].dst \in Stands(doc, "to", t["to"]))
      BY <1>1, <1>2, <1>3, <3>2, EndExact
    <3> QED
      BY <3>1, <3>3, <3>4
  <2>2. /\ Within(Header[q].sport, a.sport) <=> holds("sport")
        /\ Within(Header[q].dport, a.dport) <=> holds("dport")
        /\ Within(Header[q].proto, a.proto) <=> holds("proto")
        /\ Within(Header[q].iif, {{name} : name \in a.iif}) <=> holds("iif")
        /\ Within(Header[q].oif, {{name} : name \in a.oif}) <=> holds("oif")
    <3>1. \A key \in {"sport", "dport", "proto", "iif", "oif"} : Field(key) = key
      BY DEF Field
    <3>2. \A key \in DOMAIN t \cap {"iif", "oif"} : t[key].type = "string"
      BY <1>1
    <3>3. Within(Header[q].sport, a.sport)
            <=> ("sport" \in DOMAIN t => Header[q].sport \in Stands(doc, "sport", t["sport"]))
      <4>1. Within(Header[q].sport, UNION {parse_ports(w) : w \in Get(t, "sport")})
              <=> ("sport" \in DOMAIN t => Header[q].sport \in Stands(doc, "sport", t["sport"]))
        BY <1>1, <3>2, FieldsExact
      <4> QED
        BY <1>3, <4>1
    <3>4. Within(Header[q].dport, a.dport)
            <=> ("dport" \in DOMAIN t => Header[q].dport \in Stands(doc, "dport", t["dport"]))
      <4>1. Within(Header[q].dport, UNION {parse_ports(w) : w \in Get(t, "dport")})
              <=> ("dport" \in DOMAIN t => Header[q].dport \in Stands(doc, "dport", t["dport"]))
        BY <1>1, <3>2, FieldsExact
      <4> QED
        BY <1>3, <4>1
    <3>5. Within(Header[q].proto, a.proto)
            <=> ("proto" \in DOMAIN t => Header[q].proto \in Stands(doc, "proto", t["proto"]))
      <4>1. Within(Header[q].proto, UNION {parse_protos(w) : w \in Get(t, "proto")})
              <=> ("proto" \in DOMAIN t => Header[q].proto \in Stands(doc, "proto", t["proto"]))
        BY <1>1, <3>2, FieldsExact
      <4> QED
        BY <1>3, <4>1
    <3>6. Within(Header[q].iif, {{name} : name \in a.iif})
            <=> ("iif" \in DOMAIN t => Header[q].iif \in Stands(doc, "iif", t["iif"]))
      BY <1>1, <1>3, <3>2, FieldsExact
    <3>7. Within(Header[q].oif, {{name} : name \in a.oif})
            <=> ("oif" \in DOMAIN t => Header[q].oif \in Stands(doc, "oif", t["oif"]))
      BY <1>1, <1>3, <3>2, FieldsExact
    <3> QED
      BY <3>1, <3>3, <3>4, <3>5, <3>6, <3>7
  <2>3. q \in assertion_set(p, a) <=>
          \A key \in {"from", "to", "proto", "sport", "dport", "iif", "oif"} : holds(key)
    <3> HIDE DEF holds
    <3> QED
      BY <2>1, <2>2 DEF assertion_set
  <2>4. DOMAIN t \ {"name", "kind", "chain"}
          \subseteq {"from", "to", "proto", "sport", "dport", "iif", "oif"}
    BY <1>1 DEF ASSERT_KEYS
  <2> QED
    BY <2>3, <2>4
<1>5. assertion_set(p, a) =
        {q \in Packets : \A key \in DOMAIN t \ {"name", "kind", "chain"} :
           Header[q][Field(key)] \in Stands(doc, key, t[key])}
  <2>1. assertion_set(p, a) \subseteq Packets
    BY DEF assertion_set
  <2> QED
    BY <1>4, <2>1
<1> QED
  BY <1>1, <1>5 DEF Claim, Meaning, t, a

\* The claims of a file are what its assertions are taken to claim.
LEMMA ClaimsExact ==
  ASSUME IInv, Finished, AllHeeded
  PROVE  /\ Claims = {Claim(The(read_policy), a) : a \in Asserted}
         /\ \A a \in Asserted : a.kind \in Kinds
         /\ \A doc \in {d \in assert_file : "assert" \in DOMAIN d} :
              \A t \in ToSet(Tables(doc)) : DOMAIN t \subseteq ASSERT_KEYS
<1> DEFINE D == {d \in assert_file : "assert" \in DOMAIN d}
           policy == The(read_policy)
<1>1. /\ read_policy = UNION {parse_policy(doc) : doc \in assert_file}
      /\ assert_file # {} => read_policy # {}
  BY DEF IInv, Loaded, Finished, Delivered
<1>2. Claims = UNION {{Meaning(doc, t) : t \in ToSet(Tables(doc))} : doc \in D}
  BY DEF Claims, Meaning, Field
<1>3. CASE assert_file = {}
  <2>1. read_policy = {} /\ D = {}
    BY <1>1, <1>3
  <2>2. Asserted = {} /\ Claims = {}
    BY <1>2, <2>1 DEF Asserted
  <2> QED
    BY <2>1, <2>2
<1>4. CASE assert_file # {}
  <2>1. PICK doc \in assert_file : assert_file = {doc} /\ policy \in parse_policy(doc)
    BY <1>1, <1>4, PolicyOf DEF IInv
  <2>2. Heeded(doc)
    BY DEF AllHeeded
  <2>3. Asserted = ToSet(policy.assertions)
    BY <1>1, <1>4 DEF Asserted
  <2>4. CASE "assert" \notin DOMAIN doc
    <3>1. policy.assertions = <<>> /\ D = {}
      BY <2>1, <2>4, ParsedPolicy
    <3>2. Asserted = {} /\ Claims = {}
      BY <1>2, <2>3, <3>1, NoItems
    <3> QED
      BY <3>1, <3>2
  <2>5. CASE "assert" \in DOMAIN doc
    <3> DEFINE K == DOMAIN Tables(doc)
               a(k) == AssertionOf(policy.zones, Tables(doc)[k])
    <3>1. D = {doc} /\ policy.assertions = [k \in K |-> a(k)]
      BY <2>1, <2>5, ParsedPolicy
    <3>2. Asserted = {a(k) : k \in K} /\ ToSet(Tables(doc)) = {Tables(doc)[k] : k \in K}
      <4> HIDE DEF K, a
      <4>1. ToSet(policy.assertions) = {a(k) : k \in K}
        BY <3>1 DEF ToSet
      <4> QED
        BY <2>3, <4>1 DEF ToSet, K
    <3>3. \A k \in K : Claim(policy, a(k)) = Meaning(doc, Tables(doc)[k])
      BY <2>1, <2>2, <2>5, AssertionExact
    <3>4. \A k \in K : a(k).kind \in Kinds /\ DOMAIN Tables(doc)[k] \subseteq ASSERT_KEYS
      BY <2>1, <2>2, <2>5, TableRead
    <3> HIDE DEF K, a, policy
    <3>5. Claims = {Meaning(doc, Tables(doc)[k]) : k \in K}
      BY <1>2, <3>1, <3>2
    <3>6. {Claim(policy, b) : b \in Asserted} = {Meaning(doc, Tables(doc)[k]) : k \in K}
      BY <3>2, <3>3
    <3> QED
      BY <3>1, <3>2, <3>4, <3>5, <3>6 DEF policy
  <2> QED
    BY <2>4, <2>5
<1> QED
  BY <1>3, <1>4

(***************************************************************************)
(* The gate.                                                               *)
(***************************************************************************)
\* What an outcome says of a chain, by first match alone.
LEMMA CheckExact ==
  ASSUME NEW c \in Chain, NEW policy, NEW a, a.kind \in Kinds
  PROVE  LET outcome == check(policy, Compile(c), a)
             claim == Claim(policy, a)
         IN  /\ outcome.label = "VACUOUS" <=> ~Meaningful(claim, c)
             /\ outcome.label = "PASS" <=> Meaningful(claim, c) /\ Holds(claim, c)
             /\ outcome.label = "FAIL" <=> Meaningful(claim, c) /\ ~Holds(claim, c)
             /\ outcome.label = "FAIL" =>
                  \E p \in outcome.counterexample :
                    p \in claim.packets /\ (AcceptedFrom(c, 1, p) <=> claim.kind = "isolation")
<1> DEFINE model == Compile(c)
           claim == Claim(policy, a)
           S == assertion_set(policy, a)
           bad == Offending(policy, model, a)
           broken == witness(bad)
           outcome == check(policy, model, a)
<1>1. /\ model.accept = AcceptSet(c)
      /\ model.matched_any = MatchedBefore(c.rules, Len(c.rules) + 1)
  BY DEF Compile
<1>2. S \subseteq Packets /\ claim.packets = S /\ claim.kind = a.kind
  BY DEF assertion_set, Claim
<1>3. \A p \in Packets : p \in model.matched_any <=> ~FallsThrough(c.rules, p)
  <2>1. DOMAIN c.rules = 1 .. Len(c.rules) /\ Len(c.rules) \in Nat
    BY ChainShape
  <2>2. (Len(c.rules) + 1) - 1 = Len(c.rules)
    BY <2>1
  <2> QED
    BY <1>1, <2>1, <2>2 DEF MatchedBefore, FallsThrough
<1>4. \A p \in Packets : p \in model.accept <=> AcceptedFrom(c, 1, p)
  BY <1>1 DEF AcceptSet
<1> HIDE DEF model, S, claim
<1>5. Vacuous(policy, model, a) <=> ~Meaningful(claim, c)
  BY <1>2, <1>3 DEF Vacuous, Meaningful, S
<1>6. \A p : p \in bad <=> p \in S /\ (AcceptedFrom(c, 1, p) <=> a.kind = "isolation")
  <2>1. bad = IF a.kind = "isolation" THEN S \cap model.accept ELSE S \ model.accept
    BY DEF Offending, S
  <2> HIDE DEF bad
  <2>2. CASE a.kind = "isolation"
    BY <1>2, <1>4, <2>1, <2>2
  <2>3. CASE a.kind # "isolation"
    BY <1>2, <1>4, <2>1, <2>3
  <2> QED
    BY <2>2, <2>3
<1>7. a.kind = "reachability" <=> a.kind # "isolation"
  BY DEF Kinds
<1> HIDE DEF bad
<1>8. bad = {} <=> Holds(claim, c)
  BY <1>2, <1>6, <1>7 DEF Holds
<1>9. (broken = {} <=> bad = {}) /\ broken \subseteq bad
  BY DEF witness
<1> HIDE DEF broken
<1>10. outcome = IF Vacuous(policy, model, a) THEN [label |-> "VACUOUS", counterexample |-> {}]
                 ELSE [label |-> IF broken = {} THEN "PASS" ELSE "FAIL", counterexample |-> broken]
  BY DEF check, broken, bad
<1> HIDE DEF outcome
<1>11. /\ Vacuous(policy, model, a) => outcome.label = "VACUOUS"
       /\ ~Vacuous(policy, model, a) /\ broken = {} => outcome.label = "PASS"
       /\ ~Vacuous(policy, model, a) /\ broken # {} =>
            outcome.label = "FAIL" /\ outcome.counterexample = broken
  BY <1>10
<1>12. /\ outcome.label = "VACUOUS" <=> ~Meaningful(claim, c)
       /\ outcome.label = "PASS" <=> Meaningful(claim, c) /\ Holds(claim, c)
       /\ outcome.label = "FAIL" <=> Meaningful(claim, c) /\ ~Holds(claim, c)
  BY <1>5, <1>8, <1>9, <1>11
<1>13. outcome.label = "FAIL" =>
         \E p \in outcome.counterexample :
           p \in claim.packets /\ (AcceptedFrom(c, 1, p) <=> claim.kind = "isolation")
  BY <1>2, <1>6, <1>9, <1>11
<1> QED
  BY <1>12, <1>13 DEF outcome, model, claim

\* The reports of a finished run: each assertion on each compared chain it is about.
LEMMA AllReported ==
  ASSUME IInv, Finished
  PROVE  /\ \A k \in DOMAIN assertions :
              \E a \in Asserted, name \in Compared :
                Concerns(a, name) /\ assertions[k] = ReportOf(a, name)
         /\ \A a \in Asserted, name \in Compared :
              Concerns(a, name) => \E k \in DOMAIN assertions : assertions[k] = ReportOf(a, name)
<1>1. to_check = <<>> /\ ToSet(to_check) = {}
  BY AtTheEnd, NoItems
<1>2. \A a \in Asserted : Answered(a)
  BY <1>1 DEF IInv, Evaluating, Finished, Delivered
<1>3. \A k \in DOMAIN assertions : assertions[k] \in Reports
  BY DEF IInv, Evaluating
<1> QED
  BY <1>2, <1>3 DEF Reports, Answered

\* One report: what it says of the head's chain of that name.
LEMMA ReportExact ==
  ASSUME IInv, Finished, AllHeeded, NEW a \in Asserted, NEW name \in Compared
  PROVE  LET r == ReportOf(a, name)
             claim == Claim(The(read_policy), a)
             is == ChainOf(head_rs, name)
         IN  /\ r.assertion = a /\ r.chain = name /\ is \in Chain
             /\ r.outcome.label \in Outcomes
             /\ r.outcome.label = "VACUOUS" <=> ~Meaningful(claim, is)
             /\ r.outcome.label = "PASS" <=> Meaningful(claim, is) /\ Holds(claim, is)
             /\ r.outcome.label = "FAIL" <=> Meaningful(claim, is) /\ ~Holds(claim, is)
             /\ r.outcome.label = "FAIL" =>
                  \E p \in r.outcome.counterexample :
                    p \in claim.packets /\ (AcceptedFrom(is, 1, p) <=> claim.kind = "isolation")
<1> DEFINE is == ChainOf(head_rs, name)
           policy == The(read_policy)
<1>1. is \in Chain
  BY AtTheEnd, ComparedChains
<1>2. a.kind \in Kinds
  BY ClaimsExact
<1>3. /\ ReportOf(a, name).assertion = a /\ ReportOf(a, name).chain = name
      /\ ReportOf(a, name).outcome = check(policy, Compile(is), a)
  BY DEF ReportOf
<1> HIDE DEF is, policy
<1> QED
  BY <1>1, <1>2, <1>3, CheckExact, LabelOfCheck DEF is, policy

\* Whatever the words of an assertion file stand for: a file that is not refused is
\* taken whole, and every assertion is answered about exactly the packets its words
\* describe, for exactly the compared chains it is about, by first match; a failure
\* carries a packet that shows it.
THEOREM AssertionsAnswered == Spec => []EveryAssertionAnswered
<1>1. ASSUME IInv, Finished, AllHeeded PROVE EveryAssertionAnswered
  <2> DEFINE policy == The(read_policy)
             found == {<<Claim(policy, assertions[k].assertion), assertions[k].chain>> :
                         k \in DOMAIN assertions}
             due == {pair \in Claims \X Compared : AppliesTo(pair[1], pair[2])}
  <2>1. /\ Claims = {Claim(policy, a) : a \in Asserted}
        /\ \A doc \in {d \in assert_file : "assert" \in DOMAIN d} :
             \A t \in ToSet(Tables(doc)) : DOMAIN t \subseteq ASSERT_KEYS
    BY <1>1, ClaimsExact
  <2>2. /\ \A k \in DOMAIN assertions :
             \E a \in Asserted, name \in Compared :
               Concerns(a, name) /\ assertions[k] = ReportOf(a, name)
        /\ \A a \in Asserted, name \in Compared :
             Concerns(a, name) => \E k \in DOMAIN assertions : assertions[k] = ReportOf(a, name)
    BY <1>1, AllReported
  <2>3. \A a \in Asserted, name \in Compared :
          ReportOf(a, name).assertion = a /\ ReportOf(a, name).chain = name
    BY <1>1, ReportExact
  <2>4. \A a, name : AppliesTo(Claim(policy, a), name) <=> Concerns(a, name)
    BY DEF AppliesTo, Claim, Concerns
  <2>5. found \subseteq due
    <3> SUFFICES ASSUME NEW k \in DOMAIN assertions
                 PROVE  <<Claim(policy, assertions[k].assertion), assertions[k].chain>> \in due
      OBVIOUS
    <3>1. \E a \in Asserted, name \in Compared :
            Concerns(a, name) /\ assertions[k] = ReportOf(a, name)
      BY <2>2
    <3>2. PICK a \in Asserted : \E name \in Compared :
            Concerns(a, name) /\ assertions[k] = ReportOf(a, name)
      BY <3>1
    <3>3. PICK name \in Compared : Concerns(a, name) /\ assertions[k] = ReportOf(a, name)
      BY <3>2
    <3>4. assertions[k].assertion = a /\ assertions[k].chain = name
      BY <2>3, <3>3
    <3>5. Claim(policy, a) \in Claims /\ AppliesTo(Claim(policy, a), name)
      BY <2>1, <2>4, <3>3
    <3> HIDE DEF policy
    <3> QED
      BY <3>4, <3>5
  <2>6. due \subseteq found
    <3> SUFFICES ASSUME NEW c \in Claims, NEW name \in Compared, AppliesTo(c, name)
                 PROVE  <<c, name>> \in found
      OBVIOUS
    <3>1. PICK a \in Asserted : c = Claim(policy, a)
      BY <2>1
    <3>2. PICK k \in DOMAIN assertions : assertions[k] = ReportOf(a, name)
      BY <2>2, <2>4, <3>1
    <3>3. assertions[k].assertion = a /\ assertions[k].chain = name
      BY <2>3, <3>2
    <3> HIDE DEF policy
    <3> QED
      BY <3>1, <3>3
  <2>7. ASSUME NEW k \in DOMAIN assertions
        PROVE  LET c == Claim(policy, assertions[k].assertion)
                   is == ChainOf(head_rs, assertions[k].chain)
                   outcome == assertions[k].outcome
               IN CASE outcome.label = "PASS" -> Holds(c, is) /\ Meaningful(c, is)
                    [] outcome.label = "VACUOUS" -> ~Meaningful(c, is)
                    [] outcome.label = "FAIL" ->
                         \E p \in outcome.counterexample :
                           p \in c.packets /\ (AcceptedFrom(is, 1, p) <=> c.kind = "isolation")
    <3>1. \E a \in Asserted, name \in Compared : assertions[k] = ReportOf(a, name)
      BY <2>2
    <3>2. PICK a \in Asserted : \E name \in Compared : assertions[k] = ReportOf(a, name)
      BY <3>1
    <3>3. PICK name \in Compared : assertions[k] = ReportOf(a, name)
      BY <3>2
    <3> DEFINE c == Claim(policy, a)
               is == ChainOf(head_rs, name)
               outcome == assertions[k].outcome
    <3>4. assertions[k].assertion = a /\ assertions[k].chain = name
      BY <2>3, <3>3
    <3>5. /\ outcome.label \in {"PASS", "FAIL", "VACUOUS"}
          /\ outcome.label = "VACUOUS" <=> ~Meaningful(c, is)
          /\ outcome.label = "PASS" <=> Meaningful(c, is) /\ Holds(c, is)
          /\ outcome.label = "FAIL" =>
               \E p \in outcome.counterexample :
                 p \in c.packets /\ (AcceptedFrom(is, 1, p) <=> c.kind = "isolation")
      BY <1>1, <3>3, ReportExact DEF Outcomes
    <3> HIDE DEF c, is, outcome, policy
    <3>6. (CASE outcome.label = "PASS" -> Holds(c, is) /\ Meaningful(c, is)
             [] outcome.label = "VACUOUS" -> ~Meaningful(c, is)
             [] outcome.label = "FAIL" ->
                  \E p \in outcome.counterexample :
                    p \in c.packets /\ (AcceptedFrom(is, 1, p) <=> c.kind = "isolation"))
      <4>1. CASE outcome.label = "PASS"
        BY <3>5, <4>1
      <4>2. CASE outcome.label = "VACUOUS"
        BY <3>5, <4>2
      <4>3. CASE outcome.label = "FAIL"
        BY <3>5, <4>3
      <4> QED
        BY <3>5, <4>1, <4>2, <4>3
    <3> QED
      BY <3>4, <3>6 DEF c, is, outcome
  <2>8. found = due
    BY <2>5, <2>6
  <2> HIDE DEF policy
  <2> QED
    BY <2>1, <2>7, <2>8 DEF EveryAssertionAnswered, Claim, policy
<1>2. IInv => EveryAssertionAnswered
  BY <1>1 DEF EveryAssertionAnswered
<1> QED
  BY <1>2, Inductive, PTL

\* Which outcomes came, in terms of what the file claims.
LEMMA CameExactly ==
  ASSUME IInv, Finished, AllHeeded
  PROVE  /\ Came("FAIL") <=>
              \E name \in Compared, c \in Claims :
                LET is == ChainOf(head_rs, name)
                IN AppliesTo(c, name) /\ Meaningful(c, is) /\ ~Holds(c, is)
         /\ Came("VACUOUS") <=>
              \E name \in Compared, c \in Claims :
                AppliesTo(c, name) /\ ~Meaningful(c, ChainOf(head_rs, name))
<1> DEFINE policy == The(read_policy)
           is(name) == ChainOf(head_rs, name)
<1>1. Claims = {Claim(policy, a) : a \in Asserted}
  BY ClaimsExact
<1>2. \A a, name : AppliesTo(Claim(policy, a), name) <=> Concerns(a, name)
  BY DEF AppliesTo, Claim, Concerns
<1>3. ASSUME NEW a \in Asserted, NEW name \in Compared
      PROVE  /\ ReportOf(a, name).outcome.label = "VACUOUS" <=> ~Meaningful(Claim(policy, a), is(name))
             /\ ReportOf(a, name).outcome.label = "FAIL" <=>
                  Meaningful(Claim(policy, a), is(name)) /\ ~Holds(Claim(policy, a), is(name))
  BY ReportExact
<1>4. ASSUME NEW label
      PROVE  Came(label) <=>
               \E name \in Compared, a \in Asserted :
                 Concerns(a, name) /\ ReportOf(a, name).outcome.label = label
  BY AllReported DEF Came
<1> HIDE DEF policy, is
<1>5. Came("FAIL") <=>
        \E name \in Compared, c \in Claims :
          AppliesTo(c, name) /\ Meaningful(c, is(name)) /\ ~Holds(c, is(name))
  BY <1>1, <1>2, <1>3, <1>4
<1>6. Came("VACUOUS") <=>
        \E name \in Compared, c \in Claims : AppliesTo(c, name) /\ ~Meaningful(c, is(name))
  BY <1>1, <1>2, <1>3, <1>4
<1> QED
  BY <1>5, <1>6 DEF is

\* Traffic was lost exactly when a compared chain accepts less than it did.
LEMMA LostExactly ==
  ASSUME IInv, Finished
  PROVE  lost <=>
           \E name \in Compared :
             ~(AcceptSet(ChainOf(base_rs, name)) \subseteq AcceptSet(ChainOf(head_rs, name)))
<1>1. /\ \A k \in DOMAIN sections :
           sections[k].name \in Compared /\ sections[k] = SectionOf(sections[k].name)
      /\ \A name \in Compared : \E k \in DOMAIN sections : sections[k].name = name
  BY AtTheEnd
<1>2. ASSUME NEW name \in Compared
      PROVE  NewlyBlocked(SectionOf(name).bm, SectionOf(name).hm) # {} <=>
               ~(AcceptSet(ChainOf(base_rs, name)) \subseteq AcceptSet(ChainOf(head_rs, name)))
  BY DEF SectionOf, NewlyBlocked, Compile
<1>3. lost <=> \E name \in Compared : NewlyBlocked(SectionOf(name).bm, SectionOf(name).hm) # {}
  <2>1. ASSUME NEW k \in DOMAIN sections
        PROVE  \E name \in Compared : sections[k] = SectionOf(name)
    BY <1>1
  <2>2. ASSUME NEW name \in Compared
        PROVE  \E k \in DOMAIN sections : sections[k] = SectionOf(name)
    BY <1>1
  <2> QED
    BY <2>1, <2>2 DEF lost
<1> QED
  BY <1>2, <1>3

\* Whatever the revisions, the words of the assertion file and the options: a run
\* that delivers a verdict exits with 1 exactly when an assertion that bears on a
\* compared chain does not hold of it, or is empty of meaning there and may not be,
\* or a chain accepts less than it did and that was to fail the run; and it exits
\* with the number in its JSON report.
THEOREM ExitCodeExact == Spec => []ExitCodeIsTheGate
<1>1. ASSUME IInv, Finished, AllHeeded
      PROVE  /\ exit_code = 1 <=>
                  \E name \in Compared :
                    LET was == ChainOf(base_rs, name)
                        is == ChainOf(head_rs, name)
                    IN \/ \E c \in Claims : AppliesTo(c, name) /\ Meaningful(c, is) /\ ~Holds(c, is)
                       \/ \E c \in Claims :
                            AppliesTo(c, name) /\ ~Meaningful(c, is) /\ ~o.allow_vacuous
                       \/ o.fail_on_newly_blocked /\ ~(AcceptSet(was) \subseteq AcceptSet(is))
             /\ \A r \in reported : r.exit \subseteq {exit_code}
  <2>1. /\ exit_code = verdict /\ verdict = IF GateFails(o) THEN 1 ELSE 0
        /\ \E page \in Pages : reported = {page}
    BY <1>1, AtTheEnd
  <2>2. exit_code = 1 <=> GateFails(o)
    BY <2>1
  <2> DEFINE is(name) == ChainOf(head_rs, name)
             loses(name) == ~(AcceptSet(ChainOf(base_rs, name)) \subseteq AcceptSet(is(name)))
  <2>3. /\ Came("FAIL") <=>
             \E name \in Compared, c \in Claims :
               AppliesTo(c, name) /\ Meaningful(c, is(name)) /\ ~Holds(c, is(name))
        /\ Came("VACUOUS") <=>
             \E name \in Compared, c \in Claims : AppliesTo(c, name) /\ ~Meaningful(c, is(name))
    BY <1>1, CameExactly
  <2>4. lost <=> \E name \in Compared : loses(name)
    BY <1>1, LostExactly
  <2> HIDE DEF is, loses
  <2>5. GateFails(o) <=>
          \E name \in Compared :
            \/ \E c \in Claims : AppliesTo(c, name) /\ Meaningful(c, is(name)) /\ ~Holds(c, is(name))
            \/ \E c \in Claims : AppliesTo(c, name) /\ ~Meaningful(c, is(name)) /\ ~o.allow_vacuous
            \/ o.fail_on_newly_blocked /\ loses(name)
    BY <2>3, <2>4 DEF GateFails
  <2>6. \A r \in reported : r.exit \subseteq {exit_code}
    BY <2>1, PageParts
  <2> QED
    BY <2>2, <2>5, <2>6 DEF is, loses
<1>2. IInv => ExitCodeIsTheGate
  BY <1>1 DEF ExitCodeIsTheGate
<1> QED
  BY <1>2, Inductive, PTL
=============================================================================
