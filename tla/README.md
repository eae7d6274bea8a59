# A TLA+ model of fwdelta

fwdelta reads two revisions of an nftables ruleset and reports, exactly, which
packets one accepts and the other does not, which rules decide them, and whether
the change still satisfies a set of assertions. A pipeline gates on its exit code.
This directory models the program in TLA+: modules translated from the Rust
source, TLC runs that check them on small instances, and TLAPS proofs that what the
runs check of the analysis, the revision diff, the interval algebra, the frontend,
the command line and the kernel harness holds, but for a few properties, for every
instance.

Contents: [the system](#the-system), [the modules](#the-modules),
[how the code is abstracted](#how-the-code-is-abstracted), [the runs](#the-runs),
[where code and documents disagree](#where-code-and-documents-disagree),
[fairness](#fairness), [the proofs](#the-proofs),
[what is not modelled](#what-is-not-modelled), [plan](#plan).

## The system

`fwdelta diff BASE HEAD` is one sequential process; data flow one way through it.

    source.rs ── text ──▶ nft/parse.rs ── Ruleset ──▶ ir/interface.rs (shared table)
                                                          │
       policy/parse.rs ── assertions ──┐                  ▼
                                       │     engine/header.rs (predicates to diagrams)
                                       │                  ▼
                                       │     engine/accept.rs  analyse() ×2
                                       ▼                  ▼
                     policy/eval.rs ◀── models ──▶ engine/diff.rs  diff()
                           │                              ▼
                           │        enumerate.rs + region.rs (rectangles) ─▶ report/
                           ▼                              ▼
                     cli/main.rs: exit code, attestation, report

`kerneldiff` is a second program that tests the first against the kernel: it
generates chains, loads them with nft into a network namespace, sends packets one
at a time and compares the counter that moved with what the model decides.

| component | state | operations | hard part | correct when |
|---|---|---|---|---|
| `engine/accept.rs` | `matched_any`, compiled rules, backward suffix | `analyse`, `attribute`, `explain_shadow`, `verify` | two passes in opposite directions, early saturation | effective sets are first match, redundancy is deletability |
| `engine/diff.rs` | key index, pairs, leftovers | `pair_rules`, `structural_changes`, `attribute` | identity by content, duplicates, shifting numbers | every rule is accounted for once, facts hold of the right side |
| `ir/intervals.rs`, `header.rs` | canonical range lists | union, intersection, complement, difference, prefixes, lowering | `hi + 1` at the top of the field, adjacency | result is exact and canonical |
| `engine/enumerate.rs`, `region.rs` | path walk, rectangles | walk, render, merge, cap, `flow_count` | budgets: what is left out must be announced | rectangles partition the set |
| `engine/report/mod.rs` | rows of a direction, one per rectangle | `direction`, `qualify`, `collect`, `build` | two caps, counts that do not add, columns lifted out of the rows | page plus announced omissions is the delta |
| `engine/render.rs`, `report/text.rs`, `report/html.rs` | none | `addr`, `port`, `proto`, `iface`, a direction's section and card | the shorter of two forms, cut at a cap | the text reads back as the set, or says how much is hidden |
| `ir/rule.rs`, `interface.rs` | matches, symbol table | constrain, resolve, index | indices shift with the other side's names | a match means the same under any table |
| `nft/parse.rs` | file cursor, rule so far | one handler per statement | any order of statements, refusal half-way | taken whole and exactly, or refused |
| `policy/parse.rs` | zones, assertions | `parse`, `resolve` | zone or address, value or list, keys nobody reads | an assertion is about the packets its words name |
| `policy/eval.rs` | none | `evaluate` | empty and rule-free assertions | PASS is a proof, FAIL has a counterexample |
| `cli/main.rs`, `source.rs`, `attest.rs` | loaded texts and labels, sections, outputs | `cmd_diff`, `cmd_check`, the attestation | partial failure, a branch that moves | exit code is the gate, outputs from one read and in agreement, `check` finds the dead rules |
| `kerneldiff/emit.rs` | none | `rule`, `chain` | a part of a match left unsaid widens the rule | what is written parses back as the chain |
| `kerneldiff` | kernel ruleset, counters, helper process | `run_round`, `probe`, `self_test` | a network that delays, duplicates and loses; commands that fail; helpers that outlive a probe | one counter per probe, no noise becomes a verdict |

Concurrency and failure live in two places: around the command line (a branch may
move and any read or write may fail) and around the kernel harness (kernel,
network and helper processes run on their own). Everything else is sequential, and
its hazards are of the algorithmic kind: direction of passes, boundaries, caps,
order independence and identity. `PROJECT.json` lists the hazards line by line with
the properties that cover them.

## The modules

| module | models | composes |
|---|---|---|
| `Listing` | a finite set as a list in a given order: what a sort, or a loop over rules by number, leaves | – |
| `FirstMatch` | `ir/rule.rs` actions, chains; the reference meaning: `Decides`, `FallsThrough`, `AcceptSet`, `Deleting` | – |
| `PacketWalk` | abstract specification of a chain evaluation: all packets offered to each rule in turn | `FirstMatch` |
| `ChainModel` | the compiled chain (`ChainModel`, `CompiledRule`) and its queries, in closed form | `FirstMatch`, `Listing` |
| `Analyse` | `analyse()` one rule per step: `ForwardRule`, `StartBackward`, `BackwardRule`, `Return` | `ChainModel`, implements `PacketWalk` |
| `Delta` | `newly_allowed`, `newly_blocked`, `attribute` | `ChainModel` |
| `RevisionDiff` | `pair_rules` and `structural_changes`, one rule, pair or leftover per step | `Delta` |
| `Rendering` | `render.rs`: the text of a column from the set of its values, as a form and its terms | `Listing` |
| `IntervalSets` | the loops of `intervals.rs`, one iteration per step; comparators of `header.rs`; every set printed as a column | `Rendering` |
| `Enumerate` | paths of a reduced ordered diagram, the walk, rendering, `region::merge`, cap | – |
| `Report` | `direction()`: attribute, enumerate each cell, rank, cap, make rows, lift columns; the page and the card of `text.rs` and `html.rs` | `Enumerate`, `Delta`, `Rendering` |
| `Symbols` | `SymbolTable`: indices, limit, resolution of a match | – |
| `Frontend` | `nft/parse.rs` one statement per step, then the shared table | `Symbols` |
| `Emit` | `emit.rs`: a chain as statements, and the harness's round trip through the frontend | `Frontend`, `Rendering` |
| `PolicyFile` | `policy/parse.rs`: from TOML values to zones and assertions, or a refusal | – |
| `Policy` | `assertion_set`, `check`, `evaluate` | `ChainModel`, `PolicyFile` |
| `Cli` | `cmd_diff`: load, label, parse, read the assertions, match chains, compare, evaluate, decide, attest, report; `cmd_check`, one chain per step | `Policy`, `Delta` |
| `KernelHook` | external: an input hook with prefilter, counters and a network | `ChainModel` |
| `KernelDiff` | `run_round`, `probe`, `model_verdict`, faults, `self_test`, coverage, exit codes | `KernelHook` |

`...MC` modules hold the small instances and `...Proofs` modules the theorems: about the
state machines `Analyse`, `RevisionDiff`, `IntervalSets`, `Frontend` (with `Emit`), `Cli`
and `KernelDiff`, with the lemmas that several of them need in `ListingProofs` (sorted
lists, and the blocks and runs of `Rendering`) and `ChainModelProofs`. State variables keep the names of the
code's locals (`matched_any`, `by_key`, `added_left`, `omitted_rows`, `unmatched`,
`faults_left`, ...), actions are named for the function or loop they are a step of,
and `map` in `PROJECT.json` gives the lines of each definition.

`Analyse` computes step by step what `ChainModel!Compile` states in closed form.
`ReturnsCompiled` is checked and proved (`CompileCorrect`), so that `Delta`, `Policy`,
`Cli`, `Report` and `KernelDiff` may start from `Compile` without repeating the loops.

## How the code is abstracted

- **A diagram is the set of packets it denotes.** Boolean operations on diagrams
  belong to an external library and are taken as exact. Where the structure of a
  diagram matters (the enumerator walks its paths), `Enumerate` rebuilds the paths of
  the reduced ordered diagram from the set and the variable order.
- **Packets are model values, or points of a small header space** where a property
  speaks of fields (`Report`, `Frontend`, `KernelDiff`).
- **Fields shrink, boundaries stay.** `IntervalSets` uses a field of `Bits` bits whose
  `domain_max` plays the part of the 16-, 32- or 64-bit maximum; `u128` in the code
  rules overflow of `hi + 1` out for a 64-bit field, and the model has no overflow
  either.
- **Content keys are collision-free.** A 64-bit hash of match and action stands for
  the pair itself.
- **Tokens and wording are left out.** A file is a sequence of chains of statements; a
  value is a set of atoms with or without `!=`, each atom the values it stands for, and
  a malformed atom (a backward range, a number past the field) the empty set. Errors are
  outcomes, not messages. What the parser takes without reading is kept: `reject with`
  empties the rest of its line; an unfinished counter or log takes a word, which may be
  the first of the next statement (`Remainder` is what the rest of that one is read as),
  and a counter may take the end of the line, so that `line` runs ahead of the rules pushed.
- **A text is its form and its terms.** `Rendering` keeps which of a column's forms is
  chosen (`any`, list, base with exceptions, count), the terms in order, each the values
  it names, and the number of terms hidden. Padding, colour and escaping are left out, so
  a reader is the operator that adds the terms up again.
- **A document is its TOML values**, a type and a payload each. What a quoted address,
  range or protocol stands for is a constant of `PolicyFile`; which texts stand for
  nothing, and every decision made on types and keys, is modelled.
- **A digest is the text it is taken of**, and a statement a record of what the
  attestation says, without its JSON layout.
- **The kernel is external** and modelled from what the harness does with it: nft
  commands are atomic transactions, a counter is known by whether it has moved, and a
  datagram without ports stands at every port of the model's header space.
- **A harness round has three inputs** that random generation draws: the chain, the
  packets, the fault. `StartRound` never fails, because generated chains are meant to
  parse back; every command after it may.

Mutated forms of definitions (`..._OffByOne`, `..._Never`) stand before the
definition they mutate, marked `Mutant:`. No specification uses them; each is a
plausible slip that the run of its property refutes.

## The runs

Deadlock checking is off in every run: each models a program that ends.

| run | states | instance | shows |
|---|---|---|---|
| `analyse` | 257 142 | every chain of up to 3 rules, any match over 3 packets, 3 actions, both policies | effective sets are first match at every step (`EffectiveIsFirstMatch`); the result is the closed form (`ReturnsCompiled`); a redundant flag is the same as "delete it and no packet changes" (`RedundantMeansDeletable`); the rules named to explain a shadowed rule are earlier ones that cover it, the last of them needed by the others (`ExplanationCovers`); the loops implement the packet walk (`ImplementsWalk`) |
| `revision_diff` | 299 540 | every pair of chains of up to 3 rules over 4 contents that overlap, cover, agree and conflict | equal rules pair in file order and as many as possible (`PairingIsMaximal`); every rule is accounted for once (`EveryRuleAccountedOnce`); reachability and redundancy changes hold of the right revision (`StatusChangesExplained`); one insertion is one addition (`InsertionIsOneAddition`); attributed cells explain the delta, under every cap (`AttributionExplainsDelta`) |
| `intervals` | 1 398 496 | 3-bit field; lists of up to 2 ranges, inverted and overlapping ones included, and all canonical sets of up to 3 | every operation exact (`ResultIsExact`), canonical (`ResultIsCanonical`), prefixes are the maximal aligned blocks (`PrefixesAreMaximalBlocks`), the bitwise lowering denotes the set (`LoweringIsExact`), and every canonical set printed as an address, port, protocol or interface column, in 18 styles, reads back as the set or says how many terms are hidden (`ColumnsReadBack`) |
| `report` | 111 366 | two fields, 3 bits, every delta in both directions, five option sets with budgets at, above and below what is needed | merging keeps a partition (`MergingIsExact`); the lines on the page, read with the columns lifted out of them, are the rectangles found; page or announcement, never silence, and no false announcement (`NothingLeftOutSilently`); the widest rows are kept (`WidestAreShown`); flow counts are exact (`FlowCountsAreExact`) |
| `kerneldiff` | 95 402 | 2 ports, 2 chains, plain run of 3 packets, each of five faults alone, self-test of two; 2 datagrams in flight, 2 sends per helper | only the rule that decides the probe can have moved, whatever is still in the network (`OneCounterPerProbe`); agreement and disagreement are real (`VerdictsAreReal`); exit 0 is earned (`SuccessIsEarned`); the harness ends (`HarnessEnds`) |
| `cli` | 527 994 | 2 chain names, 8 texts, moving branches, 17 assertion documents, both commands, all options | exit code in terms of the texts, the words of the assertion file and the options (`ExitCodeIsTheGate`); every assertion answered, about the packets its words name (`EveryAssertionAnswered`); every name on the page (`EveryNameAccounted`); one read, all outputs: digests, results, totals and labels of report and attestation are of that read and agree with each other (`OutputsComeFromOneRun`); the two list a delta under caps of their own, each says whether it lists the whole of it, and the page attributes no packet otherwise than the attestation (`ListingsAgree`); `check` lists exactly the rules no packet reaches and those whose deletion changes nothing (`CheckFindsDeadRules`) |
| `frontend` | 427 224 | every rule of up to 3 of 19 statements on 3 hooks, `reject with` and unfinished counters and logs among them, files of several chains, every generated chain of one rule and those of two behind a fixed first; 4 names, 3 indices | a file in which the parser passes nothing over is taken whole or refused (`TakenWhole`), and a rule taken of it means what netfilter means (`TranslationIsExact`); other names in the table change nothing (`TableGrowthChangesNothing`); a chain the harness writes out for its round trip reads back as that chain, and the text it gives the kernel, which has a sentinel, is never taken for a chain (`EmittedParsesBack`) |

The remaining five runs each check one sentence of the repository's documents and find it
violated; see below.

Why the bounds are enough:

- *analyse*: shadowing by a union needs two earlier rules and two packets, a rule after
  saturation needs a third, and redundancy relative to a later rule needs the rule, its
  successor and the policy. Three rules and three packets realise all of them; the
  theorems drop the bound.
- *revision_diff*: duplicates on both sides, crossing pairs and an edit next to an
  insertion need three rules.
- *intervals*: with three bits there are sets touching 0, touching the maximum, adjacent
  across a block boundary and with a gap of one; three ranges in an operand make the
  sweep advance either cursor twice. A column is cut after one term, after two, or not
  at all, with every, some or no symbol named: each form is chosen by some set, next to
  a set for which its rival is shorter.
- *report*: eight packets give more cubes than each budget, a field with a free bit
  above a fixed one (a masked value that must be expanded), and two cells. One interface
  has a name, and a column shows one term or all, so that rows agree on a column, differ
  in it, and have hidden terms.
- *kerneldiff*: three packets are the least that vary every dimension, so the plain run
  can succeed; two datagrams are a late one and the current one, or a packet and its
  reply; two sends are one retransmission, also from a helper left behind.
- *cli*: two names cover the four cases present/absent per revision; the same name twice
  is a text of its own; each failure point is enabled in every run. The documents have
  every kind of value that is taken (zone, literal address, number, range, list, name,
  a zone named like an address), and twelve have one thing wrong; one
  chain has a covered rule, a needless one and one that is both. `MaxCells` (4096 in the
  code) is 2 and `PageCells` (64) is 1, so that a delta of two parts is whole in the
  attestation and cut off on the page; the enumerator (`Reached`) leaves a packet out of
  one set, and any rows may fit or not.
- *frontend*: three statements are two matches and a verdict or three matches, in any
  order; three indices for four names reach and pass the limit;
  a negated set of two is there to tell its complement from that of each member; a counter
  that ends its line without its number joins the next line's rule to its own, or meets
  the end of the chain. A
  generated match combines any, a host and a prefix with three protocols, two ports and
  an interface; a second rule is there because the first must not leak into it.

The type invariant of each module is one conjunct of its run; `TypeOK` also bounds
cursors and caps (e.g. the backward cursor, `cubes_visited`, the numbering of
reversed rules).

## Where code and documents disagree

Five runs are expected to end in a violation. The counterexample is the finding.

| run | document | code |
|---|---|---|
| `iifname_twice` | `docs/SEMANTICS.md:61`: a rule is a conjunctive predicate | `with_iif` replaces: of two `iifname` matches in a rule the last alone counts (`rule.rs:166`, `parse.rs:420`) |
| `frontend_dead` | `docs/NFTABLES-SUBSET.md:106`: a match the kernel never applies is rejected | `meta iifname` on an output chain is taken (`parse.rs:726`) |
| `cli_head` | `cli/main.rs:294`: assertions are checked against the head revision | only against chains present in both revisions |
| `report_omitted` | `report/text.rs:69`: "N further entries omitted, covering M flows" | entries dropped by the enumerator's cap are in N and not in M (`report/mod.rs:362`) |
| `self_test` | `README.md:163`: every injected fault must be detected | any error of a round counts as detection, a failed command included (`kerneldiff/main.rs:844`) |

`TranslationIsExact` excludes exactly the two cases of the first two rows
(`Modelled` in `Frontend`), so that it shows the rest of the translation to be right.
`TakenWhole` and `TranslationIsExact` are stated of files in which nothing is passed over
(`AllPlain`), for the reason given first below.
`cli`'s `ExitCodeIsTheGate` and `EveryAssertionAnswered` are stated over the chains
the tool compares, `cli_head` over the head, and for documents the reader heeds every
part of (`Heeded`).

Seen while modelling, without a run of their own:

- `docs/NFTABLES-SUBSET.md:8` says that every construct not listed as supported is a hard
  error and that a rule is never partially understood. After `reject with` the parser
  passes over everything up to the end of the line, unread (`parse.rs:516`): a `ct`, a
  `jump` or a second verdict there is not refused. A counter without its number takes the
  token that follows, a word of the next statement or the end of the line, since
  `skip_counter` discards the error of `expect_num` (`parse.rs:663`). Both are modelled
  and in the files of `frontend`; nftables takes nothing but a comment there, so that what
  is missed is the boundary and not a verdict. With `AllPlain` struck from `TakenWhole`, TLC finds `reject with` and an unsupported statement taken.
- The text report tells the reader to "pass --fail-on-newly-blocked if it should" also
  when the option was given and the run exits with 1 (`report/text.rs:42`); the HTML
  report asks the option first. `SaysNotBlocking` in `Cli` models it.
- `emit::rule` is documented to return `None` for what it cannot express
  (`emit.rs:56`); it drops a negated interface match or a set of several protocols and
  returns the wider rule. The generator makes neither, and the round trip would show it.
- The label of a git revision is read by a second command (`source.rs:53`) and names the
  commit the branch has moved to if it moved in between. `OutputsComeFromOneRun` says of
  the label no more than what holds.
- A direction whose every path is unrenderable is printed as "none"
  (`report/mod.rs:102`); `NothingLeftOutSilently` holds because the card counts flows.
- The page of a diff attributes the delta a second time, under a cap of 64 cells where
  the attestation and the JSON report have 4096 (`report/mod.rs:350`, `cli/main.rs:559`):
  for a delta between, the page lists less, and says so. `ListingsAgree` says what holds.
- A top-level key the reader does not know, and a `from`, `to`, `iif` or `chain` that is
  not a string, is passed over (`policy/parse.rs:326`, `373`, `401`). `Heeded` names
  these documents.

## Fairness

- `Analyse`: `WF_vars(Next)`, one sequential loop.
- `KernelDiff`: weak fairness of the harness's own steps (one thread that nothing
  blocks), of the deadline passing (the clock), and of the network getting rid of a
  datagram one way or the other. Nothing promises that a datagram arrives, that a
  command succeeds or that a helper sends; `HarnessEnds` holds without it.
- Everything else is checked for safety only: the remaining parts are loops over
  finite inputs with nothing to wait for.

## The proofs

Each theorem has the form `Spec => []P` and holds for every value of the constants that
the named assumptions admit; TLC evaluates these assumptions on the runs. In every
module the argument is the same: an invariant `IInv`, a conjunction of named parts, holds
initially, every action preserves it (one lemma per
action), and it implies the properties. TLC checked each `IInv` on its run's instance
before it was proved.

| module | theorem | says, for every instance |
|---|---|---|
| `AnalyseProofs` | `Invariance`, `TypeCorrect` | `IInv`, `TypeOK` |
| | `EffectiveCorrect` | effective sets are first match |
| | `AcceptCorrect`, `ShadowingCorrect` | the accept set and the shadow flags mean what they say |
| | `RedundancyCorrect` | a redundant rule can be deleted without changing any verdict, and only such a rule is flagged |
| | `ExplanationCorrect` | the rules said to shadow a rule are earlier, overlap it, cover it together; the last named is needed, and several are named only when none covers alone |
| | `VerifyCorrect` | `--verify` never refuses a result of `analyse()` (`VerifyNeverFails`, proved and in no run) |
| | `CompileCorrect` | the loops return the closed form `Compile` |
| | `Implementation` | `Analyse` implements `PacketWalk` |
| `RevisionDiffProofs` | `Inductive`, `TypeCorrect` | `IInv`, `TypeOK` |
| | `MaximalPairing` | equal rules pair in file order, and none is left over on both sides |
| | `AllAccounted` | every rule is paired, edited, removed or added, and only one of these |
| | `StatusExplained` | reachability and redundancy changes are reported exactly when they happened, with the rules that cover |
| | `InsertionShown` | one rule inserted or deleted is reported as one addition or removal, and nothing else is |
| | `EveryCap`, `DeltaAttributed` | under whatever cap, the cells of a delta are disjoint parts of it, each decided on both sides by the rules it names, and truncation is announced exactly when they are not all of it |
| `IntervalSetsProofs` | `Inductive`, `TypeCorrect` | `IInv`, `TypeOK` |
| | `ExactResult` | `from_ranges`, `union`, `intersect`, `difference` and `complement` denote what they are named for |
| | `CanonicalResult` | each returns the canonical form, and `is_full` recognises the whole field by it |
| | `PrefixCover` | the prefixes of a range are exactly the maximal aligned blocks in it, in order |
| | `ExactLowering` | the diagram a set is lowered to, bit by bit, admits exactly the values of the set |
| | `ColumnsExact` | a column of any kind reads back as its set, or says how many terms it hides, whatever the style |
| `FrontendProofs` | `Inductive`, `TypeCorrect` | `IInv` for files in which nothing is passed over; `TypeOK` for every file |
| | `WholeOrRefused` | a file in which nothing is passed over is taken with every chain, rule, policy and verdict of it, or refused for a cause in it |
| | `Translation` | a rule taken of such a file matches the packets netfilter matches |
| | `SharedTable` | other names in the shared table change no match |
| | `RoundTripHolds` | a chain written by the emitter is read back as that chain, or refused for the number of its names; the text with the sentinel is never taken |
| `KernelDiffProofs` | `Inductive`, `TypeCorrect` | `IInv`, `TypeOK` |
| | `OneCounter` | only the counter of the rule that decides the probe can have moved |
| | `RealVerdicts` | an agreement or disagreement is one, never noise |
| | `EarnedSuccess` | exit 0 without an injected fault means that every round and packet was checked |
| `CliProofs` | `Inductive`, `TypeCorrect` | `IInv`, `TypeOK` |
| | `ExitCodeExact` | the run exits with 1 exactly when, by first match and the words of the assertion file, an assertion fails or is vacuous or traffic is lost, and the options make that an error |
| | `AssertionsAnswered` | every assertion is answered on every compared chain it is about, as its words and first match answer it; a failure carries a packet that shows it |
| | `NamesAccounted` | every chain name of either revision is on the page: compared, removed or added |
| | `OutputsAgree` | attestation, report and exit code are of one read of each revision and agree in digests, labels, results and totals |
| | `ListingsTell` | attestation and report list only what first match says of the two texts, each says whether it lists all, and neither attributes a packet otherwise than the other |
| | `DeadRulesFound` | `check` lists exactly the rules no packet reaches and those that can go, each once, with covering rules for the former |

### Why the invariants are needed

None of the properties is inductive: each speaks of an end that several loops have
prepared.

- *Analyse.* `RedundantMeansDeletable` speaks of the finished run and of a chain that
  was never analysed; what makes it provable is an invariant about the middle of the
  backward pass. `ForwardInv` says that `matched_any` is the union of the matches compiled
  so far and each compiled rule records its match, effective set and shadow flag by first
  match; `BackwardInv` that `suffix` is the accept set of the chain from `cursor + 1` on and
  that the flags above `cursor` are those of the definition. `SuffixStep`, `SuffixEnd` and
  `SkipUnmatched` relate suffixes of neighbouring rules; `DeletingType`, `DeletingShift` and
  `DeletingVerdict` relate a chain to the chain without one rule. The refinement follows
  from the same invariant: `ForwardOffers` shows that compiling a rule is offering the
  undecided packets to it, `StartBackwardFalls` that the end of the pass is falling to the
  policy, and `BackwardStutters` the rest.
- *RevisionDiff.* That pairing is maximal rests on the index: `Indexed` says that the stack
  of a key is exactly the unpaired head rules with that key, the earliest on top, and
  `Pairs` that every pair and every removal was right when it was made, given what is still
  left. `Rest` says which leftovers the reconciliation has been through, and `Said` what has
  been reported, exactly, so that counting changes of a kind is counting rules.
  `InsertionShown` is then a matter of numbers: each content is said at most once more in
  one revision than in the other (`InsertedCounts`), as many rules of it are paired on
  either side (`PairedBasesFit`, `PairedHeadsFit`), so nothing is left over but the one.
  `EveryCap` needs no invariant but the types: the compiled rules' effective sets and the
  policy's part are disjoint and exhaustive (`Parts`), so the cells are (`CellsExact`), the
  list has each once (`CellsListed`), and a proper prefix of it misses packets because no
  cell is empty (`Attributed`).
- *IntervalSets.* `Merging`, `Sweeping` and `Complementing` say what the values produced so
  far are in terms of the ranges not yet reached, and how far the last range produced is
  from the next one: canonicity of the result comes from the latter. In the sweep a range
  is passed only when the other operand has nothing left to meet it. `Covering` says that no
  aligned block of the range straddles the cursor, from which each block taken is maximal
  and every maximal block below the cursor has been taken; aligned blocks nest (`Nested`).
  What an operation returns is then looked at in two ways. The comparators `Geq` and `Leq`
  go from the lowest bit up, and at each bit their answer is the comparison of what two
  numbers leave below it (`LowPart`), so that at the top it is the comparison of the
  numbers. The terms of a column are a family of disjoint sets that are not empty and have
  the set as their union (`Family`, `Terms`): maximal blocks, maximal runs, or single
  values; a list cut at the cap therefore leaves out at least as many values as it hides
  terms, of the set in a list and of the holes in an exclusion.
- *Frontend.* `Typed` holds for every file; it is all that `TypeCorrect` and
  `SharedTable` need. The rest is about the files in which nothing is passed over
  (`AllPlain`), where line and rule, statement read and statement written go together.
  The rule in hand is what its first `n` statements amount to (`Reading`), every rule
  pushed is what its statements amount to (`ChainsTaken`), and a refusal has a cause in
  the text (`Ended`), whatever order the statements come in. The round trip rests on the
  same invariant: the statements of a written rule are known (`RuleWritten`), what they
  leave of each dimension is the rule's own match (`RulePasses`, from the prefixes and
  ranges as `Terms`), so the rule is in the subset and what is taken of it is that rule;
  the sentinel has no verdict and is outside every subset.
- *Cli.* The properties speak of a run that has ended and of texts read long before.
  `Loaded` says that each revision was read once and that reading it is what every later
  step works on, wherever the branch is by then. `Matching`, `Evaluating` and `Checking` are
  about loops over names, assertions and chains: each name is still to be compared or
  accounted for (`Accounted`), each assertion still to be evaluated or answered (`Answered`),
  and what `check` has listed is the lines about the chains before `chain_at`, without
  repetition. `Concluding` ties the verdict, the attestation and the report to the sections
  and the reports they were made from. The rest is about operators: a document that is not
  refused denotes what its words stand for (`ZoneExact`, `PortsExact`, `ProtosExact`,
  `EndExact`, `AssertionExact`, `ClaimsExact`), an outcome says of a chain what first match
  says (`CheckExact`), and the cells that are written down tell whether they are the whole
  delta, whether or not the enumerator and the rows that fit left part of a cell out
  (from `Attributed` in `ChainModelProofs`); a listing under the smaller cap is a first
  part of the one under the larger.
- *KernelDiff.* `OneCounterPerProbe` holds because of what the set-up did several steps
  earlier: at the reset the prefilter admits only the probe, all counters are at rest, and
  late datagrams of earlier probes are stopped before the chain (`SetUp`). `Verdicts` and
  `Progress` carry what the earlier probes and rounds were worth to the exit.

### What the proofs assume

- The types of the inputs: `ChainsAssumption` (`Analyse`, `KernelDiff`), `DenotesAssumption`,
  `RevisionsAssumption`, `RangeListsAssumption`, `FilesAssumption`, `OtherAssumption`,
  `NamesAssumption`, `ModesAssumption`, `TextsAssumption`, `BranchesAssumption`,
  `ChainNamesAssumption`, `InvocationsAssumption`, `PoliciesAssumption` (no assertion file or
  one, whose tables are a list), and those of `FirstMatch`.
- What the code's constants are: `PortBearingAssumption` (the protocols that have ports
  contain TCP and UDP), `LimitAssumption`, `BoundsAssumption`, `PortsAssumption`,
  `InFlightAssumption`, `SpaceAssumption`, `BitsAssumption`, `CellsAssumption`
  (the cap of the page is at most that of the attestation), `ReachedAssumption` (the
  enumerator adds no packet to a set),
  `AddressBitsAssumption` (the addresses are the values of a field), `PortNumbersAssumption`
  (ports fit 16 bits); the styles of columns are arbitrary (`StylesAssumption` is their type).
- `GeneratedAssumption`: what `generate()` makes up. The hook is input, a rule names one
  protocol, has an address and a port that it can match, constrains ports under TCP and UDP
  only, and names an interface by inclusion if at all; `emit.rs` returns nothing for other rules and says
  that the generator is written to avoid them.
- `KernelDiff!ChainsAssumption` also says that a rule matches all points of a datagram or
  none: a datagram without ports stands at every port, and a rule that constrains ports
  constrains the protocol.
- `PowersAssumption`, `AddressPowersAssumption`: powers of two are positive and double. The
  provers take `^` for an arbitrary operator; it is true of every number of bits.

Chains, files, lists and ranges are unbounded in every theorem; where a model has a bound
of its own (rounds, datagrams in flight, sends per helper) the theorem holds for each value
of it.

### How the modules are written to be provable

A sorted list is `Listing!Ranked`: place `k` holds the element with `k - 1` before it.
`SetToSortSeq`, `SortSeq` and `SelectSeq` are recursive, and nothing can be proved about
them here; `RankedList` proves that `Ranked` lists each element once and in order.
Induction over data is not available either (the library's induction theorems take an
operator), so the proofs argue by least counterexample: `LeastNat` and `GreatestNat` give
the first or last number at which a claim fails. Powers of two, suffixes of chains and
pairings are treated this way. Where the code walks a list with several results per
element (`attribute` over two chains, `evaluate` over the sections an assertion is about,
`cmd_check` over the rules of a chain), the model says which elements there are and in
which order, with `Ranked` and `Picked`, instead of folding. The comparators of a range's
bounds are recursive functions over the bit positions (`Geq`, `Leq`).

Proof attempts corrected the model in six places: `RedundancyChange` had a `CASE` with
two guards that can hold together; the type invariant of `KernelDiff` related the counters last read to
the chain of the round, which the load of the next chain refutes; the end of the input was part of the
end of a chain in `Frontend`, although the loop over chains may end before the first; the operand of an interval operation was overwritten by the loop, so that exactness was
stated of a variable the loop had changed; `cmd_check` was one step, where the code goes
chain by chain and can stop in the middle when a self-check fails; and the deltas written
down had no cap, so that the statement could not say of itself that it is incomplete.

### Only model-checked

- Liveness (`HarnessEnds`): fairness and `ENABLED` are out of the prover's reach.
- `Report`: its rectangles come from masks built by a fold over the bits of a path, paths
  of a diagram that is itself given by recursion over the variables, and merging rounds
  over an unbounded number of dimensions. Its properties (`MergingIsExact`,
  `NothingLeftOutSilently`, `WidestAreShown`, `FlowCountsAreExact`) hold on their instance,
  exhaustively, and nothing is claimed beyond it.

## What is not modelled

- Lexer and error formatting: characters and wording, no state a property is about.
- JSON layout, SHA-256, padding, colour, markup and escaping; the attestation's fixed
  text on the limits of the model, and its timestamp with the calendar conversion.
- The wording of structural rows in the report, and the reasons and hints given with a
  vacuous assertion.
- TOML syntax (a library) and the syntax of addresses and ranges in quoted text.
- The diagram library: external.
- Option parsing.
- Namespace set-up of the harness and its peer process.
- Hash collisions of content keys, and the timing of anything.
- The base as a git revision: `source::load` treats both sides alike, and the model has
  the head from git or a file and the base from a file, so that one label can go stale
  and not two.
- The refusals of a table (another family, `set`, `include`, a chain without a hook) one
  by one: in `Frontend` each is a chain whose type or hook is not taken.
- The error paths of `StartRound` (a chain that cannot be emitted, a failed round trip).
- A bound past the end of the field in `IntervalSets`: `span` clamps it, and every
  caller has checked it.
- Copies in the list of leftovers of `RevisionDiff`: the code keeps them and `Ranked` would
  not, but there are none, as each rule is accounted for once.

## Plan

The order is by how much depends on a part: the analysis first, then what is computed
from it, then what feeds it, then the programs around it. Modelled so far: all of the
table above. Left:

1. **Model.** Structural rows of the report; the reason given for a vacuous assertion,
   which depends on which rules mention the chain's packets; the calendar conversion of
   the timestamp as an arithmetic operator against a reference.
2. **Prove.** `MergingIsExact` of `Report`, from an invariant that the rectangles partition
   what has been rendered, once the rendering of a path is stated without a fold.
3. **Deepen.** Several chains per file in `Report`, more than one round in `kerneldiff`.
