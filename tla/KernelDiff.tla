----------------------------- MODULE KernelDiff -----------------------------
(***************************************************************************)
(* kerneldiff/main.rs: the differential harness.  One process loads a      *)
(* chain into the kernel, sends one packet at a time, reads back which     *)
(* counter moved and compares that with the model, while helper processes  *)
(* and the network act on their own (KernelHook).  Every external command  *)
(* is a step of its own, since anything may happen between two of them.    *)
(***************************************************************************)
EXTENDS KernelHook, SequencesExt

CONSTANTS
  Chains,                   \* what generate() may produce
  Modes,                    \* how the harness is invoked: [self_test, faults, packets]
  Rounds,                   \* --rounds
  MaxSends                  \* datagrams one helper may send before it is killed

NoFault == "none"

Faults == {"LastMatch", "IgnoreInterface", "IgnoreProtocol", "IgnorePorts", "RejectPermits"}

\* generate constrains ports only where it has pinned a protocol with ports, so
\* a rule admits a datagram at every point it stands at or at none.
ASSUME ChainsAssumption ==
  /\ Chains \subseteq Chain
  /\ \A c \in Chains : \A i \in DOMAIN c.rules, d \in Probes :
       PointsOf(d) \subseteq c.rules[i].match \/ PointsOf(d) \cap c.rules[i].match = {}

\* self_test goes through the faults, any other invocation has one or none.
ASSUME ModesAssumption ==
  /\ Modes \subseteq [self_test : BOOLEAN, faults : Seq(Faults \cup {NoFault}), packets : Nat]
  /\ \A m \in Modes : m.faults # <<>> /\ (m.self_test => m.faults \in Seq(Faults))

ASSUME BoundsAssumption == Rounds \in Nat \ {0} /\ MaxSends \in Nat

VARIABLES
  mode,                     \* the invocation, fixed
  faults_left,              \* faults still to run, the current one first
  undetected,               \* faults self_test saw no error for
  pc,
  chain,                    \* the round's generated chain: none or one
  round, packets_left,
  cov,                      \* the packets Coverage has recorded
  checked,                  \* the packets of the round found to agree
  p,                        \* the packet being probed: none or one
  helper,                   \* datagrams the running helper may still send
  leaked,                   \* packet -> the same, for helpers nobody killed
  late,                     \* the two-second deadline has passed
  moved,                    \* what the last poll saw
  error,                    \* why run_round returned Err
  exit_code

harness_vars ==
  <<mode, faults_left, undetected, pc, chain, round, packets_left, cov, checked, p, helper,
    leaked, late, moved, error, exit_code>>

vars == <<harness_vars, kernel_vars>>

Init ==
  /\ mode \in Modes
  /\ faults_left = mode.faults
  /\ undetected = {}
  /\ pc = "round"
  /\ chain = {}
  /\ round = 1 /\ packets_left = 0
  /\ cov = {} /\ checked = {}
  /\ p = {}
  /\ helper = 0 /\ leaked = [d \in Probes |-> 0]
  /\ late = FALSE /\ moved = {}
  /\ error = "" /\ exit_code = -1
  /\ KernelInit

fault == Head(faults_left)

(***************************************************************************)
(* The model side: fault injection and model_verdict.                      *)
(***************************************************************************)
\* relax: the dimension no longer constrains the rule.
Relax(match, dimension) ==
  {q \in Packets : \E m \in match : \A f \in DOMAIN q \ {dimension} : q[f] = m[f]}

Corrupt(which, original) ==
  LET rules == original.rules
      relaxed(dimension) ==
        [i \in DOMAIN rules |-> [rules[i] EXCEPT !.match = Relax(rules[i].match, dimension)]]
      permitted(action) == IF action = "drop" THEN "accept" ELSE action
      corrupted ==
        CASE which = NoFault -> rules
          [] which = "LastMatch" -> Reverse(rules)
          [] which = "IgnoreInterface" -> relaxed("iif")
          [] which = "IgnoreProtocol" -> relaxed("proto")
          [] which = "IgnorePorts" -> relaxed("port")
          [] which = "RejectPermits" ->
               [i \in DOMAIN rules |-> [rules[i] EXCEPT !.action = permitted(rules[i].action)]]
  IN [original EXCEPT !.rules = corrupted]

\* Mutant: the reversed rules are renumbered one off.
Numbered_OffByOne(which, original, d) ==
  IF which = "LastMatch" /\ d # ByPolicy THEN (Len(original.rules) + 2) - d ELSE d

\* Reversing keeps each rule's number: the d-th compiled rule is not rule d.
Numbered(which, original, d) ==
  IF which = "LastMatch" /\ d # ByPolicy THEN (Len(original.rules) + 1) - d ELSE d

\* model_verdict; not ok when the points of the packet disagree.
ModelVerdict(which, original, d) ==
  LET model == Compile(Corrupt(which, original))
      point == PointsOf(d)
      deciders == DecidersOf(model, point)
      all_permitted == point \subseteq model.accept
  IN [ok |-> (all_permitted \/ point \cap model.accept = {}) /\ Cardinality(deciders) <= 1,
      decider |-> Numbered(which, original, Least(deciders)),
      permitted |-> all_permitted]

(***************************************************************************)
(* run_round: set-up.                                                      *)
(***************************************************************************)
\* generate: random, so any of the chains.
Generated == Chains

\* generate, emit and the round trip through the frontend.
StartRound ==
  /\ pc = "round"
  /\ \E c \in Generated : chain' = {c}
  /\ packets_left' = mode.packets
  /\ checked' = {}
  /\ pc' = "flush"
  /\ UNCHANGED <<mode, faults_left, undetected, round, cov, p, helper, leaked, late, moved,
                 error, exit_code, kernel_vars>>

\* nft flush ruleset: neither prefilter nor chain is left.
FlushRuleset ==
  /\ pc = "flush"
  /\ loaded' = {} /\ counted' = {}
  /\ prefilter' = Datagrams
  /\ pc' = "load"
  /\ UNCHANGED <<mode, faults_left, undetected, chain, round, packets_left, cov, checked, p,
                 helper, leaked, late, moved, error, exit_code, in_flight>>

\* Two loads, taken as one: the empty prefilter, then the chain.  Until it is
\* narrowed, the prefilter admits whatever is still in flight.
LoadChain ==
  /\ pc = "load"
  /\ loaded' = chain
  /\ pc' = "draw"
  /\ UNCHANGED <<mode, faults_left, undetected, chain, round, packets_left, cov, checked, p,
                 helper, leaked, late, moved, error, exit_code, prefilter, counted, in_flight>>

(***************************************************************************)
(* probe.                                                                  *)
(***************************************************************************)
\* Mutant: the counters are cleared before the prefilter is narrowed.
Following_ResetFirst(step) ==
  CASE step = "draw" -> "reset" [] step = "reset" -> "narrow" [] step = "narrow" -> "send"

\* The prefilter is narrowed to the packet before the counters are cleared.
Following(step) ==
  CASE step = "draw" -> "narrow" [] step = "narrow" -> "reset" [] step = "reset" -> "send"

DrawPacket ==
  /\ pc = "draw"
  /\ packets_left > 0
  /\ \E d \in Probes : p' = {d} /\ cov' = cov \cup {d}
  /\ late' = FALSE /\ moved' = {}
  /\ pc' = Following("draw")
  /\ UNCHANGED <<mode, faults_left, undetected, chain, round, packets_left, checked, helper,
                 leaked, error, exit_code, kernel_vars>>

\* One nft transaction: flush, admit the packet, drop the rest.
NarrowPrefilter ==
  /\ pc = "narrow"
  /\ prefilter' = p
  /\ pc' = Following("narrow")
  /\ UNCHANGED <<mode, faults_left, undetected, chain, round, packets_left, cov, checked, p,
                 helper, leaked, late, moved, error, exit_code, loaded, counted, in_flight>>

ResetCounters ==
  /\ pc = "reset"
  /\ counted' = {}
  /\ pc' = Following("reset")
  /\ UNCHANGED <<mode, faults_left, undetected, chain, round, packets_left, cov, checked, p,
                 helper, leaked, late, moved, error, exit_code, prefilter, loaded, in_flight>>

\* A loopback datagram is sent by the harness itself, anything else by a helper.
SendPacket ==
  /\ pc = "send"
  /\ Room
  /\ \E d \in p :
       IF d.iif = "lo" /\ d.proto = "udp"
       THEN in_flight' = [in_flight EXCEPT ![d] = @ + 1] /\ UNCHANGED helper
       ELSE helper' = MaxSends /\ UNCHANGED in_flight
  /\ pc' = "poll"
  /\ UNCHANGED <<mode, faults_left, undetected, chain, round, packets_left, cov, checked, p,
                 leaked, late, moved, error, exit_code, prefilter, loaded, counted>>

\* Mutant: polling does not give up.
GivesUp_Never == FALSE

GivesUp == late

\* Poll until a counter has moved; the deadline is looked at before each poll.
Poll ==
  /\ pc = "poll"
  /\ IF GivesUp
     THEN pc' = "judge" /\ UNCHANGED moved
     ELSE /\ moved' = counted
          /\ pc' = IF counted # {} THEN "judge" ELSE "poll"
  /\ UNCHANGED <<mode, faults_left, undetected, chain, round, packets_left, cov, checked, p,
                 helper, leaked, late, error, exit_code, kernel_vars>>

DeadlinePasses ==
  /\ pc = "poll"
  /\ late' = TRUE
  /\ UNCHANGED <<mode, faults_left, undetected, pc, chain, round, packets_left, cov, checked,
                 p, helper, leaked, moved, error, exit_code, kernel_vars>>

\* Why a probe fails, or the empty string when kernel and model agree.
Judgement(original, d) ==
  LET kernel == Least(moved)
      ours == ModelVerdict(fault, original, d)
      permitted == Permits(IF kernel = 0 THEN original.policy ELSE original.rules[kernel].action)
  IN IF moved = {} THEN "never arrived"
     ELSE IF Cardinality(moved) > 1 THEN "many counters"
     ELSE IF ~ours.ok THEN "two verdicts"
     ELSE IF kernel # ours.decider \/ permitted # ours.permitted THEN "disagreement"
     ELSE ""

\* The helper is killed, then the verdicts are compared.
JudgeProbe ==
  /\ pc = "judge"
  /\ helper' = 0
  /\ \E original \in chain, d \in p :
       LET why == Judgement(original, d)
       IN IF why = ""
          THEN /\ checked' = checked \cup {d}
               /\ packets_left' = packets_left - 1
               /\ pc' = "draw"
               /\ UNCHANGED error
          ELSE /\ error' = why
               /\ pc' = "failed"
               /\ UNCHANGED <<checked, packets_left>>
  /\ UNCHANGED <<mode, faults_left, undetected, chain, round, cov, p, leaked, late, moved,
                 exit_code, kernel_vars>>

\* Any external command may fail; an error while polling leaves its helper
\* running, since dropping a Child does not kill it.
CommandFails ==
  /\ pc \in {"flush", "load", "narrow", "reset", "send", "poll"}
  /\ error' = "command"
  /\ pc' = "failed"
  /\ leaked' = [d \in Probes |-> IF d \in p THEN leaked[d] + helper ELSE leaked[d]]
  /\ helper' = 0
  /\ UNCHANGED <<mode, faults_left, undetected, chain, round, packets_left, cov, checked, p,
                 late, moved, exit_code, kernel_vars>>

(***************************************************************************)
(* main and self_test.                                                     *)
(***************************************************************************)
EndRound ==
  /\ pc = "draw"
  /\ packets_left = 0
  /\ round' = round + 1
  /\ pc' = IF round < Rounds THEN "round" ELSE "agreed"
  /\ UNCHANGED <<mode, faults_left, undetected, chain, packets_left, cov, checked, p, helper,
                 leaked, late, moved, error, exit_code, kernel_vars>>

\* Mutant: a dimension that took one value counts as varied.
Varied_Once(values) == values # {}

Varied(values) == Cardinality(values) > 1

complete ==
  /\ Varied({d.iif : d \in cov})
  /\ Varied({d.proto : d \in cov})
  /\ Varied({d.port : d \in {e \in cov : e.port # 0}})

\* Without self_test, main ends with what the one invocation came to.
Exit ==
  /\ pc \in {"agreed", "failed"}
  /\ ~mode.self_test
  /\ exit_code' = IF fault = NoFault
                  THEN IF pc = "agreed" /\ complete THEN 0 ELSE 1
                  ELSE IF pc = "failed" THEN 0 ELSE 1
  /\ pc' = "exit"
  /\ UNCHANGED <<mode, faults_left, undetected, chain, round, packets_left, cov, checked, p,
                 helper, leaked, late, moved, error, kernel_vars>>

\* self_test: any error counts as detection; the next fault starts afresh.
NextFault ==
  /\ pc \in {"agreed", "failed"}
  /\ mode.self_test
  /\ undetected' = IF pc = "failed" THEN undetected ELSE undetected \cup {fault}
  /\ IF Len(faults_left) > 1
     THEN /\ faults_left' = Tail(faults_left)
          /\ round' = 1
          /\ cov' = {} /\ checked' = {}
          /\ pc' = "round"
          /\ error' = ""
          /\ UNCHANGED exit_code
     ELSE /\ exit_code' = IF undetected' = {} THEN 0 ELSE 1
          /\ pc' = "exit"
          /\ UNCHANGED <<faults_left, round, cov, checked, error>>
  /\ UNCHANGED <<mode, chain, packets_left, p, helper, leaked, late, moved, kernel_vars>>

Harness ==
  \/ StartRound \/ FlushRuleset \/ LoadChain
  \/ DrawPacket \/ NarrowPrefilter \/ ResetCounters \/ SendPacket \/ Poll \/ JudgeProbe
  \/ EndRound \/ Exit \/ NextFault

(***************************************************************************)
(* Everything that acts on its own.                                        *)
(***************************************************************************)
\* The running helper sends, or sends again.
HelperSends ==
  /\ helper > 0
  /\ Room
  /\ helper' = helper - 1
  /\ \E d \in p : in_flight' = [in_flight EXCEPT ![d] = @ + 1]
  /\ UNCHANGED <<mode, faults_left, undetected, pc, chain, round, packets_left, cov, checked, p,
                 leaked, late, moved, error, exit_code, prefilter, loaded, counted>>

LeakedHelperSends ==
  /\ Room
  /\ \E d \in Probes :
       /\ leaked[d] > 0
       /\ leaked' = [leaked EXCEPT ![d] = @ - 1]
       /\ in_flight' = [in_flight EXCEPT ![d] = @ + 1]
  /\ UNCHANGED <<mode, faults_left, undetected, pc, chain, round, packets_left, cov, checked, p,
                 helper, late, moved, error, exit_code, prefilter, loaded, counted>>

DatagramArrives ==
  /\ \E d \in Datagrams : Deliver(d)
  /\ UNCHANGED harness_vars

DatagramLost ==
  /\ \E d \in Datagrams : Lose(d)
  /\ UNCHANGED harness_vars

Next ==
  \/ Harness \/ CommandFails \/ DeadlinePasses
  \/ HelperSends \/ LeakedHelperSends \/ DatagramArrives \/ DatagramLost

\* The harness is one thread that always goes on, time passes, and the network
\* gets rid of what it holds; nothing promises that a datagram arrives.
Fairness ==
  /\ WF_vars(Harness)
  /\ WF_vars(DeadlinePasses)
  /\ WF_vars(DatagramArrives \/ DatagramLost)

Spec == Init /\ [][Next]_vars /\ Fairness

(***************************************************************************)
(* Correctness.                                                            *)
(***************************************************************************)
TypeOK ==
  /\ mode \in Modes
  /\ pc \in {"round", "flush", "load", "draw", "narrow", "reset", "send", "poll", "judge",
             "failed", "agreed", "exit"}
  /\ chain \in SUBSET Chains /\ Cardinality(chain) <= 1 /\ loaded \subseteq Chains
  /\ round \in 1 .. (Rounds + 1) /\ packets_left \in 0 .. mode.packets
  /\ cov \subseteq Probes /\ checked \subseteq cov
  /\ p \subseteq Probes /\ Cardinality(p) <= 1 /\ prefilter \subseteq Datagrams
  /\ helper \in 0 .. MaxSends /\ leaked \in [Probes -> Nat]
  /\ in_flight \in [Datagrams -> 0 .. MaxInFlight]
  /\ \A c \in loaded : counted \subseteq 0 .. Len(c.rules)
  /\ pc = "judge" => \A c \in chain, d \in p : ModelVerdict(fault, c, d).decider \in 0 .. Len(c.rules)
  /\ late \in BOOLEAN /\ exit_code \in {-1, 0, 1}

\* "Exactly one counter moved" is a property of the set-up: from the moment a
\* packet is sent, whatever earlier probes, duplicates, replies and helpers left
\* in the network, only the rule that decides this packet can have moved.
OneCounterPerProbe ==
  pc \in {"send", "poll", "judge"} =>
    \A c \in chain, d \in p : counted \cup moved \subseteq {KernelDecider(c, d)}

\* Does the model, faulty or not, differ from first match on a packet?
Differs(which, original, d) ==
  LET ours == ModelVerdict(which, original, d)
  IN \/ ~ours.ok
     \/ ours.decider # KernelDecider(original, d)
     \/ ours.permitted # KernelPermits(original, d)

\* No noise becomes a finding and no finding is lost in noise: a probe is said
\* to agree only where model and first match agree on it, and a disagreement is
\* reported only where they differ; the genuine model never differs.
VerdictsAreReal ==
  /\ pc = "draw" => \A c \in chain, d \in checked : ~Differs(fault, c, d)
  /\ error \in {"disagreement", "two verdicts"} => \A c \in chain, d \in p : Differs(fault, c, d)
  /\ error # "many counters"
  /\ fault = NoFault => error \in {"", "never arrived", "command"}

\* A plain run ends well only if it sent as many packets as asked, each agreed,
\* and no dimension was held constant.
SuccessIsEarned ==
  exit_code = 0 /\ fault = NoFault =>
    /\ error = "" /\ round = Rounds + 1 /\ packets_left = 0
    /\ \A d \in cov : \E e \in cov : e.iif # d.iif
    /\ \A d \in cov : \E e \in cov : e.proto # d.proto
    /\ \E d, e \in cov : d.proto = "udp" /\ e.proto = "udp" /\ d.port # e.port

\* Whatever is lost on the way, the harness ends.
HarnessEnds == <>(pc = "exit")

\* What the harness prints and its documentation promises: a fault counts as
\* detected because the broken model was seen to disagree.
DetectionIsDisagreement ==
  exit_code = 0 /\ fault # NoFault => error \in {"disagreement", "two verdicts"}
=============================================================================
