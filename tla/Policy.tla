-------------------------------- MODULE Policy --------------------------------
(***************************************************************************)
(* The policy engine (app/policy/engine.py over policy.yaml), the          *)
(* hypothesis and the deterministic planner: everything the investigator   *)
(* asks of policy, as operators.                                           *)
(*                                                                         *)
(* Scores are log-odds in thousandths; a threshold p is the least or the   *)
(* greatest score on its side of log(p/(1-p)).  A choice of at most one    *)
(* action is a set with at most one member.                                *)
(***************************************************************************)
EXTENDS Integers, Sequences, FiniteSets

CONSTANTS
  Action,          \* the network checks
  Candidate,       \* those a planner may choose (_CANDIDATES)
  StepUps,         \* those cheapest_stepup considers, in its order
  Hypothesis,
  Signal,
  NumberVerify, LocationVerify, NumberRecycling,   \* actions with a role of their own
  Rank,            \* the position of an action in the enumeration
  Resolved,        \* signals whose result is PASS or FLAG
  Unresolved,      \* _UNRESOLVED_SIGNALS
  Recycled,        \* NUMBER_RECYCLED
  \* policy.yaml
  Thresholds,      \* [allow, decline]
  Prior,           \* [base, reverse, newAccount, cod, highValue, sensitive]
  Budget,          \* [default, highValue]
  Delta,           \* signals
  Corroboration,   \* the checks a signal needs, in order
  MinResolved,     \* corroboration_rule.min_resolved
  Cost, Gain,      \* actions
  Timed,           \* actions with a date operation
  DateCost,        \* enrichments.swap_date; 0 when it is disabled
  Relevant,        \* hypotheses
  Grading,         \* [minLinks, adverse, minSupport]
  BatchSize,       \* gather.parallel_batch
  Weights          \* planner: [numberVerify, relevant, base]

ASSUME ActionAssumption ==
  /\ Candidate \subseteq Action
  /\ StepUps \in Seq(Action)
  /\ {NumberVerify, LocationVerify, NumberRecycling} \subseteq Action
  /\ Timed \subseteq Action
  /\ NumberRecycling \notin Candidate \cup Timed
ASSUME CostAssumption ==
  /\ Cost \in [Action -> Nat \ {0}] /\ Gain \in [Action -> Nat] /\ Rank \in [Action -> Nat]
  /\ DateCost \in Nat /\ BatchSize \in Nat \ {0}
  /\ Budget \in [default : Nat, highValue : Nat]
ASSUME SignalAssumption ==
  /\ Delta \in [Signal -> Int]
  /\ Corroboration \in [Signal -> Seq(Action)]
  /\ Resolved \cap Unresolved = {}
  /\ Relevant \in [Hypothesis -> SUBSET Action]
ASSUME ThresholdAssumption ==
  /\ Thresholds \in [allow : Int, decline : Int] /\ Thresholds.allow < Thresholds.decline
  /\ Prior \in [base : Int, reverse : Int, newAccount : Int, cod : Int,
                highValue : Int, sensitive : Int]
  /\ Grading \in [minLinks : Nat, adverse : Int, minSupport : Nat]
  /\ Grading.adverse > 0
  /\ MinResolved \in Nat \ {0}
ASSUME HypothesisAssumption ==
  {"account_takeover", "bot_farm", "legit", "impersonation"} \subseteq Hypothesis

Decision == {"ALLOW", "CHALLENGE", "DECLINE"}
Grades == {"ATTESTED_FULL", "ATTESTED_PARTIAL", "UNRESOLVED", "DEGRADED", "REFUTED"}

-----------------------------------------------------------------------------
(* What a request is suspected of, how strongly, and what may be spent.    *)

Sensitive(ctx) == ctx.event \in {"payout", "password_reset", "profile_change"}

\* hypothesis.form
HypothesisOf(ctx) ==
  IF ctx.event = "inbound_call" THEN "impersonation"
  ELSE IF Sensitive(ctx) \/ (ctx.newAccount /\ (ctx.cod \/ ctx.highValue)) THEN "account_takeover"
  ELSE IF ctx.event = "signup" /\ ctx.newAccount THEN "bot_farm"
  ELSE "legit"

Shift(applies, size) == IF applies THEN size ELSE 0

\* prior_logodds and reverse_prior_logodds
PriorOf(ctx) ==
  IF ctx.event = "inbound_call" THEN Prior.reverse
  ELSE Prior.base + Shift(ctx.newAccount, Prior.newAccount) + Shift(ctx.cod, Prior.cod)
       + Shift(ctx.highValue, Prior.highValue) + Shift(Sensitive(ctx), Prior.sensitive)

\* budget_for
BudgetOf(ctx) == IF ctx.highValue THEN Budget.highValue ELSE Budget.default

-----------------------------------------------------------------------------
(* Scores *)

\* decide
Decide(belief) == IF belief <= Thresholds.allow THEN "ALLOW"
                  ELSE IF belief >= Thresholds.decline THEN "DECLINE" ELSE "CHALLENGE"

\* is_decisive
Decisive(belief) == Decide(belief) # "CHALLENGE"

\* A link that moved belief toward fraud by a material amount.
Adverse(signal) == Delta[signal] >= Grading.adverse

\* The checks that could settle a signal, as a set.
Required(signal) == {Corroboration[signal][i] : i \in DOMAIN Corroboration[signal]}

\* grade
Grade(belief, unresolved, signals, links, uncorroborated) ==
  IF unresolved \/ links = 0 THEN "UNRESOLVED"
  ELSE IF uncorroborated THEN "DEGRADED"
  ELSE CASE Decide(belief) = "DECLINE" -> "REFUTED"
         [] Decide(belief) = "CHALLENGE" -> "DEGRADED"
         [] Decide(belief) = "ALLOW" ->
              IF links < Grading.minLinks \/ \E s \in signals : Adverse(s)
              THEN "ATTESTED_PARTIAL" ELSE "ATTESTED_FULL"

-----------------------------------------------------------------------------
(* Choosing (GreedyPlanner and the investigator's own choreography)        *)

Affordable(used, left) == {a \in Candidate : a \notin used /\ Cost[a] <= left}

Weight(h, a) == IF a = NumberVerify THEN Weights.numberVerify
                ELSE IF a \in Relevant[h] THEN Weights.relevant ELSE Weights.base

\* score(a) > score(b), without the division.
Beats(h, a, b) == Gain[a] * Weight(h, a) * Cost[b] > Gain[b] * Weight(h, b) * Cost[a]

\* next_best: the highest score, the first of equals.
NextBest(h, used, left) ==
  LET A == Affordable(used, left) IN
  {a \in A : \A b \in A \ {a} :
     Beats(h, a, b) \/ (~Beats(h, b, a) /\ Rank[a] < Rank[b])}

\* cheapest_stepup: the cheapest, the first of equals.
CheapestStepUp(used, left) ==
  LET I == {i \in DOMAIN StepUps : StepUps[i] \notin used /\ Cost[StepUps[i]] <= left} IN
  {StepUps[i] : i \in {k \in I : \A j \in I :
     Cost[StepUps[k]] < Cost[StepUps[j]] \/ (Cost[StepUps[k]] = Cost[StepUps[j]] /\ k <= j)}}

\* The places of a signal's checks that are still outstanding and affordable.
Open(signal, used, left) ==
  {k \in DOMAIN Corroboration[signal] : /\ Corroboration[signal][k] \notin used
                                       /\ Cost[Corroboration[signal][k]] <= left}

\* _next_corroboration: the first open check of the first signal that has one;
\* only to guard a decline.
NextCorroboration(belief, signals, used, left) ==
  IF belief < Thresholds.decline THEN {}
  ELSE UNION {{Corroboration[signals[i]][k] :
                 k \in {m \in Open(signals[i], used, left) :
                         \A l \in Open(signals[i], used, left) : m <= l}} :
              i \in {n \in DOMAIN signals :
                      \A j \in DOMAIN signals : j < n => Open(signals[j], used, left) = {}}}
=============================================================================
