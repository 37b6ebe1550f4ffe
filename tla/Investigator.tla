----------------------------- MODULE Investigator -----------------------------
(***************************************************************************)
(* One investigation (app/agent/investigator.py): local evidence, the      *)
(* choreographed checks, an optional parallel batch, the gather loop, one  *)
(* step-up, the deferred dates, and the gates that turn a score into a     *)
(* signed verdict.                                                         *)
(*                                                                         *)
(* The operator answers each check as it likes; a model planner chooses as *)
(* it likes among what is affordable, stops, or gives no answer.  Only the *)
(* batch's calls run concurrently; everything else of an investigation is  *)
(* its own coroutine's, so a step here is a check with its answer and its  *)
(* date call.                                                              *)
(***************************************************************************)
EXTENDS Policy, Functions

CONSTANTS
  Requests,    \* what may be asked, see RequestType
  Answers,     \* the signals an operator may answer a check with
  MaxAsks,     \* llm_max_calls_per_investigation
  None

Planner == {"greedy", "keyless", "llm"}
RequestType ==
  [event : STRING, newAccount : BOOLEAN, cod : BOOLEAN, highValue : BOOLEAN,
   claim : BOOLEAN,                   \* claimed_location is given
   lastVerified : BOOLEAN,            \* last_verified_at is given
   required : Candidate \cup {None},  \* required_action
   available : SUBSET Action,         \* available_actions; Action when absent
   local : Seq(Signal),               \* local_evidence
   parallel : BOOLEAN, planner : Planner]

ASSUME RequestAssumption ==
  /\ None \notin Action
  /\ Requests \subseteq RequestType
  /\ Answers \in [Action -> SUBSET Signal]
  /\ MaxAsks \in Nat

VARIABLES
  req,
  phase,         \* how far investigate() has come
  belief,        \* Belief.logodds
  budget, cost,  \* budget_left, evidence_cost
  chain,         \* chain.links
  used,
  hole,          \* unresolved_signals is not empty
  batch,         \* calls of the parallel batch still out
  remaining,     \* what choosing the batch has left of the budget
  asks,          \* LLMPlanner._calls
  sources,       \* planner_sources
  choreographed,
  stopping,      \* stopping_reason
  verdict

evidence == <<belief, budget, cost, chain, used, hole>>
inputs == <<batch, remaining, asks, sources, choreographed, stopping>>
vars == <<req, phase, belief, budget, cost, chain, used, hole, batch, remaining, asks, sources,
          choreographed, stopping, verdict>>

-----------------------------------------------------------------------------
Phase == {"local", "continuity", "authorization", "batch", "answers", "loop", "step_up",
          "settle", "done", "refused"}
Timing == {"none", "pending", "deferred", "short", "unsupported", "asked"}
Link == [action : Action, signal : Signal, local : {FALSE}, timing : Timing]
        \cup [action : {None}, signal : Signal, local : {TRUE}, timing : {"none"}]
Gap == [signal : Signal, reason : {"budget", "unresolved", "unavailable", "not_attempted"}]
Reason == {"decisive", "budget_exhausted", "planner_stop", "nothing_affordable"}
Verdict == [decision : Decision, grade : Grades, gaps : SUBSET Gap, operations : Nat,
            label : {"none", "policy", "greedy", "llm", "greedy+llm"}]

TypeOK ==
  /\ req \in Requests
  /\ phase \in Phase
  /\ belief \in Int /\ budget \in Int /\ cost \in Nat /\ remaining \in Int
  /\ chain \in Seq(Link)
  /\ used \subseteq Action /\ batch \subseteq Action
  /\ hole \in BOOLEAN /\ choreographed \in BOOLEAN
  /\ asks \in Nat
  /\ sources \subseteq {"llm", "greedy"}
  /\ stopping \in Reason
  /\ verdict \in Verdict \cup {None}

Init ==
  /\ req \in Requests
  /\ phase = "local"
  /\ belief = PriorOf(req) /\ budget = BudgetOf(req) /\ cost = 0 /\ remaining = 0
  /\ chain = <<>>
  /\ used = {} /\ batch = {}
  /\ hole = FALSE /\ choreographed = FALSE
  /\ asks = 0
  /\ sources = {}
  /\ stopping = "budget_exhausted"
  /\ verdict = None

-----------------------------------------------------------------------------
(* What a step looks at *)

Suspected == HypothesisOf(req)

\* _unavailable_actions, and what the caller may not buy.
Blocked == (Action \ req.available) \cup (IF req.claim THEN {} ELSE {LocationVerify})

\* Mutant: what was bought is not remembered.
Forgetful == Blocked

Excluded == used \cup Blocked

\* The observations are the chain's signals, in order.
Signals(links) == [i \in DOMAIN links |-> links[i].signal]
Seen(links) == {links[i].signal : i \in DOMAIN links}

\* Mutant: any attempt counts.
AttemptedFor(s, links) ==
  {a \in Required(s) : \E i \in DOMAIN links : links[i].action = a}

\* _resolved_corroborators: attempted is not enough.
ResolvedFor(s, links) ==
  {a \in Required(s) :
     \E i \in DOMAIN links : links[i].action = a /\ links[i].signal \in Resolved}

\* Network links that moved belief toward the customer and bear on what is suspected.
Supporting ==
  {i \in DOMAIN chain :
     /\ ~chain[i].local
     /\ Delta[chain[i].signal] < 0
     /\ Relevant[Suspected] = {} \/ chain[i].action \in Relevant[Suspected]}

\* _needs_a_network_fact
NeedsANetworkFact ==
  Decide(belief) = "ALLOW" /\ Cardinality(Supporting) < Grading.minSupport

-----------------------------------------------------------------------------
(* Buying a check *)

\* Mutant: the date comes first.
DateFitsFirst(s, links, left) == DateCost <= left

\* The date call fits the budget and leaves a corroborating check affordable
\* that is so now (_corroboration_reserve).
DateFits(s, links, left) ==
  LET kept == IF Cardinality(ResolvedFor(s, links)) >= MinResolved THEN {}
              ELSE {a \in Required(s) \ Excluded : Cost[a] <= left}
  IN /\ DateCost <= left
     /\ kept # {} => \E a \in kept : Cost[a] + DateCost <= left

\* _enrich_timing
Dates(a, s, links, left) ==
  IF a \notin Timed \/ DateCost = 0 THEN {"none"}
  ELSE IF ~DateFits(s, links, left) THEN {IF Required(s) # {} THEN "deferred" ELSE "short"}
  ELSE {"unsupported", "asked"}

Paid(timing) == IF timing = "asked" THEN DateCost ELSE 0

NetworkLink(a, s, timing) == [action |-> a, signal |-> s, local |-> FALSE, timing |-> timing]

\* Mutant: the date is priced against the budget before the check.
PurchaseOnCredit(a) ==
  \E s \in Answers[a] :
    LET links == Append(chain, NetworkLink(a, s, "none")) IN
    \E timing \in Dates(a, s, links, budget) :
      /\ chain' = Append(chain, NetworkLink(a, s, timing))
      /\ belief' = belief + Delta[s]
      /\ budget' = budget - Cost[a] - Paid(timing)
      /\ cost' = cost + Cost[a] + Paid(timing)
      /\ used' = used \cup {a}
      /\ hole' = (hole \/ s \in Unresolved)

\* _call, the date, and the accounting of both.
Purchase(a) ==
  \E s \in Answers[a] :
    LET left == budget - Cost[a]
        links == Append(chain, NetworkLink(a, s, "none"))
    IN \E timing \in Dates(a, s, links, left) :
         /\ chain' = Append(chain, NetworkLink(a, s, timing))
         /\ belief' = belief + Delta[s]
         /\ budget' = left - Paid(timing)
         /\ cost' = cost + Cost[a] + Paid(timing)
         /\ used' = used \cup {a}
         /\ hole' = (hole \/ s \in Unresolved)

-----------------------------------------------------------------------------
(* Before the loop *)

ApplyLocal ==
  /\ phase = "local"
  /\ IF Len(chain) < Len(req.local)
     THEN LET s == req.local[Len(chain) + 1] IN
          /\ chain' = Append(chain, [action |-> None, signal |-> s, local |-> TRUE,
                                     timing |-> "none"])
          /\ belief' = belief + Delta[s]
          /\ UNCHANGED phase
     ELSE phase' = "continuity" /\ UNCHANGED <<chain, belief>>
  /\ UNCHANGED <<req, budget, cost, used, hole, batch, remaining, asks, sources, choreographed,
                 stopping, verdict>>

\* Stored trust is only reused after asking whether the subscriber changed.
CheckContinuity ==
  /\ phase = "continuity"
  /\ phase' = "authorization"
  /\ IF req.lastVerified /\ Cost[NumberRecycling] <= budget
     THEN Purchase(NumberRecycling) /\ choreographed' = TRUE
     ELSE UNCHANGED <<evidence, choreographed>>
  /\ UNCHANGED <<req, batch, remaining, asks, sources, stopping, verdict>>

\* The check the caller holds an authorization for; ValueError if it does not fit.
UseAuthorization ==
  /\ phase = "authorization"
  /\ req.required # None
  /\ IF Cost[req.required] > budget
     THEN phase' = "refused" /\ UNCHANGED <<evidence, choreographed>>
     ELSE phase' = "batch" /\ Purchase(req.required) /\ choreographed' = TRUE
  /\ UNCHANGED <<req, batch, remaining, asks, sources, stopping, verdict>>

NoAuthorization ==
  /\ phase = "authorization"
  /\ req.required = None
  /\ phase' = "batch"
  /\ UNCHANGED <<req, evidence, inputs, verdict>>

-----------------------------------------------------------------------------
(* The parallel batch (_gather_parallel) *)

SkipBatch ==
  /\ phase = "batch"
  /\ ~req.parallel \/ (batch = {} /\ Decisive(belief))
  /\ phase' = "loop"
  /\ UNCHANGED <<req, evidence, inputs, verdict>>

\* Chosen one by one, before any answer is known.
PickForBatch ==
  LET left == IF batch = {} THEN budget ELSE remaining
      best == NextBest(Suspected, Excluded \cup batch, left)
  IN /\ phase = "batch"
     /\ req.parallel /\ (batch # {} \/ ~Decisive(belief))
     /\ IF Cardinality(batch) < BatchSize /\ best # {}
        THEN \E a \in best : batch' = batch \cup {a} /\ remaining' = left - Cost[a]
                             /\ UNCHANGED phase
        ELSE phase' = "answers" /\ UNCHANGED <<batch, remaining>>
     /\ UNCHANGED <<req, evidence, asks, sources, choreographed, stopping, verdict>>

\* An answer joins the chain when it arrives.
BatchAnswer(a) ==
  /\ phase = "answers"
  /\ a \in batch
  /\ \E s \in Answers[a] : chain' = Append(chain, NetworkLink(a, s, "pending"))
  /\ batch' = batch \ {a}
  /\ choreographed' = TRUE
  /\ UNCHANGED <<req, phase, belief, budget, cost, used, hole, remaining, asks, sources, stopping,
                 verdict>>

\* All are in: they are paid for, and their dates asked, in chain order.
SettleBatch ==
  LET pending == {i \in DOMAIN chain : chain[i].timing = "pending"} IN
  /\ phase = "answers"
  /\ batch = {}
  /\ pending # {}
  /\ \E i \in pending :
       /\ \A j \in pending : i <= j
       /\ LET a == chain[i].action
              s == chain[i].signal
              left == budget - Cost[a]
          IN \E timing \in Dates(a, s, chain, left) :
               /\ chain' = [chain EXCEPT ![i] = NetworkLink(a, s, timing)]
               /\ belief' = belief + Delta[s]
               /\ budget' = left - Paid(timing)
               /\ cost' = cost + Cost[a] + Paid(timing)
               /\ used' = used \cup {a}
               /\ hole' = (hole \/ s \in Unresolved)
  /\ UNCHANGED <<req, phase, inputs, verdict>>

BatchDone ==
  /\ phase = "answers"
  /\ batch = {}
  /\ \A i \in DOMAIN chain : chain[i].timing # "pending"
  /\ phase' = "loop"
  /\ UNCHANGED <<req, evidence, inputs, verdict>>

-----------------------------------------------------------------------------
(* The gather loop *)

Outstanding == NextCorroboration(belief, Signals(chain), Excluded, budget)

LeaveLoop(reason) ==
  /\ phase' = "step_up"
  /\ stopping' = reason
  /\ UNCHANGED <<req, evidence, batch, remaining, asks, sources, choreographed, verdict>>

InLoop == phase = "loop" /\ budget > 0

BudgetExhausted ==
  /\ phase = "loop" /\ budget <= 0
  /\ LeaveLoop("budget_exhausted")

Choreograph(a) ==
  /\ Purchase(a)
  /\ choreographed' = TRUE
  /\ UNCHANGED <<req, phase, batch, remaining, asks, sources, stopping, verdict>>

\* A signal alone may not decline while a check could still clear it.
Corroborate ==
  /\ InLoop /\ Decisive(belief)
  /\ \E a \in Outstanding : Choreograph(a)

\* An allow must rest on a network fact.
Attest ==
  /\ InLoop /\ Decisive(belief) /\ Outstanding = {} /\ NeedsANetworkFact
  /\ \E a \in NextBest(Suspected, Excluded, budget) : Choreograph(a)

Enough ==
  /\ InLoop /\ Decisive(belief) /\ Outstanding = {} /\ ~NeedsANetworkFact
  /\ LeaveLoop("decisive")

\* Mutant: with nothing left to buy, the loop looks again.
NothingAffordableSpins ==
  /\ InLoop /\ Decisive(belief) /\ Outstanding = {} /\ NeedsANetworkFact
  /\ NextBest(Suspected, Excluded, budget) = {}
  /\ UNCHANGED vars

NothingAffordable ==
  /\ InLoop /\ Decisive(belief) /\ Outstanding = {} /\ NeedsANetworkFact
  /\ NextBest(Suspected, Excluded, budget) = {}
  /\ LeaveLoop("nothing_affordable")

\* GreedyPlanner.choose and LLMPlanner.choose: the pairs of a choice (None to
\* stop) and its source.  A model that was asked may name what is affordable or
\* stop; when it gives no answer, greedy chooses.
Choices ==
  LET can == Affordable(Excluded, budget)
      best == NextBest(Suspected, Excluded, budget)
      greedy == {<<a, "greedy">> : a \in IF best = {} THEN {None} ELSE best}
  IN CASE req.planner = "greedy" -> greedy
       [] req.planner = "keyless" -> IF can = {} THEN {<<None, "llm">>} ELSE greedy
       [] req.planner = "llm" ->
            IF can = {} \/ asks >= MaxAsks THEN {<<None, "llm">>}
            ELSE greedy \cup {<<a, "llm">> : a \in can \cup {None}}

Asked == IF req.planner = "llm" /\ Affordable(Excluded, budget) # {} /\ asks < MaxAsks
         THEN asks + 1 ELSE asks

Investigate ==
  /\ InLoop /\ ~Decisive(belief)
  /\ \E c \in Choices :
       /\ c[1] # None
       /\ Purchase(c[1])
       /\ sources' = sources \cup {c[2]}
  /\ asks' = Asked
  /\ UNCHANGED <<req, phase, batch, remaining, choreographed, stopping, verdict>>

PlannerStops ==
  /\ InLoop /\ ~Decisive(belief)
  /\ \E c \in Choices : c[1] = None /\ sources' = sources \cup {c[2]}
  /\ asks' = Asked
  /\ phase' = "step_up"
  /\ stopping' = "planner_stop"
  /\ UNCHANGED <<req, evidence, batch, remaining, choreographed, verdict>>

-----------------------------------------------------------------------------
(* After the loop *)

\* Mutant: a step-up nobody pays for.
StepUpFree ==
  LET step == IF Decide(belief) = "CHALLENGE" THEN CheapestStepUp(Excluded, budget) ELSE {} IN
  /\ phase = "step_up"
  /\ phase' = "settle"
  /\ IF step = {} THEN UNCHANGED evidence
     ELSE \E a \in step, s \in Signal :
            /\ s \in Answers[a]
            /\ chain' = Append(chain, NetworkLink(a, s, "none"))
            /\ belief' = belief + Delta[s]
            /\ used' = used \cup {a}
            /\ hole' = (hole \/ s \in Unresolved)
            /\ cost' = cost + Cost[a]
            /\ UNCHANGED budget
  /\ UNCHANGED <<req, inputs, verdict>>

\* The single cheapest check that might resolve a doubt.
StepUp ==
  LET step == IF Decide(belief) = "CHALLENGE" THEN CheapestStepUp(Excluded, budget) ELSE {} IN
  /\ phase = "step_up"
  /\ phase' = "settle"
  /\ IF step = {} THEN UNCHANGED evidence ELSE \E a \in step : Purchase(a)
  /\ UNCHANGED <<req, inputs, verdict>>

Deferred == {i \in DOMAIN chain : chain[i].timing = "deferred"}

\* _settle_deferred_enrichment, a date at a time.
SettleDeferred ==
  /\ phase = "settle"
  /\ DateCost <= budget
  /\ \E i \in Deferred :
       /\ \A j \in Deferred : i <= j
       /\ \E timing \in {"unsupported", "asked"} :
            /\ chain' = [chain EXCEPT ![i] = NetworkLink(@.action, @.signal, timing)]
            /\ budget' = budget - Paid(timing)
            /\ cost' = cost + Paid(timing)
  /\ UNCHANGED <<req, phase, belief, used, hole, inputs, verdict>>

Attempted == {chain[i].action : i \in DOMAIN chain}

\* _corroboration_gaps
GapReason(s) ==
  LET open == Required(s) \ Attempted IN
  IF open # Required(s) THEN "unresolved"
  ELSE IF open \subseteq Blocked THEN "unavailable"
  ELSE IF \A a \in open : a \in Blocked \/ Cost[a] > budget THEN "budget"
  ELSE "not_attempted"

Ungated(s) == Required(s) = {} \/ Cardinality(ResolvedFor(s, chain)) >= MinResolved
Gaps == {[signal |-> s, reason |-> GapReason(s)] : s \in {t \in Seen(chain) : Adverse(t) /\ ~Ungated(t)}}

\* _apply_corroboration_gate: the signals that may not carry this decline.
Uncorroborated ==
  LET gated == {g.signal : g \in Gaps}
      adverse == {s \in Seen(chain) : Adverse(s)}
  IN IF Decide(belief) = "DECLINE" /\ adverse # {} /\ adverse \subseteq gated THEN gated ELSE {}

\* _operation_count
Operations == Len(chain) + Cardinality({i \in DOMAIN chain : chain[i].timing = "asked"})

\* _planner_label
Label == IF sources = {} THEN (IF choreographed THEN "policy" ELSE "none")
         ELSE IF sources = {"llm"} THEN "llm"
         ELSE IF sources = {"greedy"} THEN "greedy" ELSE "greedy+llm"

Unsupported == hole \/ NeedsANetworkFact

\* The gates may only turn a decision into a challenge.
Final ==
  IF Uncorroborated # {} THEN "CHALLENGE"
  ELSE IF Decide(belief) = "ALLOW" /\ (Unsupported \/ Recycled \in Seen(chain)) THEN "CHALLENGE"
  ELSE Decide(belief)

Conclude ==
  /\ phase = "settle"
  /\ Deferred = {} \/ DateCost > budget
  /\ phase' = "done"
  /\ verdict' = [decision |-> Final,
                 grade |-> Grade(belief, Unsupported, Seen(chain), Len(chain), Uncorroborated # {}),
                 gaps |-> Gaps, operations |-> Operations, label |-> Label]
  /\ UNCHANGED <<req, evidence, inputs>>

Next ==
  \/ ApplyLocal \/ CheckContinuity \/ UseAuthorization \/ NoAuthorization
  \/ SkipBatch \/ PickForBatch \/ (\E a \in Action : BatchAnswer(a)) \/ SettleBatch \/ BatchDone
  \/ BudgetExhausted \/ Corroborate \/ Attest \/ Enough \/ NothingAffordable
  \/ Investigate \/ PlannerStops
  \/ StepUp \/ SettleDeferred \/ Conclude

Spec == Init /\ [][Next]_vars

\* Every awaited call returns or times out, and nothing else can hold a run up.
FairSpec == Spec /\ WF_vars(Next)
-----------------------------------------------------------------------------
(* Properties *)

Paying(i) == IF chain[i].local \/ chain[i].timing = "pending" THEN 0
             ELSE Cost[chain[i].action] + Paid(chain[i].timing)
Moving(i) == IF chain[i].timing = "pending" THEN 0 ELSE Delta[chain[i].signal]

\* A receipt can be recomputed instead of believed: at every moment the belief is
\* the prior and the chain's weights, the cost is what the chain's checks and
\* dates cost, and the budget what is left of it - on every path that buys.
ReceiptAddsUp ==
  /\ belief = PriorOf(req) + SumFunction([i \in DOMAIN chain |-> Moving(i)])
  /\ cost = SumFunction([i \in DOMAIN chain |-> Paying(i)])
  /\ budget = BudgetOf(req) - cost

\* The budget is the most a run may spend, dates and step-up included.
WithinBudget == cost <= BudgetOf(req)

\* No check is bought twice, whichever of the six paths buys it, and none that
\* the request has no use for or may not buy (the continuity check alone is
\* not asked about: the date the merchant sends is its precondition).
ChecksAreDistinct ==
  \A i, j \in DOMAIN chain :
    ~chain[i].local =>
      /\ chain[i].action \notin Blocked \/ chain[i].action \in {NumberRecycling, req.required}
      /\ i # j => chain[i].action # chain[j].action

\* An ALLOW rests on a network fact that bears on what was suspected, on no
\* check that could not be made, and on no trust in a recycled number, however
\* the run ended.
AllowIsSupported ==
  verdict # None /\ verdict.decision = "ALLOW" =>
    /\ Grading.minSupport > 0 =>
         \E i \in DOMAIN chain : /\ ~chain[i].local /\ Delta[chain[i].signal] < 0
                               /\ Relevant[Suspected] # {} => chain[i].action \in Relevant[Suspected]
    /\ \A i \in DOMAIN chain : chain[i].signal \in Unresolved => chain[i].local
    /\ Recycled \notin Seen(chain)

\* A DECLINE whose every adverse signal needs corroboration has a corroborating
\* check that answered: an attempt that could not check does not count.
DeclineIsCorroborated ==
  verdict # None /\ verdict.decision = "DECLINE"
  /\ (\E s \in Seen(chain) : Adverse(s))
  /\ (\A s \in Seen(chain) : Adverse(s) => Required(s) # {})
  => \E i, j \in DOMAIN chain :
       /\ Adverse(chain[i].signal)
       /\ chain[j].action \in Required(chain[i].signal) /\ chain[j].signal \in Resolved

\* The grade never claims more than the decision does (a policy that asks for no
\* network fact may allow an empty, hence UNRESOLVED, chain).
GradeAgrees ==
  verdict # None =>
    /\ verdict.grade = "REFUTED" => verdict.decision = "DECLINE"
    /\ verdict.decision = "DECLINE" => verdict.grade \in {"REFUTED", "UNRESOLVED"}
    /\ verdict.decision = "ALLOW" /\ Grading.minSupport > 0 =>
         verdict.grade \in {"ATTESTED_FULL", "ATTESTED_PARTIAL"}

\* The loop does not give up on a decline while a required check is still to be had.
CorroborationIsTried ==
  verdict # None /\ stopping = "decisive" /\ Decide(belief) = "DECLINE" =>
    \A g \in verdict.gaps : g.reason # "not_attempted"

\* A date never prices a corroborating check out: a decline left uncorroborated
\* for the budget, straight after the swap, was so without the date as well.
DateNeverPricesOutACheck ==
  verdict # None /\ stopping = "decisive" /\ Decide(belief) = "DECLINE"
  /\ ~req.parallel /\ chain # <<>> =>
    LET last == chain[Len(chain)] IN
    [signal |-> last.signal, reason |-> "budget"] \in verdict.gaps /\ last.timing = "asked" =>
      \A a \in Required(last.signal) \ Blocked : Cost[a] > budget + DateCost

\* What a verdict says rests on its chain, however the run ended: the three
\* gates and the grade hold together (investigate, _apply_corroboration_gate, grade).
VerdictIsSupported == AllowIsSupported /\ DeclineIsCorroborated /\ GradeAgrees

\* A corroborating check is bought while it can be: neither the loop nor an
\* optional date leaves it out (_next_corroboration, _corroboration_reserve).
CorroborationIsBought == CorroborationIsTried /\ DateNeverPricesOutACheck

\* What is spent and what is left, and that one call at a time never overdraws.
Accounts ==
  /\ cost + budget = BudgetOf(req)
  /\ ~req.parallel => budget >= 0 /\ phase # "answers" /\ batch = {}

\* Until the batch nothing was bought but the choreographed checks.
Opening ==
  /\ phase \in {"local", "continuity"} => used = {}
  /\ phase = "authorization" => used \subseteq {NumberRecycling}

\* A check is in one place: still out, in but not paid for, or used.
Standing ==
  /\ phase \notin {"batch", "answers"} => batch = {}
  /\ batch \cap Excluded = {}
  /\ \A i \in DOMAIN chain :
       /\ chain[i].timing = "pending" =>
            phase = "answers" /\ chain[i].action \notin Excluded \cup batch
       /\ ~chain[i].local /\ chain[i].timing # "pending" => chain[i].action \in used

\* What could not be checked is remembered.
Holes == ~hole => \A i \in DOMAIN chain :
  chain[i].signal \in Unresolved => chain[i].local \/ chain[i].timing = "pending"

\* The run in progress, and what a verdict may say, in one inductive invariant.
IInv ==
  /\ Accounts /\ Opening /\ Standing /\ Holes
  /\ ChecksAreDistinct
  /\ verdict # None => phase = "done"
  /\ AllowIsSupported /\ DeclineIsCorroborated /\ GradeAgrees

\* While a signal's checks are all untried, its own date has left one affordable,
\* or none was affordable before it.
DateLeavesRoom ==
  ~req.parallel /\ chain # <<>> /\ phase \notin {"settle", "done"} =>
    LET last == chain[Len(chain)]
        buyable == Required(last.signal) \ Blocked
    IN last.timing = "asked" /\ Required(last.signal) \cap Attempted = {} =>
         \/ \E a \in buyable : Cost[a] <= budget
         \/ \A a \in buyable : Cost[a] > budget + DateCost

\* A loop left on a decline has left no corroborating check it could have bought;
\* nor could it have without the date of the last signal.
NothingLeftToTry ==
  phase \in {"step_up", "settle", "done"} /\ stopping = "decisive" =>
    /\ Decisive(belief)
    /\ Decide(belief) = "DECLINE" =>
         \A i \in DOMAIN chain : \A a \in Required(chain[i].signal) \ (Attempted \cup Blocked) :
           /\ Cost[a] > budget
           /\ ~req.parallel /\ i = Len(chain) /\ chain[i].timing = "asked"
              /\ Required(chain[i].signal) \cap Attempted = {} => Cost[a] > budget + DateCost

\* What corroboration a run could still buy, from its purchases to its verdict.
BoughtInv ==
  /\ used \subseteq Attempted
  /\ DateLeavesRoom /\ NothingLeftToTry
  /\ phase \in {"local", "continuity", "authorization", "batch", "answers", "loop"} =>
       stopping = "budget_exhausted"
  /\ verdict # None => phase = "done" /\ verdict.gaps = Gaps

\* Whatever the operator and the model answer, a run ends with a verdict or refuses
\* an authorization it cannot afford.
EveryRunEnds == <>(phase \in {"done", "refused"})

\* models.py: "Billable provider operations ATTEMPTED ... Not the link count".
OperationsAreBillable ==
  verdict # None =>
    verdict.operations = Cardinality({i \in DOMAIN chain : ~chain[i].local})
                         + Cardinality({i \in DOMAIN chain : chain[i].timing = "asked"})
=============================================================================
