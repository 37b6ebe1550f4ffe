-------------------------- MODULE InvestigatorProofs --------------------------
(***************************************************************************)
(* Proofs about Investigator, for every policy, every set of checks and    *)
(* answers and every request, and about the operator calls it makes (O, an *)
(* instance of OperatorCalls), for every pool and every provider.          *)
(***************************************************************************)
EXTENDS Investigator, OperatorLinks, SumLemmas

USE DEF Decision, Grades

\* What the policy makes of a request is of the right kind.
LEMMA RequestTypes ==
  ASSUME NEW r \in Requests
  PROVE  PriorOf(r) \in Int /\ BudgetOf(r) \in Nat
<1>1. \A b, n : b \in BOOLEAN /\ n \in Int => Shift(b, n) \in Int
  BY DEF Shift
<1>2. Sensitive(r) \in BOOLEAN
  BY DEF Sensitive
<1>3. r \in RequestType
  BY RequestAssumption
<1>4. BudgetOf(r) \in Nat
  BY <1>3, CostAssumption DEF BudgetOf, RequestType
<1>5. PriorOf(r) \in Int
  <2>1. /\ Prior.base \in Int /\ Prior.reverse \in Int /\ Prior.newAccount \in Int
        /\ Prior.cod \in Int /\ Prior.highValue \in Int /\ Prior.sensitive \in Int
    BY ThresholdAssumption
  <2>2. r.newAccount \in BOOLEAN /\ r.cod \in BOOLEAN /\ r.highValue \in BOOLEAN
    BY <1>3 DEF RequestType
  <2>3. /\ Shift(r.newAccount, Prior.newAccount) \in Int /\ Shift(r.cod, Prior.cod) \in Int
        /\ Shift(r.highValue, Prior.highValue) \in Int
        /\ Shift(Sensitive(r), Prior.sensitive) \in Int
    BY <1>1, <1>2, <2>1, <2>2
  <2> QED BY <2>1, <2>3 DEF PriorOf
<1> QED BY <1>4, <1>5

\* Whatever a planner or the choreography picks is a check that was not excluded
\* and that the budget covers.
LEMMA PicksFit ==
  ASSUME NEW h, NEW b, NEW signals \in Seq(Signal), NEW u, NEW left \in Int, NEW a,
         \/ a \in Affordable(u, left)
         \/ a \in NextBest(h, u, left)
         \/ a \in CheapestStepUp(u, left)
         \/ a \in NextCorroboration(b, signals, u, left)
  PROVE  a \in Action /\ a \notin u /\ Cost[a] <= left
<1> USE ActionAssumption, CostAssumption, SignalAssumption
<1>1. CASE a \in Affordable(u, left)
  BY <1>1 DEF Affordable
<1>2. CASE a \in NextBest(h, u, left)
  BY <1>2 DEF NextBest, Affordable
<1>3. CASE a \in CheapestStepUp(u, left)
  BY <1>3 DEF CheapestStepUp
<1>4. CASE a \in NextCorroboration(b, signals, u, left)
  <2>1. PICK i \in DOMAIN signals : \E k \in Open(signals[i], u, left) :
          a = Corroboration[signals[i]][k]
    <3> HIDE ActionAssumption, CostAssumption, SignalAssumption
    <3> QED BY <1>4 DEF NextCorroboration
  <2>2. Corroboration[signals[i]] \in Seq(Action)
    OBVIOUS
  <2>3. PICK k \in Open(signals[i], u, left) : a = Corroboration[signals[i]][k]
    BY <2>1
  <2>4. k \in DOMAIN Corroboration[signals[i]] /\ a \notin u /\ Cost[a] <= left
    BY <2>3 DEF Open
  <2>5. a \in Action
    <3> HIDE ActionAssumption, CostAssumption, SignalAssumption
    <3> QED BY <2>2, <2>3, <2>4
  <2> QED BY <2>4, <2>5
<1> QED BY <1>1, <1>2, <1>3, <1>4

\* A date call is asked, or the link says why it was not; none is left pending.
LEMMA DatesTypes ==
  ASSUME NEW a, NEW s, NEW links, NEW left, NEW timing \in Dates(a, s, links, left)
  PROVE  timing \in Timing \ {"pending"}
BY DEF Dates, Timing

\* A date that is asked is one the budget covers.
LEMMA DatesFit ==
  ASSUME NEW a, NEW s, NEW links, NEW left \in Int, NEW timing \in Dates(a, s, links, left)
  PROVE  Paid(timing) \in Nat /\ (0 <= left => Paid(timing) <= left)
BY CostAssumption DEF Dates, DateFits, Paid

\* A purchase keeps the types of what it changes.
LEMMA PurchaseTypes ==
  ASSUME TypeOK, NEW a \in Action, Purchase(a)
  PROVE  /\ chain' \in Seq(Link) /\ belief' \in Int /\ budget' \in Int /\ cost' \in Nat
         /\ used' \subseteq Action /\ hole' \in BOOLEAN
<1> DEFINE links(s) == Append(chain, NetworkLink(a, s, "none"))
<1> HIDE DEF links
<1>1. PICK s \in Answers[a] :
        \E timing \in Dates(a, s, links(s), budget - Cost[a]) :
          /\ chain' = Append(chain, NetworkLink(a, s, timing))
          /\ belief' = belief + Delta[s]
          /\ budget' = budget - Cost[a] - Paid(timing)
          /\ cost' = cost + Cost[a] + Paid(timing)
          /\ used' = used \cup {a}
          /\ hole' = (hole \/ s \in Unresolved)
  BY DEF Purchase, links
<1>2. PICK timing \in Dates(a, s, links(s), budget - Cost[a]) :
          /\ chain' = Append(chain, NetworkLink(a, s, timing))
          /\ belief' = belief + Delta[s]
          /\ budget' = budget - Cost[a] - Paid(timing)
          /\ cost' = cost + Cost[a] + Paid(timing)
          /\ used' = used \cup {a}
          /\ hole' = (hole \/ s \in Unresolved)
  BY <1>1
<1>3. s \in Signal /\ Delta[s] \in Int /\ Cost[a] \in Nat
  BY RequestAssumption, SignalAssumption, CostAssumption
<1>4. timing \in Timing /\ Paid(timing) \in Nat
  BY DatesTypes, CostAssumption DEF Paid
<1>5. NetworkLink(a, s, timing) \in Link
  BY <1>3, <1>4 DEF NetworkLink, Link
<1>6. hole' \in BOOLEAN
  BY <1>2, Zenon DEF TypeOK
<1>7. chain' \in Seq(Link)
  BY <1>2, <1>5 DEF TypeOK
<1>8. belief' \in Int
  <2>1. belief \in Int
    BY DEF TypeOK
  <2>2. belief' = belief + Delta[s]
    BY <1>2
  <2> QED BY <2>1, <2>2, <1>3
<1>9. budget' \in Int
  <2>1. budget \in Int
    BY DEF TypeOK
  <2>2. budget' = budget - Cost[a] - Paid(timing)
    BY <1>2
  <2> QED BY <2>1, <2>2, <1>3, <1>4
<1>10. cost' \in Nat
  <2>1. cost \in Nat
    BY DEF TypeOK
  <2>2. cost' = cost + Cost[a] + Paid(timing)
    BY <1>2
  <2> QED BY <2>1, <2>2, <1>3, <1>4
<1>11. used' \subseteq Action
  BY <1>2 DEF TypeOK
<1> QED BY <1>6, <1>7, <1>8, <1>9, <1>10, <1>11

\* A link is a check with its answer, or local evidence, which has no date.
LEMMA LinkTypes ==
  ASSUME TypeOK, NEW i \in DOMAIN chain
  PROVE  /\ chain[i] \in Link
         /\ chain[i].signal \in Signal /\ chain[i].timing \in Timing /\ chain[i].local \in BOOLEAN
         /\ IF chain[i].local THEN chain[i].action = None /\ chain[i].timing = "none"
                              ELSE chain[i].action \in Action
<1>1. chain[i] \in Link
  BY DEF TypeOK
<1>2. CASE chain[i] \in [action : Action, signal : Signal, local : {FALSE}, timing : Timing]
  BY <1>1, <1>2
<1>3. CASE chain[i] \in [action : {None}, signal : Signal, local : {TRUE}, timing : {"none"}]
  BY <1>1, <1>3 DEF Timing
<1> QED BY <1>1, <1>2, <1>3 DEF Link

\* A planner stops, or names a check that is not excluded and that the budget covers.
LEMMA ChoicesFit ==
  ASSUME TypeOK, NEW c \in Choices
  PROVE  /\ c[2] \in {"llm", "greedy"}
         /\ c[1] # None => c[1] \in Action \ Excluded /\ Cost[c[1]] <= budget
<1> DEFINE can == Affordable(Excluded, budget)
           best == NextBest(Suspected, Excluded, budget)
<1>1. PICK a \in can \cup best \cup {None}, source \in {"llm", "greedy"} : c = <<a, source>>
  <2>1. req.planner \in Planner
    BY RequestAssumption DEF TypeOK, RequestType
  <2> QED BY <2>1 DEF Choices, Planner
<1>2. <<>> \in Seq(Signal) /\ budget \in Int
  BY DEF TypeOK
<1>3. ASSUME a \in can \cup best PROVE a \in Action \ Excluded /\ Cost[a] <= budget
  BY <1>2, <1>3, PicksFit
<1> QED BY <1>1, <1>3

\* A verdict is one of the verdicts.
LEMMA VerdictTypes ==
  ASSUME TypeOK, Conclude
  PROVE  verdict' \in Verdict
<1> DEFINE asked == {i \in DOMAIN chain : chain[i].timing = "asked"}
<1>1. Operations \in Nat
  <2>1. DOMAIN chain = 1..Len(chain) /\ Len(chain) \in Nat
    BY DEF TypeOK
  <2>2. IsFiniteSet(asked)
    <3>1. IsFiniteSet(1..Len(chain))
      BY <2>1, FS_Interval
    <3>2. asked \subseteq 1..Len(chain)
      BY <2>1
    <3> QED BY <3>1, <3>2, FS_Subset
  <2>3. Cardinality(asked) \in Nat
    BY <2>2, FS_CardinalityType
  <2> QED BY <2>1, <2>3 DEF Operations
<1>2. Final \in Decision
  BY DEF Final, Decide
<1>3. \A u, l, n, d : Grade(belief, u, l, n, d) \in Grades
  BY DEF Grade, Decide
<1>4. Gaps \subseteq Gap
  <2>1. Seen(chain) \subseteq Signal
    BY LinkTypes DEF Seen
  <2>2. \A s : GapReason(s) \in {"budget", "unresolved", "unavailable", "not_attempted"}
    BY DEF GapReason
  <2> QED BY <2>1, <2>2 DEF Gaps, Gap
<1>5. Label \in {"none", "policy", "greedy", "llm", "greedy+llm"}
  BY DEF Label
<1> QED BY <1>1, <1>2, <1>3, <1>4, <1>5 DEF Conclude, Verdict

\* What settling link i with this date does.
Settled(i, timing) ==
  LET a == chain[i].action
      s == chain[i].signal
  IN /\ chain' = [chain EXCEPT ![i] = NetworkLink(a, s, timing)]
     /\ belief' = belief + Delta[s]
     /\ budget' = budget - Cost[a] - Paid(timing)
     /\ cost' = cost + Cost[a] + Paid(timing)
     /\ used' = used \cup {a}
     /\ hole' = (hole \/ s \in Unresolved)

\* Every step keeps the variables in their types.
LEMMA TypeStep == TypeOK /\ [Next]_vars => TypeOK'
<1> SUFFICES ASSUME TypeOK, [Next]_vars PROVE TypeOK'
  OBVIOUS
<1> USE DEF TypeOK, evidence, inputs, Phase
<1>p. ASSUME NEW a \in Action, Purchase(a)
      PROVE  /\ chain' \in Seq(Link) /\ belief' \in Int /\ budget' \in Int /\ cost' \in Nat
             /\ used' \subseteq Action /\ hole' \in BOOLEAN
  BY <1>p, PurchaseTypes
<1>n. ASSUME NEW a \in Action, NEW s \in Signal, NEW timing \in Timing
      PROVE  NetworkLink(a, s, timing) \in Link
  BY DEF NetworkLink, Link
<1>s. Signals(chain) \in Seq(Signal)
  <2>1. \A i \in DOMAIN chain : chain[i].signal \in Signal
    BY LinkTypes
  <2> QED BY <2>1 DEF Signals
<1>1. CASE ApplyLocal
  <2>1. req.local \in Seq(Signal)
    BY RequestAssumption DEF RequestType
  <2>2. CASE Len(chain) < Len(req.local)
    <3> DEFINE s == req.local[Len(chain) + 1]
               link == [action |-> None, signal |-> s, local |-> TRUE, timing |-> "none"]
    <3>1. s \in Signal
      BY <2>1, <2>2
    <3>2. link \in Link
      BY <3>1 DEF Link, Timing
    <3>3. Delta[s] \in Int
      BY <3>1, SignalAssumption
    <3>4. chain' = Append(chain, link) /\ belief' = belief + Delta[s] /\ UNCHANGED phase
      BY <1>1, <2>2 DEF ApplyLocal
    <3> HIDE DEF link, s
    <3>5. chain' \in Seq(Link) /\ belief' \in Int
      BY <3>2, <3>3, <3>4
    <3> QED BY <1>1, <3>4, <3>5 DEF ApplyLocal
  <2>3. CASE ~(Len(chain) < Len(req.local))
    BY <1>1, <2>3 DEF ApplyLocal
  <2> QED BY <2>2, <2>3
<1>2. CASE CheckContinuity
  <2>1. NumberRecycling \in Action
    BY ActionAssumption
  <2>2. CASE Purchase(NumberRecycling) /\ choreographed' = TRUE
    BY <1>2, <2>1, <2>2, <1>p DEF CheckContinuity
  <2>3. CASE UNCHANGED <<evidence, choreographed>>
    BY <1>2, <2>3 DEF CheckContinuity
  <2> QED BY <1>2, <2>2, <2>3 DEF CheckContinuity
<1>3. CASE UseAuthorization
  <2>1. req.required \in Action
    BY <1>3, RequestAssumption, ActionAssumption DEF UseAuthorization, RequestType
  <2>2. CASE phase' = "batch" /\ Purchase(req.required) /\ choreographed' = TRUE
    BY <1>3, <2>1, <2>2, <1>p DEF UseAuthorization
  <2>3. CASE phase' = "refused" /\ UNCHANGED <<evidence, choreographed>>
    BY <1>3, <2>3 DEF UseAuthorization
  <2> QED BY <1>3, <2>2, <2>3 DEF UseAuthorization
<1>4. CASE NoAuthorization
  BY <1>4 DEF NoAuthorization
<1>5. CASE SkipBatch
  BY <1>5 DEF SkipBatch
<1>6. CASE PickForBatch
  <2> DEFINE left == IF batch = {} THEN budget ELSE remaining
             best == NextBest(Suspected, Excluded \cup batch, left)
  <2>1. left \in Int
    OBVIOUS
  <2>2. \A a \in best : a \in Action
    BY <2>1, <1>s, PicksFit
  <2>3. CASE \E a \in best : batch' = batch \cup {a} /\ remaining' = left - Cost[a]
                             /\ UNCHANGED phase
    <3>1. PICK a \in best : batch' = batch \cup {a} /\ remaining' = left - Cost[a]
                            /\ UNCHANGED phase
      BY <2>3
    <3>2. Cost[a] \in Nat
      BY <2>2, CostAssumption
    <3> HIDE DEF left, best
    <3>3. remaining' \in Int
      BY <3>1, <3>2, <2>1
    <3> QED BY <1>6, <2>2, <3>1, <3>3 DEF PickForBatch
  <2>4. CASE phase' = "answers" /\ UNCHANGED <<batch, remaining>>
    BY <1>6, <2>4 DEF PickForBatch
  <2> QED BY <1>6, <2>3, <2>4 DEF PickForBatch
<1>7. ASSUME NEW a \in Action, BatchAnswer(a) PROVE TypeOK'
  <2>1. PICK s \in Answers[a] : chain' = Append(chain, NetworkLink(a, s, "pending"))
    BY <1>7 DEF BatchAnswer
  <2>2. NetworkLink(a, s, "pending") \in Link
    BY RequestAssumption, <1>n DEF Timing
  <2>3. chain' \in Seq(Link)
    BY <2>1, <2>2
  <2> QED BY <1>7, <2>3 DEF BatchAnswer
<1>8. CASE SettleBatch
  <2>0. PICK i \in DOMAIN chain :
          /\ chain[i].timing = "pending"
          /\ \E timing \in Dates(chain[i].action, chain[i].signal, chain,
                                 budget - Cost[chain[i].action]) : Settled(i, timing)
    BY <1>8 DEF SettleBatch, Settled
  <2>1. PICK timing \in Dates(chain[i].action, chain[i].signal, chain,
                              budget - Cost[chain[i].action]) :
          /\ chain[i].timing = "pending"
          /\ chain' = [chain EXCEPT ![i] = NetworkLink(chain[i].action, chain[i].signal, timing)]
          /\ belief' = belief + Delta[chain[i].signal]
          /\ budget' = budget - Cost[chain[i].action] - Paid(timing)
          /\ cost' = cost + Cost[chain[i].action] + Paid(timing)
          /\ used' = used \cup {chain[i].action}
          /\ hole' = (hole \/ chain[i].signal \in Unresolved)
    BY <2>0 DEF Settled
  <2> DEFINE a == chain[i].action
             s == chain[i].signal
  <2>2. a \in Action /\ s \in Signal
    BY <2>1, LinkTypes
  <2>3. timing \in Timing /\ Paid(timing) \in Nat
    BY DatesTypes, CostAssumption DEF Paid
  <2>4. Cost[a] \in Nat /\ Delta[s] \in Int
    BY <2>2, CostAssumption, SignalAssumption
  <2>5. NetworkLink(a, s, timing) \in Link
    BY <2>2, <2>3, <1>n
  <2> HIDE DEF a, s
  <2>6. chain' \in Seq(Link)
    BY <2>1, <2>5 DEF a, s
  <2>7. belief' \in Int
    BY <2>1, <2>4 DEF a, s
  <2>13. budget' = budget - Cost[a] - Paid(timing)
    BY <2>1 DEF a
  <2>8. budget' \in Int
    BY <2>13, <2>3, <2>4
  <2>9. cost' = cost + Cost[a] + Paid(timing)
    BY <2>1 DEF a
  <2>12. cost' \in Nat
    BY <2>9, <2>3, <2>4
  <2>10. used' \subseteq Action
    BY <2>1, <2>2 DEF a, s
  <2>11. hole' \in BOOLEAN
    BY <2>1, Zenon
  <2> QED BY <1>8, <2>6, <2>7, <2>8, <2>12, <2>10, <2>11 DEF SettleBatch
<1>9. CASE BatchDone
  BY <1>9 DEF BatchDone
<1>10. CASE BudgetExhausted
  BY <1>10 DEF BudgetExhausted, LeaveLoop, Reason
<1>11. CASE Corroborate
  <2>1. PICK a \in Outstanding : Choreograph(a)
    BY <1>11 DEF Corroborate
  <2>2. a \in Action
    BY <1>s, PicksFit DEF Outstanding
  <2> QED BY <2>1, <2>2, <1>p DEF Choreograph
<1>12. CASE Attest
  <2>1. PICK a \in NextBest(Suspected, Excluded, budget) : Choreograph(a)
    BY <1>12 DEF Attest
  <2>2. a \in Action
    BY <1>s, PicksFit
  <2> QED BY <2>1, <2>2, <1>p DEF Choreograph
<1>13. CASE Enough
  BY <1>13 DEF Enough, LeaveLoop, Reason
<1>14. CASE NothingAffordable
  BY <1>14 DEF NothingAffordable, LeaveLoop, Reason
<1>15. CASE Investigate
  <2>1. PICK c \in Choices : c[1] # None /\ Purchase(c[1]) /\ sources' = sources \cup {c[2]}
    BY <1>15 DEF Investigate
  <2>2. c[1] \in Action /\ c[2] \in {"llm", "greedy"}
    BY <2>1, ChoicesFit
  <2>3. asks' \in Nat
    BY <1>15 DEF Investigate, Asked
  <2>4. sources' \subseteq {"llm", "greedy"}
    BY <2>1, <2>2
  <2> QED BY <1>15, <2>1, <2>2, <2>3, <2>4, <1>p DEF Investigate
<1>16. CASE PlannerStops
  <2>1. PICK c \in Choices : sources' = sources \cup {c[2]}
    BY <1>16 DEF PlannerStops
  <2>2. c[2] \in {"llm", "greedy"}
    BY ChoicesFit
  <2>3. asks' \in Nat
    BY <1>16 DEF PlannerStops, Asked
  <2>4. sources' \subseteq {"llm", "greedy"}
    BY <2>1, <2>2
  <2> QED BY <1>16, <2>3, <2>4 DEF PlannerStops, Reason
<1>17. CASE StepUp
  <2>1. CASE UNCHANGED evidence
    BY <1>17, <2>1 DEF StepUp
  <2>2. CASE \E a \in CheapestStepUp(Excluded, budget) : Purchase(a)
    <3>1. PICK a \in CheapestStepUp(Excluded, budget) : Purchase(a)
      BY <2>2
    <3>2. a \in Action
      BY <1>s, PicksFit
    <3> QED BY <1>17, <3>1, <3>2, <1>p DEF StepUp
  <2> QED BY <1>17, <2>1, <2>2 DEF StepUp
<1>18. CASE SettleDeferred
  <2>1. PICK i \in Deferred, timing \in {"unsupported", "asked"} :
          /\ chain' = [chain EXCEPT ![i] = NetworkLink(chain[i].action, chain[i].signal, timing)]
          /\ budget' = budget - Paid(timing)
          /\ cost' = cost + Paid(timing)
    BY <1>18 DEF SettleDeferred
  <2>2. NetworkLink(chain[i].action, chain[i].signal, timing) \in Link
    <3>1. i \in DOMAIN chain /\ chain[i].timing = "deferred"
      BY DEF Deferred
    <3>2. chain[i].action \in Action /\ chain[i].signal \in Signal
      BY <3>1, LinkTypes
    <3> QED BY <3>2, <1>n DEF Timing
  <2>3. Paid(timing) \in Nat
    BY CostAssumption DEF Paid
  <2>4. chain' \in Seq(Link)
    BY <2>1, <2>2 DEF Deferred
  <2>5. budget' \in Int
    BY <2>1, <2>3
  <2>6. cost' \in Nat
    BY <2>1, <2>3
  <2> QED BY <1>18, <2>4, <2>5, <2>6 DEF SettleDeferred
<1>19. CASE Conclude
  BY <1>19, VerdictTypes DEF Conclude
<1>20. CASE UNCHANGED vars
  BY <1>20 DEF vars
<1> QED
  BY <1>1, <1>2, <1>3, <1>4, <1>5, <1>6, <1>7, <1>8, <1>9, <1>10, <1>11, <1>12, <1>13, <1>14,
     <1>15, <1>16, <1>17, <1>18, <1>19, <1>20 DEF Next
\* The variables always have their types.
THEOREM TypeCorrect == Spec => []TypeOK
<1>1. Init => TypeOK
  <2> SUFFICES ASSUME Init PROVE TypeOK
    OBVIOUS
  <2>1. PriorOf(req) \in Int /\ BudgetOf(req) \in Nat
    BY RequestTypes DEF Init
  <2>2. chain \in Seq(Link)
    BY DEF Init
  <2>3. /\ belief \in Int /\ budget \in Int /\ cost \in Nat /\ remaining \in Int /\ asks \in Nat
    BY <2>1 DEF Init
  <2> QED BY <2>2, <2>3, Zenon DEF Init, TypeOK, Phase, Reason
<1> QED
  BY <1>1, TypeStep, PTL DEF Spec

-----------------------------------------------------------------------------
\* A purchase of a check that is neither used nor barred, with no batch out, keeps
\* the invariant, whichever of the buying paths makes it.
LEMMA PurchaseKeeps ==
  ASSUME TypeOK, IInv, NEW a \in Action, Purchase(a),
         a \notin used, a \notin Blocked \/ a \in {NumberRecycling, req.required},
         ~req.parallel => Cost[a] <= budget,
         phase \notin {"answers", "done"}, batch = {},
         phase' \in {"authorization", "batch", "loop", "settle"},
         phase' = "authorization" => used' \subseteq {NumberRecycling},
         req' = req, batch' = batch, verdict' = verdict
  PROVE  IInv'
<1>1. PICK s \in Answers[a] :
        \E timing \in Dates(a, s, Append(chain, NetworkLink(a, s, "none")), budget - Cost[a]) :
          /\ chain' = Append(chain, NetworkLink(a, s, timing))
          /\ budget' = budget - Cost[a] - Paid(timing)
          /\ cost' = cost + Cost[a] + Paid(timing)
          /\ used' = used \cup {a}
          /\ hole' = (hole \/ s \in Unresolved)
  BY DEF Purchase
<1>2. PICK timing \in Dates(a, s, Append(chain, NetworkLink(a, s, "none")), budget - Cost[a]) :
          /\ chain' = Append(chain, NetworkLink(a, s, timing))
          /\ budget' = budget - Cost[a] - Paid(timing)
          /\ cost' = cost + Cost[a] + Paid(timing)
          /\ used' = used \cup {a}
          /\ hole' = (hole \/ s \in Unresolved)
  BY <1>1
<1>3. timing # "pending"
  BY DatesTypes
<1>4. /\ Cost[a] \in Nat /\ Paid(timing) \in Nat /\ budget \in Int /\ cost \in Nat
      /\ 0 <= budget - Cost[a] => Paid(timing) <= budget - Cost[a]
  BY DatesFit, CostAssumption DEF TypeOK
<1>5. Accounts'
  <2>b. /\ budget' = budget - Cost[a] - Paid(timing)
        /\ cost' = cost + Cost[a] + Paid(timing)
    BY <1>2
  <2>1. cost' + budget' = cost + budget
    BY <1>4, <2>b
  <2>2. ~req.parallel => budget' >= 0
    BY <1>4, <2>b
  <2> QED BY <2>1, <2>2 DEF IInv, Accounts
<1>6. /\ DOMAIN chain' = DOMAIN chain \cup {Len(chain) + 1}
      /\ \A i \in DOMAIN chain : chain'[i] = chain[i]
      /\ chain'[Len(chain) + 1] = [action |-> a, signal |-> s, local |-> FALSE, timing |-> timing]
      /\ Len(chain) + 1 \notin DOMAIN chain
  BY <1>2 DEF TypeOK, NetworkLink
<1>7. \A i \in DOMAIN chain : /\ chain[i].timing # "pending"
                              /\ ~chain[i].local => chain[i].action \in used
  BY DEF IInv, Standing
<1>8. Standing'
  BY <1>2, <1>3, <1>6, <1>7 DEF Standing
<1>9. Holes'
  <2>1. ~hole' => ~hole /\ s \notin Unresolved
    BY <1>2, Zenon
  <2> QED BY <2>1, <1>6 DEF IInv, Holes
<1>10. ChecksAreDistinct'
  <2>1. Blocked' = Blocked
    BY DEF Blocked
  <2>2. \A i \in DOMAIN chain : chain[i].action # a
    BY <1>7, LinkTypes, RequestAssumption
  <2> QED BY <1>6, <2>1, <2>2 DEF IInv, ChecksAreDistinct
<1>11. Opening'
  BY DEF Opening
<1>12. verdict' = None
  BY DEF IInv
<1> QED BY <1>5, <1>8, <1>9, <1>10, <1>11, <1>12
        DEF IInv, AllowIsSupported, DeclineIsCorroborated, GradeAgrees

\* A step that leaves chain and accounts alone, and ends no run, keeps the
\* invariant when no batch was out and none is taken out.
LEMMA QuietStepKeeps ==
  ASSUME TypeOK, IInv, UNCHANGED <<evidence, req, verdict, batch>>,
         phase # "done",
         phase' = "answers" => req.parallel /\ phase = "batch",
         phase' \notin {"batch", "answers"} => batch = {},
         phase = "answers" => \A i \in DOMAIN chain : chain[i].timing # "pending",
         phase' = "local" => phase = "local",
         phase' = "continuity" => phase \in {"local", "continuity"},
         phase' = "authorization" => phase \in {"continuity", "authorization"}
  PROVE  IInv'
<1> USE DEF evidence
<1>1. Accounts'
  BY DEF IInv, Accounts
<1>2. Opening'
  BY DEF IInv, Opening
<1>3. Standing'
  <2>1. Excluded' = Excluded
    BY DEF Excluded, Blocked
  <2> QED BY <2>1 DEF IInv, Standing
<1>4. Holes'
  BY DEF IInv, Holes
<1>5. ChecksAreDistinct'
  BY DEF IInv, ChecksAreDistinct, Blocked
<1>6. verdict' = None
  BY DEF IInv
<1> QED BY <1>1, <1>2, <1>3, <1>4, <1>5, <1>6
        DEF IInv, AllowIsSupported, DeclineIsCorroborated, GradeAgrees
\* A decline is a score past the threshold that the corroboration gate let stand,
\* so one of its adverse signals needs no more corroboration than it has.
LEMMA GateHolds ==
  ASSUME TypeOK, Conclude
  PROVE  DeclineIsCorroborated'
<1> SUFFICES ASSUME Final = "DECLINE",
                    \E i \in DOMAIN chain : Adverse(chain[i].signal),
                    \A i \in DOMAIN chain : Adverse(chain[i].signal) =>
                      Required(chain[i].signal) # {}
             PROVE  \E i, j \in DOMAIN chain :
                      /\ Adverse(chain[i].signal)
                      /\ chain[j].action \in Required(chain[i].signal)
                      /\ chain[j].signal \in Resolved
  BY DEF Conclude, DeclineIsCorroborated, evidence, Seen
<1>1. Decide(belief) = "DECLINE" /\ Uncorroborated = {}
  BY DEF Final
<1>2. PICK i \in DOMAIN chain : Adverse(chain[i].signal) /\ Ungated(chain[i].signal)
  <2>1. ASSUME NEW s \in Seen(chain), Adverse(s), ~Ungated(s)
        PROVE  s \in {g.signal : g \in Gaps}
    <3>1. [signal |-> s, reason |-> GapReason(s)] \in Gaps
      BY <2>1 DEF Gaps
    <3> QED BY <3>1
  <2> DEFINE gated == {g.signal : g \in Gaps}
             adverse == {s \in Seen(chain) : Adverse(s)}
  <2>2. adverse # {}
    BY DEF Seen
  <2>3. ~(adverse \subseteq gated)
    <3>1. CASE gated = {}
      BY <2>2, <3>1
    <3>2. CASE gated # {}
      BY <1>1, <2>2, <3>2 DEF Uncorroborated
    <3> QED BY <3>1, <3>2
  <2> HIDE DEF gated, adverse
  <2>4. PICK s \in adverse : s \notin gated
    BY <2>3
  <2>5. s \in Seen(chain) /\ Adverse(s) /\ Ungated(s)
    BY <2>1, <2>4 DEF gated, adverse
  <2> QED BY <2>5 DEF Seen
<1>3. ResolvedFor(chain[i].signal, chain) # {}
  <2>1. Cardinality(ResolvedFor(chain[i].signal, chain)) >= MinResolved
    BY <1>2 DEF Ungated
  <2>2. MinResolved \in Nat \ {0}
    BY ThresholdAssumption
  <2>3. Cardinality({}) = 0
    BY FS_EmptySet
  <2> QED BY <2>1, <2>2, <2>3
<1> QED BY <1>2, <1>3 DEF ResolvedFor

\* An allow passed every gate: its support is there, nothing is unresolved, and
\* no number was recycled.
LEMMA AllowHolds ==
  ASSUME TypeOK, IInv, Conclude
  PROVE  AllowIsSupported'
<1> SUFFICES ASSUME Final = "ALLOW"
             PROVE  /\ Grading.minSupport > 0 =>
                         \E i \in DOMAIN chain :
                           /\ ~chain[i].local /\ Delta[chain[i].signal] < 0
                           /\ Relevant[Suspected] # {} => chain[i].action \in Relevant[Suspected]
                    /\ \A i \in DOMAIN chain : chain[i].signal \in Unresolved => chain[i].local
                    /\ Recycled \notin Seen(chain)
  BY DEF Conclude, AllowIsSupported, evidence, Seen, Suspected
<1>1. /\ Decide(belief) = "ALLOW"
      /\ ~Unsupported
      /\ Recycled \notin Seen(chain)
  BY DEF Final
<1>2. ~hole /\ ~NeedsANetworkFact
  BY <1>1 DEF Unsupported
<1>3. \A i \in DOMAIN chain : chain[i].signal \in Unresolved => chain[i].local
  BY <1>2 DEF IInv, Holes, Standing, Conclude
<1>4. ASSUME Grading.minSupport > 0 PROVE Supporting # {}
  <2>1. ~(Cardinality(Supporting) < Grading.minSupport)
    BY <1>1, <1>2 DEF NeedsANetworkFact
  <2>2. Cardinality({}) = 0
    BY FS_EmptySet
  <2> QED BY <1>4, <2>1, <2>2
<1> QED BY <1>1, <1>3, <1>4 DEF Supporting

\* The grade follows the gates.
LEMMA GradeHolds ==
  ASSUME TypeOK, Conclude
  PROVE  GradeAgrees'
<1> DEFINE grade == Grade(belief, Unsupported, Seen(chain), Len(chain), Uncorroborated # {})
<1>1. verdict'.decision = Final /\ verdict'.grade = grade
  BY DEF Conclude
<1>2. grade = "REFUTED" => Final = "DECLINE"
  BY DEF Grade, Final, Decide
<1>3. Final = "DECLINE" => grade \in {"REFUTED", "UNRESOLVED"}
  BY DEF Grade, Final, Decide
<1>4. Final = "ALLOW" /\ Grading.minSupport > 0 => grade \in {"ATTESTED_FULL", "ATTESTED_PARTIAL"}
  <2> SUFFICES ASSUME Final = "ALLOW", Grading.minSupport > 0
               PROVE  grade \in {"ATTESTED_FULL", "ATTESTED_PARTIAL"}
    OBVIOUS
  <2>1. Decide(belief) = "ALLOW" /\ ~Unsupported /\ Uncorroborated = {}
    BY DEF Final
  <2>2. Len(chain) # 0
    <3> SUFFICES ASSUME Len(chain) = 0 PROVE FALSE
      OBVIOUS
    <3>1. Supporting = {}
      BY DEF Supporting, TypeOK
    <3>2. Cardinality(Supporting) = 0
      BY <3>1, FS_EmptySet
    <3> QED BY <2>1, <3>2 DEF Unsupported, NeedsANetworkFact
  <2> QED BY <2>1, <2>2 DEF Grade
<1> HIDE DEF grade
<1> QED BY <1>1, <1>2, <1>3, <1>4 DEF GradeAgrees

\* Every step keeps the inductive invariant.
LEMMA InvStep == TypeOK /\ IInv /\ [Next]_vars => IInv'
<1> SUFFICES ASSUME TypeOK, IInv, [Next]_vars PROVE IInv'
  OBVIOUS
<1>u. ASSUME NEW a, Purchase(a) PROVE used' = used \cup {a}
  BY <1>u DEF Purchase
<1>s. Signals(chain) \in Seq(Signal) /\ budget \in Int
  <2>1. \A i \in DOMAIN chain : chain[i].signal \in Signal
    BY LinkTypes
  <2> QED BY <2>1 DEF Signals, TypeOK
<1>v. phase # "done" => verdict = None
  BY DEF IInv
<1>b. phase \notin {"batch", "answers"} => batch = {}
  BY DEF IInv, Standing
<1>1. CASE ApplyLocal
  <2>1. CASE Len(chain) < Len(req.local)
    <3> DEFINE s == req.local[Len(chain) + 1]
               link == [action |-> None, signal |-> s, local |-> TRUE, timing |-> "none"]
    <3>1. /\ chain' = Append(chain, link) /\ phase' = "local" /\ phase = "local"
          /\ UNCHANGED <<req, budget, cost, used, hole, batch, verdict>>
      BY <1>1, <2>1 DEF ApplyLocal
    <3>2. /\ DOMAIN chain' = DOMAIN chain \cup {Len(chain) + 1}
          /\ \A i \in DOMAIN chain : chain'[i] = chain[i]
          /\ chain'[Len(chain) + 1] = link
      BY <3>1 DEF TypeOK
    <3>3. used = {} /\ verdict = None /\ batch = {}
      BY <3>1, <1>v, <1>b DEF IInv, Opening
    <3>4. \A i \in DOMAIN chain : chain[i].local /\ chain[i].timing # "pending"
      BY <3>1, <3>3, LinkTypes DEF IInv, Standing
    <3>5. Accounts' /\ Opening'
      BY <3>1, <3>3 DEF IInv, Accounts, Opening
    <3>6. Standing'
      BY <3>1, <3>2, <3>3, <3>4 DEF Standing
    <3>7. Holes' /\ ChecksAreDistinct'
      BY <3>2, <3>4 DEF Holes, ChecksAreDistinct
    <3> QED BY <3>1, <3>3, <3>5, <3>6, <3>7
            DEF IInv, AllowIsSupported, DeclineIsCorroborated, GradeAgrees
  <2>2. CASE ~(Len(chain) < Len(req.local))
    BY <1>1, <2>2, <1>b, QuietStepKeeps DEF ApplyLocal, evidence
  <2> QED BY <2>1, <2>2
<1>2. CASE CheckContinuity
  <2>1. CASE Purchase(NumberRecycling) /\ choreographed' = TRUE
    <3>1. used = {} /\ batch = {} /\ phase = "continuity"
      BY <1>2, <1>b DEF CheckContinuity, IInv, Opening
    <3>2. Cost[NumberRecycling] <= budget \/ UNCHANGED evidence
      BY <1>2 DEF CheckContinuity
    <3>3. CASE UNCHANGED evidence
      BY <1>2, <3>1, <3>3, QuietStepKeeps DEF CheckContinuity
    <3>4. CASE Cost[NumberRecycling] <= budget
      BY <1>2, <1>u, <2>1, <3>1, <3>4, PurchaseKeeps, ActionAssumption DEF CheckContinuity
    <3> QED BY <3>2, <3>3, <3>4
  <2>2. CASE UNCHANGED <<evidence, choreographed>>
    BY <1>2, <1>b, <2>2, QuietStepKeeps DEF CheckContinuity
  <2> QED BY <1>2, <2>1, <2>2 DEF CheckContinuity
<1>3. CASE UseAuthorization
  <2>1. CASE Cost[req.required] > budget
    BY <1>3, <1>b, <2>1, QuietStepKeeps DEF UseAuthorization
  <2>2. CASE ~(Cost[req.required] > budget)
    <3>1. req.required \in Candidate
      BY <1>3, RequestAssumption DEF UseAuthorization, RequestType, TypeOK
    <3>2. req.required \in Action /\ req.required # NumberRecycling
      BY <3>1, ActionAssumption
    <3>3. req.required \notin used
      BY <1>3, <3>2 DEF UseAuthorization, IInv, Opening
    <3>4. Cost[req.required] <= budget
      <4>1. Cost[req.required] \in Nat
        BY <3>2, CostAssumption
      <4> QED BY <2>2, <4>1 DEF TypeOK
    <3> QED BY <1>3, <1>b, <2>2, <3>2, <3>3, <3>4, PurchaseKeeps DEF UseAuthorization
  <2> QED BY <2>1, <2>2
<1>4. CASE NoAuthorization
  BY <1>4, <1>b, QuietStepKeeps DEF NoAuthorization, inputs
<1>5. CASE SkipBatch
  <2>1. batch = {}
    BY <1>5 DEF SkipBatch, IInv, Accounts
  <2> QED BY <1>5, <2>1, QuietStepKeeps DEF SkipBatch, inputs
<1>6. CASE PickForBatch
  <2> DEFINE left == IF batch = {} THEN budget ELSE remaining
             best == NextBest(Suspected, Excluded \cup batch, left)
  <2>1. CASE \E a \in best : batch' = batch \cup {a} /\ remaining' = left - Cost[a]
                             /\ UNCHANGED phase
    <3>1. PICK a \in best : batch' = batch \cup {a} /\ UNCHANGED phase
      BY <2>1
    <3>2. left \in Int
      BY DEF TypeOK
    <3>3. a \notin Excluded
      BY <1>s, <3>2, PicksFit
    <3>4. phase = "batch" /\ req.parallel /\ UNCHANGED <<req, evidence, verdict>>
      BY <1>6 DEF PickForBatch
    <3>5. Excluded' = Excluded
      BY <3>4 DEF Excluded, Blocked, evidence
    <3> HIDE DEF best, left
    <3>6. Accounts' /\ Opening' /\ Holes'
      BY <3>1, <3>4 DEF IInv, Accounts, Opening, Holes, evidence
    <3>7. Standing'
      BY <3>1, <3>3, <3>4, <3>5 DEF IInv, Standing, evidence
    <3>8. ChecksAreDistinct'
      BY <3>4 DEF IInv, ChecksAreDistinct, Blocked, evidence
    <3> QED BY <1>v, <3>4, <3>6, <3>7, <3>8
            DEF IInv, AllowIsSupported, DeclineIsCorroborated, GradeAgrees
  <2>2. CASE phase' = "answers" /\ UNCHANGED <<batch, remaining>>
    BY <1>6, <2>2, QuietStepKeeps DEF PickForBatch
  <2> QED BY <1>6, <2>1, <2>2 DEF PickForBatch
<1>7. ASSUME NEW a \in Action, BatchAnswer(a) PROVE IInv'
  <2>1. PICK s \in Answers[a] : chain' = Append(chain, NetworkLink(a, s, "pending"))
    BY <1>7 DEF BatchAnswer
  <2>2. /\ phase = "answers" /\ a \in batch /\ batch' = batch \ {a}
        /\ UNCHANGED <<req, phase, budget, cost, used, hole, verdict>>
    BY <1>7 DEF BatchAnswer
  <2>3. /\ DOMAIN chain' = DOMAIN chain \cup {Len(chain) + 1}
        /\ \A i \in DOMAIN chain : chain'[i] = chain[i]
        /\ chain'[Len(chain) + 1] = [action |-> a, signal |-> s, local |-> FALSE,
                                     timing |-> "pending"]
        /\ Len(chain) + 1 \notin DOMAIN chain
    BY <2>1 DEF TypeOK, NetworkLink
  <2>4. Excluded' = Excluded /\ Blocked' = Blocked
    BY <2>2 DEF Excluded, Blocked
  <2>5. a \notin Excluded
    BY <2>2 DEF IInv, Standing
  <2>6. \A i \in DOMAIN chain : chain[i].action # a
    <3> SUFFICES ASSUME NEW i \in DOMAIN chain, chain[i].action = a PROVE FALSE
      OBVIOUS
    <3>1. ~chain[i].local
      BY LinkTypes, RequestAssumption
    <3>2. chain[i].timing # "pending"
      BY <2>2 DEF IInv, Standing
    <3> QED BY <2>5, <3>1, <3>2 DEF IInv, Standing, Excluded
  <2>7. Accounts' /\ Opening'
    BY <2>2 DEF IInv, Accounts, Opening
  <2>8. Standing'
    BY <2>2, <2>3, <2>4, <2>5 DEF IInv, Standing
  <2>9. Holes'
    BY <2>2, <2>3 DEF IInv, Holes
  <2>10. ChecksAreDistinct'
    BY <2>2, <2>3, <2>4, <2>5, <2>6 DEF IInv, ChecksAreDistinct, Excluded
  <2> QED BY <1>v, <2>2, <2>7, <2>8, <2>9, <2>10
          DEF IInv, AllowIsSupported, DeclineIsCorroborated, GradeAgrees
<1>8. CASE SettleBatch
  <2>1. PICK i \in DOMAIN chain :
          /\ chain[i].timing = "pending"
          /\ \E timing \in Dates(chain[i].action, chain[i].signal, chain,
                                 budget - Cost[chain[i].action]) : Settled(i, timing)
    BY <1>8 DEF SettleBatch, Settled
  <2>2. PICK timing \in Dates(chain[i].action, chain[i].signal, chain,
                              budget - Cost[chain[i].action]) :
          /\ chain' = [chain EXCEPT ![i] = NetworkLink(chain[i].action, chain[i].signal, timing)]
          /\ budget' = budget - Cost[chain[i].action] - Paid(timing)
          /\ cost' = cost + Cost[chain[i].action] + Paid(timing)
          /\ used' = used \cup {chain[i].action}
          /\ hole' = (hole \/ chain[i].signal \in Unresolved)
    BY <2>1 DEF Settled
  <2>3. /\ phase = "answers" /\ phase' = phase /\ batch' = batch /\ batch = {}
        /\ UNCHANGED <<req, verdict>>
    BY <1>8 DEF SettleBatch, inputs
  <2>4. timing # "pending"
    BY DatesTypes
  <2>5. chain[i].action \in Action /\ ~chain[i].local
    BY <2>1, LinkTypes
  <2>6. /\ Cost[chain[i].action] \in Nat /\ Paid(timing) \in Nat /\ budget \in Int /\ cost \in Nat
    BY <2>5, CostAssumption DEF TypeOK, Paid
  <2>7. /\ DOMAIN chain' = DOMAIN chain
        /\ \A j \in DOMAIN chain : j # i => chain'[j] = chain[j]
        /\ chain'[i] = [action |-> chain[i].action, signal |-> chain[i].signal, local |-> FALSE,
                        timing |-> timing]
    BY <2>2 DEF TypeOK, NetworkLink
  <2>8. Accounts' /\ Opening'
    <3> DEFINE price == Cost[chain[i].action]
    <3>1. budget' = budget - price - Paid(timing) /\ cost' = cost + price + Paid(timing)
      BY <2>2
    <3>2. price \in Nat
      BY <2>6
    <3> HIDE DEF price
    <3>3. cost' + budget' = cost + budget
      BY <2>6, <3>1, <3>2
    <3> QED BY <2>3, <3>3 DEF IInv, Accounts, Opening
  <2>9. Blocked' = Blocked
    BY <2>3 DEF Blocked
  <2>10. \A j \in DOMAIN chain : j # i /\ ~chain[j].local => chain[j].action # chain[i].action
    BY <2>5 DEF IInv, ChecksAreDistinct
  <2>11. Standing'
    <3>1. ASSUME NEW j \in DOMAIN chain', chain'[j].timing = "pending"
          PROVE  chain'[j].action \notin Excluded' \cup batch'
      <4>1. j # i /\ chain'[j] = chain[j] /\ ~chain[j].local
        BY <2>4, <2>7, <3>1, LinkTypes
      <4> QED BY <2>2, <2>3, <2>7, <2>9, <2>10, <3>1, <4>1 DEF IInv, Standing, Excluded
    <3>2. ASSUME NEW j \in DOMAIN chain', ~chain'[j].local, chain'[j].timing # "pending"
          PROVE  chain'[j].action \in used'
      BY <2>2, <2>7, <3>2 DEF IInv, Standing
    <3> QED BY <2>3, <3>1, <3>2 DEF Standing
  <2>12. Holes'
    <3>1. ~hole' => ~hole /\ chain[i].signal \notin Unresolved
      BY <2>2, Zenon
    <3> QED BY <2>7, <3>1 DEF IInv, Holes
  <2>13. ChecksAreDistinct'
    BY <2>3, <2>5, <2>7, <2>9 DEF IInv, ChecksAreDistinct
  <2> QED BY <1>v, <2>3, <2>8, <2>11, <2>12, <2>13
          DEF IInv, AllowIsSupported, DeclineIsCorroborated, GradeAgrees
<1>9. CASE BatchDone
  BY <1>9, QuietStepKeeps DEF BatchDone, inputs
<1>10. CASE BudgetExhausted
  BY <1>10, <1>b, QuietStepKeeps DEF BudgetExhausted, LeaveLoop
<1>c. ASSUME NEW a \in Action \ Excluded, Cost[a] <= budget, phase = "loop", phase' = "loop",
             Purchase(a), UNCHANGED <<req, batch, verdict>>
      PROVE  IInv'
  BY <1>c, <1>b, PurchaseKeeps DEF Excluded
<1>11. CASE Corroborate
  <2>1. PICK a \in Outstanding : Choreograph(a)
    BY <1>11 DEF Corroborate
  <2>2. a \in Action \ Excluded /\ Cost[a] <= budget
    BY <1>s, PicksFit DEF Outstanding
  <2> QED BY <1>11, <2>1, <2>2, <1>c DEF Corroborate, InLoop, Choreograph
<1>12. CASE Attest
  <2>1. PICK a \in NextBest(Suspected, Excluded, budget) : Choreograph(a)
    BY <1>12 DEF Attest
  <2>2. a \in Action \ Excluded /\ Cost[a] <= budget
    BY <1>s, PicksFit
  <2> QED BY <1>12, <2>1, <2>2, <1>c DEF Attest, InLoop, Choreograph
<1>13. CASE Enough
  BY <1>13, <1>b, QuietStepKeeps DEF Enough, InLoop, LeaveLoop
<1>14. CASE NothingAffordable
  BY <1>14, <1>b, QuietStepKeeps DEF NothingAffordable, InLoop, LeaveLoop
<1>15. CASE Investigate
  <2>1. PICK c \in Choices : c[1] # None /\ Purchase(c[1])
    BY <1>15 DEF Investigate
  <2>2. c[1] \in Action \ Excluded /\ Cost[c[1]] <= budget
    BY <2>1, ChoicesFit
  <2> QED BY <1>15, <2>1, <2>2, <1>c DEF Investigate, InLoop
<1>16. CASE PlannerStops
  BY <1>16, <1>b, QuietStepKeeps DEF PlannerStops, InLoop
<1>17. CASE StepUp
  <2>1. CASE UNCHANGED evidence
    BY <1>17, <1>b, <2>1, QuietStepKeeps DEF StepUp, inputs
  <2>2. CASE \E a \in CheapestStepUp(Excluded, budget) : Purchase(a)
    <3>1. PICK a \in CheapestStepUp(Excluded, budget) : Purchase(a)
      BY <2>2
    <3>2. a \in Action \ Excluded /\ Cost[a] <= budget
      BY <1>s, PicksFit
    <3> QED BY <1>17, <1>b, <3>1, <3>2, PurchaseKeeps DEF StepUp, inputs, Excluded
  <2> QED BY <1>17, <2>1, <2>2 DEF StepUp
<1>18. CASE SettleDeferred
  <2>1. PICK i \in Deferred, timing \in {"unsupported", "asked"} :
          /\ chain' = [chain EXCEPT ![i] = NetworkLink(chain[i].action, chain[i].signal, timing)]
          /\ budget' = budget - Paid(timing)
          /\ cost' = cost + Paid(timing)
    BY <1>18 DEF SettleDeferred
  <2>2. /\ phase = "settle" /\ UNCHANGED <<req, phase, used, hole, batch, verdict>>
        /\ DateCost <= budget
    BY <1>18 DEF SettleDeferred, inputs
  <2>3. i \in DOMAIN chain /\ chain[i].timing = "deferred" /\ ~chain[i].local
    BY LinkTypes DEF Deferred
  <2>4. /\ DOMAIN chain' = DOMAIN chain
        /\ \A j \in DOMAIN chain : j # i => chain'[j] = chain[j]
        /\ chain'[i] = [action |-> chain[i].action, signal |-> chain[i].signal, local |-> FALSE,
                        timing |-> timing]
    BY <2>1, <2>3 DEF TypeOK, NetworkLink
  <2>5. Excluded' = Excluded /\ Blocked' = Blocked
    BY <2>2 DEF Excluded, Blocked
  <2>6. Paid(timing) \in Nat /\ Paid(timing) <= budget /\ budget \in Int /\ cost \in Nat
    BY <2>2, CostAssumption DEF Paid, TypeOK
  <2>7. Accounts' /\ Opening'
    <3>1. cost' + budget' = cost + budget /\ budget' >= 0
      BY <2>1, <2>6
    <3> QED BY <2>2, <3>1 DEF IInv, Accounts, Opening
  <2>8. Standing'
    BY <2>2, <2>3, <2>4, <2>5 DEF IInv, Standing
  <2>9. Holes'
    BY <2>2, <2>3, <2>4 DEF IInv, Holes
  <2>10. ChecksAreDistinct'
    BY <2>2, <2>3, <2>4, <2>5 DEF IInv, ChecksAreDistinct
  <2> QED BY <1>v, <2>2, <2>7, <2>8, <2>9, <2>10
          DEF IInv, AllowIsSupported, DeclineIsCorroborated, GradeAgrees
<1>19. CASE Conclude
  <2>1. phase = "settle" /\ phase' = "done" /\ UNCHANGED <<req, evidence, inputs>>
    BY <1>19 DEF Conclude
  <2> USE DEF evidence, inputs
  <2>2. Excluded' = Excluded /\ Blocked' = Blocked
    BY <2>1 DEF Excluded, Blocked
  <2>3. Accounts' /\ Opening' /\ Holes'
    BY <2>1 DEF IInv, Accounts, Opening, Holes
  <2>4. Standing'
    BY <2>1, <2>2 DEF IInv, Standing
  <2>5. ChecksAreDistinct'
    BY <2>1, <2>2 DEF IInv, ChecksAreDistinct
  <2> QED BY <1>19, <2>1, <2>3, <2>4, <2>5, GateHolds, AllowHolds, GradeHolds DEF IInv
<1>20. CASE UNCHANGED vars
  <2> USE <1>20 DEF vars
  <2>1. Excluded' = Excluded /\ Blocked' = Blocked
    BY DEF Excluded, Blocked
  <2>2. Accounts' /\ Opening' /\ Holes'
    BY DEF IInv, Accounts, Opening, Holes
  <2>3. Standing'
    BY <2>1 DEF IInv, Standing
  <2>4. ChecksAreDistinct'
    BY <2>1 DEF IInv, ChecksAreDistinct
  <2>5. AllowIsSupported'
    BY DEF IInv, AllowIsSupported, Suspected, Seen
  <2>6. DeclineIsCorroborated' /\ GradeAgrees'
    BY DEF IInv, DeclineIsCorroborated, GradeAgrees, Seen
  <2> QED BY <2>2, <2>3, <2>4, <2>5, <2>6 DEF IInv
<1> QED
  BY <1>1, <1>2, <1>3, <1>4, <1>5, <1>6, <1>7, <1>8, <1>9, <1>10, <1>11, <1>12, <1>13, <1>14,
     <1>15, <1>16, <1>17, <1>18, <1>19, <1>20 DEF Next

\* The inductive invariant holds in every reachable state.
THEOREM Invariance == Spec => [](TypeOK /\ IInv)
<1>1. Init => IInv
  <2> SUFFICES ASSUME Init PROVE IInv
    OBVIOUS
  <2>1. BudgetOf(req) \in Nat
    BY RequestTypes DEF Init
  <2>2. Accounts
    BY <2>1 DEF Init, Accounts
  <2> QED BY <2>2 DEF Init, IInv, Opening, Standing, Holes, ChecksAreDistinct,
                     AllowIsSupported, DeclineIsCorroborated, GradeAgrees
<1> QED
  BY <1>1, InvStep, TypeCorrect, PTL DEF Spec

\* One check at a time never spends more than the budget, dates and step-up
\* included, whatever the prices are.  (With a batch it depends on the numbers.)
THEOREM SequentialBudget == Spec => [](~req.parallel => WithinBudget)
<1>1. TypeOK /\ IInv => (~req.parallel => WithinBudget)
  <2> SUFFICES ASSUME TypeOK, IInv, ~req.parallel PROVE WithinBudget
    OBVIOUS
  <2>1. cost + budget = BudgetOf(req) /\ budget >= 0 /\ budget \in Int /\ cost \in Nat
    BY DEF IInv, Accounts, TypeOK
  <2> QED BY <2>1 DEF WithinBudget
<1> QED BY <1>1, Invariance, PTL

\* No check is bought twice, nor one that is barred, on any path, with or without
\* a batch.
THEOREM NoCheckTwice == Spec => []ChecksAreDistinct
<1>1. TypeOK /\ IInv => ChecksAreDistinct
  BY DEF IInv
<1> QED BY <1>1, Invariance, PTL

\* An ALLOW rests on a relevant network fact, on no check that could not be made,
\* and on no recycled number: for every policy and every answer.
THEOREM AllowsAreSupported == Spec => []AllowIsSupported
<1>1. TypeOK /\ IInv => AllowIsSupported
  BY DEF IInv
<1> QED BY <1>1, Invariance, PTL

\* A DECLINE on signals that all need corroboration has some that answered.
THEOREM DeclinesAreCorroborated == Spec => []DeclineIsCorroborated
<1>1. TypeOK /\ IInv => DeclineIsCorroborated
  BY DEF IInv
<1> QED BY <1>1, Invariance, PTL

\* The grade and the decision of a verdict never contradict each other.
THEOREM GradesAgree == Spec => []GradeAgrees
<1>1. TypeOK /\ IInv => GradeAgrees
  BY DEF IInv
<1> QED BY <1>1, Invariance, PTL

\* Every verdict is supported by its chain: the three results above together.
THEOREM VerdictsAreSupported == Spec => []VerdictIsSupported
<1>1. AllowIsSupported /\ DeclineIsCorroborated /\ GradeAgrees => VerdictIsSupported
  BY DEF VerdictIsSupported
<1> QED
  BY <1>1, AllowsAreSupported, DeclinesAreCorroborated, GradesAgree, PTL

-----------------------------------------------------------------------------
\* What a signal requires are checks.
LEMMA RequiredTypes == ASSUME NEW s \in Signal PROVE Required(s) \subseteq Action
<1>1. Corroboration[s] \in Seq(Action)
  BY SignalAssumption
<1> QED BY <1>1 DEF Required

\* When no corroboration is next on a decline, none is to be had: each check that
\* a signal of the chain requires is excluded or not affordable.
LEMMA NoneOutstanding ==
  ASSUME TypeOK, Outstanding = {}, Decide(belief) = "DECLINE",
         NEW i \in DOMAIN chain, NEW a \in Required(chain[i].signal), a \notin Excluded
  PROVE  Cost[a] > budget
<1> DEFINE signals == Signals(chain)
           open(n) == Open(signals[n], Excluded, budget)
           first == {n \in DOMAIN signals : open(n) # {}}
<1> SUFFICES ASSUME ~(Cost[a] > budget) PROVE FALSE
  OBVIOUS
<1>1. signals[i] = chain[i].signal /\ DOMAIN signals = DOMAIN chain
  BY DEF Signals
<1>2. chain[i].signal \in Signal /\ a \in Action /\ budget \in Int
  BY LinkTypes, RequiredTypes DEF TypeOK
<1>3. Cost[a] <= budget
  BY <1>2, CostAssumption
<1>4. PICK k \in DOMAIN Corroboration[chain[i].signal] : a = Corroboration[chain[i].signal][k]
  BY DEF Required
<1>5. open(i) # {}
  BY <1>1, <1>3, <1>4 DEF Open
<1>6. first # {}
  BY <1>1, <1>5
<1>7. DOMAIN signals \subseteq Nat
  BY <1>1 DEF TypeOK
<1>8. PICK n \in first : \A m \in first : n <= m
  <2> HIDE DEF signals
  <2>1. first \in SUBSET Nat
    BY <1>7
  <2> HIDE DEF first
  <2> QED BY <1>6, <2>1, LeastExists
<1>9. n \in DOMAIN chain /\ signals[n] = chain[n].signal /\ chain[n].signal \in Signal
  BY <1>1, LinkTypes DEF Signals
<1>10. PICK l \in open(n) : \A m \in open(n) : l <= m
  <2>1. open(n) \in SUBSET Nat
    <3>1. Corroboration[signals[n]] \in Seq(Action)
      BY <1>9, SignalAssumption
    <3> QED BY <3>1 DEF Open
  <2>2. open(n) # {}
    OBVIOUS
  <2> HIDE DEF open
  <2> QED BY <2>1, <2>2, LeastExists
<1>11. \A j \in DOMAIN signals : j < n => open(j) = {}
  <2> SUFFICES ASSUME NEW j \in DOMAIN signals, j < n, open(j) # {} PROVE FALSE
    OBVIOUS
  <2>1. j \in first /\ j \in Nat /\ n \in Nat
    BY <1>7
  <2>2. n <= j
    BY <1>8, <2>1
  <2> QED BY <2>1, <2>2
<1>12. ~(belief < Thresholds.decline)
  BY ThresholdAssumption DEF Decide, TypeOK
<1>13. Corroboration[signals[n]][l] \in Outstanding
  <2> DEFINE least == {m \in open(n) : \A o \in open(n) : m <= o}
             leading == {m \in DOMAIN signals : \A j \in DOMAIN signals : j < m => open(j) = {}}
  <2>1. l \in least /\ n \in leading
    BY <1>10, <1>11
  <2>2. Outstanding = UNION {{Corroboration[signals[m]][q] :
                                q \in {r \in open(m) : \A o \in open(m) : r <= o}} : m \in leading}
    BY <1>12 DEF Outstanding, NextCorroboration
  <2> HIDE DEF signals, open, leading
  <2> QED BY <2>1, <2>2
<1> QED BY <1>13

\* A purchase keeps what is known of corroboration; one that steps up comes after
\* a loop that was not left on a decision.
LEMMA PurchaseLeavesRoom ==
  ASSUME TypeOK, IInv, BoughtInv, NEW a \in Action, Purchase(a),
         req' = req, verdict' = verdict, stopping' = stopping,
         phase # "done",
         \/ phase' \in {"authorization", "batch", "loop"} /\ stopping = "budget_exhausted"
         \/ phase' = "settle" /\ stopping # "decisive"
  PROVE  BoughtInv'
<1>1. PICK s \in Answers[a] :
        \E timing \in Dates(a, s, Append(chain, NetworkLink(a, s, "none")), budget - Cost[a]) :
          /\ chain' = Append(chain, NetworkLink(a, s, timing))
          /\ budget' = budget - Cost[a] - Paid(timing)
          /\ used' = used \cup {a}
  BY DEF Purchase
<1>2. PICK timing \in Dates(a, s, Append(chain, NetworkLink(a, s, "none")), budget - Cost[a]) :
          /\ chain' = Append(chain, NetworkLink(a, s, timing))
          /\ budget' = budget - Cost[a] - Paid(timing)
          /\ used' = used \cup {a}
  BY <1>1
<1> DEFINE links == Append(chain, NetworkLink(a, s, "none"))
           left == budget - Cost[a]
<1>3. /\ DOMAIN chain' = DOMAIN chain \cup {Len(chain) + 1} /\ Len(chain') = Len(chain) + 1
      /\ \A i \in DOMAIN chain : chain'[i] = chain[i]
      /\ chain'[Len(chain) + 1] = [action |-> a, signal |-> s, local |-> FALSE, timing |-> timing]
  BY <1>2 DEF TypeOK, NetworkLink
<1>4. /\ DOMAIN links = DOMAIN chain'
      /\ \A i \in DOMAIN links : links[i].action = chain'[i].action
  BY <1>2 DEF TypeOK, NetworkLink
<1>5. Attempted' = Attempted \cup {a}
  BY <1>3 DEF Attempted
<1>6. used' \subseteq Attempted'
  BY <1>2, <1>5 DEF BoughtInv
<1>7. s \in Signal /\ Cost[a] \in Nat /\ DateCost \in Nat /\ budget \in Int
  BY RequestAssumption, CostAssumption DEF TypeOK
<1>8. DateLeavesRoom'
  <2> SUFFICES ASSUME timing = "asked", Required(s) \cap Attempted' = {}
               PROVE  \/ \E b \in Required(s) \ Blocked : Cost[b] <= budget'
                      \/ \A b \in Required(s) \ Blocked : Cost[b] > budget' + DateCost
    BY <1>3 DEF DateLeavesRoom, Blocked
  <2>1. DateFits(s, links, left)
    BY DEF Dates
  <2>2. ResolvedFor(s, links) = {}
    BY <1>4 DEF ResolvedFor, Attempted
  <2>3. ~(Cardinality(ResolvedFor(s, links)) >= MinResolved)
    <3>1. Cardinality(ResolvedFor(s, links)) = 0
      BY <2>2, FS_EmptySet
    <3>2. MinResolved \in Nat \ {0}
      BY ThresholdAssumption
    <3> QED BY <3>1, <3>2
  <2> DEFINE kept == {b \in Required(s) \ Excluded : Cost[b] <= left}
  <2>4. kept # {} => \E b \in kept : Cost[b] + DateCost <= left
    BY <2>1, <2>3 DEF DateFits
  <2>5. budget' = left - DateCost
    BY <1>2 DEF Paid
  <2>6. \A b \in Required(s) : Cost[b] \in Nat
    BY <1>7, RequiredTypes, CostAssumption
  <2>7. \A b \in Required(s) : b \notin used
    BY <1>5 DEF BoughtInv
  <2>8. CASE kept # {}
    <3>1. PICK b \in kept : Cost[b] + DateCost <= left
      BY <2>4, <2>8
    <3>2. b \in Required(s) \ Blocked
      BY DEF Excluded
    <3>3. Cost[b] <= budget'
      BY <1>7, <2>5, <2>6, <3>1, <3>2
    <3> QED BY <3>2, <3>3
  <2>9. CASE kept = {}
    <3>1. ASSUME NEW b \in Required(s) \ Blocked PROVE Cost[b] > budget' + DateCost
      <4>1. ~(Cost[b] <= left)
        BY <2>7, <2>9 DEF Excluded
      <4> QED BY <1>7, <2>5, <2>6, <4>1
    <3> QED BY <3>1
  <2> QED BY <2>8, <2>9
<1>9. NothingLeftToTry'
  BY DEF NothingLeftToTry
<1>10. verdict' = None
  BY DEF BoughtInv
<1> QED BY <1>6, <1>8, <1>9, <1>10 DEF BoughtInv

\* So does a step that buys nothing and leaves no loop.
LEMMA QuietStepLeavesRoom ==
  ASSUME TypeOK, BoughtInv, UNCHANGED <<evidence, req, verdict, stopping>>,
         phase \notin {"step_up", "settle", "done", "refused"}, phase' \notin {"step_up", "settle", "done"}
  PROVE  BoughtInv'
<1> USE DEF evidence
<1>1. Attempted' = Attempted
  BY DEF Attempted
<1>2. DateLeavesRoom'
  BY <1>1 DEF BoughtInv, DateLeavesRoom, Blocked
<1>3. NothingLeftToTry'
  BY DEF NothingLeftToTry
<1>4. verdict' = None
  BY DEF BoughtInv
<1>5. used' \subseteq Attempted'
  BY <1>1 DEF BoughtInv
<1>6. stopping' = "budget_exhausted"
  BY DEF BoughtInv, TypeOK, Phase
<1> QED BY <1>2, <1>3, <1>4, <1>5, <1>6 DEF BoughtInv

\* Nor does leaving the loop for another reason than a decision disturb it.
LEMMA LeaveLoopLeavesRoom ==
  ASSUME TypeOK, BoughtInv, UNCHANGED <<evidence, req, verdict>>,
         phase = "loop", phase' = "step_up", stopping' # "decisive"
  PROVE  BoughtInv'
<1> USE DEF evidence
<1>1. Attempted' = Attempted
  BY DEF Attempted
<1>2. DateLeavesRoom'
  BY <1>1 DEF BoughtInv, DateLeavesRoom, Blocked
<1>3. NothingLeftToTry'
  BY DEF NothingLeftToTry
<1>4. used' \subseteq Attempted' /\ verdict' = None
  BY <1>1 DEF BoughtInv
<1> QED BY <1>2, <1>3, <1>4 DEF BoughtInv

\* A loop left on a decline, with no corroboration outstanding, left nothing to try.
LEMMA EnoughLeavesNothing == TypeOK /\ BoughtInv /\ Enough => BoughtInv'
<1> SUFFICES ASSUME TypeOK, BoughtInv, Enough PROVE BoughtInv'
  OBVIOUS
<1>1. /\ phase = "loop" /\ phase' = "step_up"
      /\ UNCHANGED <<req, belief, budget, chain, used, verdict>>
      /\ Decisive(belief) /\ Outstanding = {}
  BY DEF Enough, InLoop, LeaveLoop, evidence
<1>2. Attempted' = Attempted /\ Blocked' = Blocked
  BY <1>1 DEF Attempted, Blocked
<1>3. DateLeavesRoom'
  BY <1>1, <1>2 DEF BoughtInv, DateLeavesRoom
<1>4. ASSUME Decide(belief) = "DECLINE", NEW i \in DOMAIN chain,
             NEW a \in Required(chain[i].signal) \ (Attempted \cup Blocked)
      PROVE  /\ Cost[a] > budget
             /\ ~req.parallel /\ i = Len(chain) /\ chain[i].timing = "asked"
                /\ Required(chain[i].signal) \cap Attempted = {} => Cost[a] > budget + DateCost
  <2>1. \A b \in Required(chain[i].signal) \ (Attempted \cup Blocked) : Cost[b] > budget
    BY <1>1, <1>4, NoneOutstanding DEF BoughtInv, Excluded
  <2>2. ASSUME ~req.parallel, i = Len(chain), chain[i].timing = "asked",
               Required(chain[i].signal) \cap Attempted = {}
        PROVE  Cost[a] > budget + DateCost
    <3> DEFINE buyable == Required(chain[i].signal) \ Blocked
    <3>1. \A b \in buyable : Cost[b] > budget /\ Cost[b] \in Nat
      BY <2>1, <2>2, LinkTypes, RequiredTypes, CostAssumption
    <3>2. \A b \in buyable : ~(Cost[b] <= budget)
      BY <3>1 DEF TypeOK
    <3>3. chain # <<>>
      OBVIOUS
    <3>4. \/ \E b \in buyable : Cost[b] <= budget
          \/ \A b \in buyable : Cost[b] > budget + DateCost
      BY <1>1, <2>2, <3>3 DEF BoughtInv, DateLeavesRoom
    <3> QED BY <3>2, <3>4
  <2> QED BY <2>1, <2>2
<1>5. NothingLeftToTry'
  BY <1>1, <1>2, <1>4 DEF NothingLeftToTry
<1>6. used' \subseteq Attempted' /\ verdict' = None
  BY <1>1, <1>2 DEF BoughtInv
<1> QED BY <1>1, <1>3, <1>5, <1>6 DEF BoughtInv

\* A deferred date takes its price from what is left, and nothing else.
LEMMA DeferredLeavesNothing == TypeOK /\ BoughtInv /\ SettleDeferred => BoughtInv'
<1> SUFFICES ASSUME TypeOK, BoughtInv, SettleDeferred PROVE BoughtInv'
  OBVIOUS
<1>1. PICK d \in Deferred, timing \in {"unsupported", "asked"} :
        /\ chain' = [chain EXCEPT ![d] = NetworkLink(chain[d].action, chain[d].signal, timing)]
        /\ budget' = budget - Paid(timing)
  BY DEF SettleDeferred
<1>2. phase = "settle" /\ UNCHANGED <<req, phase, belief, used, stopping, verdict>>
  BY DEF SettleDeferred, inputs
<1>3. /\ DOMAIN chain' = DOMAIN chain /\ Len(chain') = Len(chain)
      /\ \A i \in DOMAIN chain : /\ chain'[i].action = chain[i].action
                                 /\ chain'[i].signal = chain[i].signal
                                 /\ i # d => chain'[i].timing = chain[i].timing
      /\ d \in DOMAIN chain /\ chain'[d].timing = timing
  BY <1>1 DEF TypeOK, NetworkLink, Deferred
<1>4. Attempted' = Attempted /\ Blocked' = Blocked
  BY <1>2, <1>3 DEF Attempted, Blocked
<1>5. /\ budget \in Int /\ budget' \in Int /\ DateCost \in Nat
      /\ budget' = budget \/ budget' = budget - DateCost
      /\ timing = "asked" => budget' = budget - DateCost
  BY <1>1, CostAssumption DEF Paid, TypeOK
<1>6. DateLeavesRoom'
  BY <1>2 DEF DateLeavesRoom
<1>7. NothingLeftToTry'
  <2> SUFFICES ASSUME stopping = "decisive"
               PROVE  /\ Decisive(belief)
                      /\ Decide(belief) = "DECLINE" =>
                           \A i \in DOMAIN chain :
                             \A a \in Required(chain[i].signal) \ (Attempted \cup Blocked) :
                               /\ Cost[a] > budget'
                               /\ ~req.parallel /\ i = Len(chain) /\ chain'[i].timing = "asked"
                                  /\ Required(chain[i].signal) \cap Attempted = {} =>
                                    Cost[a] > budget' + DateCost
    BY <1>2, <1>3, <1>4 DEF NothingLeftToTry
  <2>1. Decisive(belief)
    BY <1>2 DEF BoughtInv, NothingLeftToTry
  <2>2. ASSUME Decide(belief) = "DECLINE", NEW i \in DOMAIN chain,
               NEW a \in Required(chain[i].signal) \ (Attempted \cup Blocked)
        PROVE  /\ Cost[a] > budget
               /\ ~req.parallel /\ i = Len(chain) /\ chain[i].timing = "asked"
                  /\ Required(chain[i].signal) \cap Attempted = {} => Cost[a] > budget + DateCost
    BY <1>2, <2>2 DEF BoughtInv, NothingLeftToTry
  <2>3. ASSUME Decide(belief) = "DECLINE", NEW i \in DOMAIN chain,
               NEW a \in Required(chain[i].signal) \ (Attempted \cup Blocked)
        PROVE  /\ Cost[a] > budget'
               /\ ~req.parallel /\ i = Len(chain) /\ chain'[i].timing = "asked"
                  /\ Required(chain[i].signal) \cap Attempted = {} => Cost[a] > budget' + DateCost
    <3>1. Cost[a] \in Nat
      BY LinkTypes, RequiredTypes, CostAssumption
    <3>2. Cost[a] > budget
      BY <2>2, <2>3
    <3>3. Cost[a] > budget'
      BY <1>5, <3>1, <3>2
    <3>4. CASE budget' = budget - DateCost
      <4>1. Cost[a] > budget' + DateCost
        BY <1>5, <3>1, <3>2, <3>4
      <4> QED BY <3>3, <4>1
    <3>5. CASE budget' = budget /\ budget' # budget - DateCost
      <4>1. timing # "asked"
        BY <1>5, <3>5
      <4>2. chain'[i].timing = "asked" => chain[i].timing = "asked"
        BY <1>3, <4>1
      <4> QED BY <2>2, <2>3, <3>3, <3>5, <4>2
    <3> QED BY <1>5, <3>4, <3>5
  <2> QED BY <2>1, <2>3
<1>8. used' \subseteq Attempted' /\ verdict' = None
  BY <1>2, <1>4 DEF BoughtInv
<1> QED BY <1>2, <1>6, <1>7, <1>8 DEF BoughtInv

\* Every step keeps what is known of corroboration.
LEMMA BoughtStep == TypeOK /\ IInv /\ BoughtInv /\ [Next]_vars => BoughtInv'
<1> SUFFICES ASSUME TypeOK, IInv, BoughtInv, [Next]_vars PROVE BoughtInv'
  OBVIOUS
<1>s. Signals(chain) \in Seq(Signal) /\ budget \in Int
  <2>1. \A i \in DOMAIN chain : chain[i].signal \in Signal
    BY LinkTypes
  <2> QED BY <2>1 DEF Signals, TypeOK
<1>b. phase \in {"local", "continuity", "authorization", "batch", "answers", "loop"} =>
        stopping = "budget_exhausted" /\ verdict = None
  BY DEF BoughtInv
<1>a. ASSUME NEW link, chain' = Append(chain, link), UNCHANGED <<req, budget, used, stopping, verdict>>,
             phase \in {"local", "answers"}, phase' = phase,
             ~req.parallel => link.timing # "asked"
      PROVE  BoughtInv'
  <2>1. /\ \A i \in DOMAIN chain : i \in DOMAIN chain' /\ chain'[i] = chain[i]
        /\ chain'[Len(chain')] = link
    BY <1>a DEF TypeOK
  <2>2. Attempted \subseteq Attempted'
    BY <2>1 DEF Attempted
  <2>3. DateLeavesRoom'
    BY <1>a, <2>1 DEF DateLeavesRoom
  <2>4. NothingLeftToTry'
    BY <1>a DEF NothingLeftToTry
  <2> QED BY <1>a, <1>b, <2>2, <2>3, <2>4 DEF BoughtInv
<1>1. CASE ApplyLocal
  <2>1. CASE Len(chain) < Len(req.local)
    <3> DEFINE link == [action |-> None, signal |-> req.local[Len(chain) + 1], local |-> TRUE,
                        timing |-> "none"]
    <3>1. chain' = Append(chain, link) /\ link.timing = "none" /\ phase = "local"
          /\ UNCHANGED <<req, phase, budget, used, stopping, verdict>>
      BY <1>1, <2>1 DEF ApplyLocal
    <3> HIDE DEF link
    <3> QED BY <1>a, <3>1
  <2>2. CASE ~(Len(chain) < Len(req.local))
    BY <1>1, <2>2, QuietStepLeavesRoom DEF ApplyLocal, evidence
  <2> QED BY <2>1, <2>2
<1>2. CASE CheckContinuity
  <2>1. CASE Purchase(NumberRecycling)
    BY <1>2, <1>b, <2>1, PurchaseLeavesRoom, ActionAssumption DEF CheckContinuity
  <2>2. CASE UNCHANGED <<evidence, choreographed>>
    BY <1>2, <2>2, QuietStepLeavesRoom DEF CheckContinuity
  <2> QED BY <1>2, <2>1, <2>2 DEF CheckContinuity
<1>3. CASE UseAuthorization
  <2>1. CASE phase' = "refused" /\ UNCHANGED <<evidence, choreographed>>
    BY <1>3, <2>1, QuietStepLeavesRoom DEF UseAuthorization
  <2>2. CASE phase' = "batch" /\ Purchase(req.required)
    <3>1. req.required \in Action
      BY <1>3, RequestAssumption, ActionAssumption DEF UseAuthorization, RequestType, TypeOK
    <3> QED BY <1>3, <1>b, <2>2, <3>1, PurchaseLeavesRoom DEF UseAuthorization
  <2> QED BY <1>3, <2>1, <2>2 DEF UseAuthorization
<1>4. CASE NoAuthorization
  BY <1>4, QuietStepLeavesRoom DEF NoAuthorization, inputs
<1>5. CASE SkipBatch
  BY <1>5, QuietStepLeavesRoom DEF SkipBatch, inputs
<1>6. CASE PickForBatch
  <2>1. phase = "batch" /\ phase' \in {"batch", "answers"} /\ UNCHANGED <<req, evidence, stopping, verdict>>
    BY <1>6 DEF PickForBatch
  <2> QED BY <2>1, QuietStepLeavesRoom
<1>7. ASSUME NEW a \in Action, BatchAnswer(a) PROVE BoughtInv'
  <2>1. PICK s \in Answers[a] : chain' = Append(chain, NetworkLink(a, s, "pending"))
    BY <1>7 DEF BatchAnswer
  <2>2. req.parallel /\ phase = "answers" /\ UNCHANGED <<req, phase, budget, used, stopping, verdict>>
    BY <1>7 DEF BatchAnswer, IInv, Accounts
  <2> QED BY <1>a, <2>1, <2>2
<1>8. CASE SettleBatch
  <2>1. PICK i \in DOMAIN chain :
          \E timing \in Dates(chain[i].action, chain[i].signal, chain,
                              budget - Cost[chain[i].action]) : Settled(i, timing)
    BY <1>8 DEF SettleBatch, Settled
  <2>2. PICK timing :
          /\ chain' = [chain EXCEPT ![i] = NetworkLink(chain[i].action, chain[i].signal, timing)]
          /\ used' = used \cup {chain[i].action}
    BY <2>1 DEF Settled
  <2>3. req.parallel /\ phase = "answers" /\ UNCHANGED <<req, phase, stopping, verdict>>
    BY <1>8 DEF SettleBatch, inputs, IInv, Accounts
  <2>4. /\ DOMAIN chain' = DOMAIN chain
        /\ \A j \in DOMAIN chain : chain'[j].action = chain[j].action
    BY <2>2 DEF TypeOK, NetworkLink
  <2>5. Attempted' = Attempted /\ chain[i].action \in Attempted
    BY <2>4 DEF Attempted
  <2>6. used' \subseteq Attempted'
    BY <2>2, <2>5 DEF BoughtInv
  <2>7. DateLeavesRoom' /\ NothingLeftToTry'
    BY <2>3 DEF DateLeavesRoom, NothingLeftToTry
  <2> QED BY <1>b, <2>3, <2>6, <2>7 DEF BoughtInv
<1>9. CASE BatchDone
  BY <1>9, QuietStepLeavesRoom DEF BatchDone, inputs
<1>10. CASE BudgetExhausted
  BY <1>10, LeaveLoopLeavesRoom DEF BudgetExhausted, LeaveLoop
<1>c. ASSUME NEW a \in Action, Purchase(a), phase = "loop", phase' = "loop",
             UNCHANGED <<req, stopping, verdict>>
      PROVE  BoughtInv'
  BY <1>b, <1>c, PurchaseLeavesRoom
<1>11. CASE Corroborate
  <2>1. PICK a \in Outstanding : Choreograph(a)
    BY <1>11 DEF Corroborate
  <2>2. a \in Action
    BY <1>s, PicksFit DEF Outstanding
  <2> QED BY <1>11, <2>1, <2>2, <1>c DEF Corroborate, InLoop, Choreograph
<1>12. CASE Attest
  <2>1. PICK a \in NextBest(Suspected, Excluded, budget) : Choreograph(a)
    BY <1>12 DEF Attest
  <2>2. a \in Action
    BY <1>s, PicksFit
  <2> QED BY <1>12, <2>1, <2>2, <1>c DEF Attest, InLoop, Choreograph
<1>13. CASE Enough
  BY <1>13, EnoughLeavesNothing
<1>14. CASE NothingAffordable
  BY <1>14, LeaveLoopLeavesRoom DEF NothingAffordable, InLoop, LeaveLoop
<1>15. CASE Investigate
  <2>1. PICK c \in Choices : c[1] # None /\ Purchase(c[1])
    BY <1>15 DEF Investigate
  <2>2. c[1] \in Action
    BY <2>1, ChoicesFit
  <2> QED BY <1>15, <2>1, <2>2, <1>c DEF Investigate, InLoop
<1>16. CASE PlannerStops
  BY <1>16, LeaveLoopLeavesRoom DEF PlannerStops, InLoop
<1>17. CASE StepUp
  <2>1. phase = "step_up" /\ phase' = "settle" /\ UNCHANGED <<req, stopping, verdict>>
    BY <1>17 DEF StepUp, inputs
  <2>2. CASE UNCHANGED evidence
    <3>1. UNCHANGED <<belief, budget, chain, used>>
      BY <2>2 DEF evidence
    <3>2. Attempted' = Attempted /\ Blocked' = Blocked
      BY <2>1, <3>1 DEF Attempted, Blocked
    <3>3. NothingLeftToTry'
      BY <2>1, <3>1, <3>2 DEF BoughtInv, NothingLeftToTry
    <3> QED BY <2>1, <3>1, <3>2, <3>3 DEF BoughtInv, DateLeavesRoom
  <2>3. CASE Decide(belief) = "CHALLENGE" /\ \E a \in CheapestStepUp(Excluded, budget) : Purchase(a)
    <3>1. PICK a \in CheapestStepUp(Excluded, budget) : Purchase(a)
      BY <2>3
    <3>2. a \in Action
      BY <1>s, PicksFit
    <3>3. stopping # "decisive"
      BY <2>1, <2>3 DEF BoughtInv, NothingLeftToTry, Decisive
    <3> QED BY <2>1, <3>1, <3>2, <3>3, PurchaseLeavesRoom
  <2> QED BY <1>17, <2>2, <2>3 DEF StepUp
<1>18. CASE SettleDeferred
  BY <1>18, DeferredLeavesNothing
<1>19. CASE Conclude
  <2>1. /\ phase = "settle" /\ phase' = "done" /\ verdict'.gaps = Gaps
        /\ UNCHANGED <<req, belief, budget, chain, used, stopping>>
    BY <1>19 DEF Conclude, evidence, inputs
  <2>2. Attempted' = Attempted /\ Blocked' = Blocked
    BY <2>1 DEF Attempted, Blocked
  <2>3. Gaps' = Gaps
    BY <2>1, <2>2 DEF Gaps, GapReason, Ungated, ResolvedFor, Seen
  <2>4. NothingLeftToTry'
    BY <2>1, <2>2 DEF BoughtInv, NothingLeftToTry
  <2> QED BY <2>1, <2>2, <2>3, <2>4 DEF BoughtInv, DateLeavesRoom
<1>20. CASE UNCHANGED vars
  <2>1. UNCHANGED <<req, phase, belief, budget, chain, used, stopping, verdict>>
    BY <1>20 DEF vars
  <2>2. Attempted' = Attempted /\ Blocked' = Blocked
    BY <2>1 DEF Attempted, Blocked
  <2>3. Gaps' = Gaps
    BY <2>1, <2>2 DEF Gaps, GapReason, Ungated, ResolvedFor, Seen
  <2>4. DateLeavesRoom' /\ NothingLeftToTry'
    BY <2>1, <2>2 DEF BoughtInv, DateLeavesRoom, NothingLeftToTry
  <2> QED BY <2>1, <2>2, <2>3, <2>4 DEF BoughtInv
<1> QED
  BY <1>1, <1>2, <1>3, <1>4, <1>5, <1>6, <1>7, <1>8, <1>9, <1>10, <1>11, <1>12, <1>13, <1>14,
     <1>15, <1>16, <1>17, <1>18, <1>19, <1>20 DEF Next

\* A gap that says the check was not attempted, or that the budget was short, is
\* contradicted or borne out by what the loop left to try.
LEMMA BoughtHolds == TypeOK /\ BoughtInv => CorroborationIsBought
<1> SUFFICES ASSUME TypeOK, BoughtInv, verdict # None, stopping = "decisive",
                    Decide(belief) = "DECLINE"
             PROVE  /\ \A g \in Gaps : g.reason # "not_attempted"
                    /\ ~req.parallel /\ chain # <<>> =>
                         LET last == chain[Len(chain)] IN
                         [signal |-> last.signal, reason |-> "budget"] \in Gaps
                         /\ last.timing = "asked" =>
                           \A a \in Required(last.signal) \ Blocked : Cost[a] > budget + DateCost
  BY DEF BoughtInv, CorroborationIsBought, CorroborationIsTried, DateNeverPricesOutACheck
<1>1. \A i \in DOMAIN chain : \A a \in Required(chain[i].signal) \ (Attempted \cup Blocked) :
        /\ Cost[a] > budget
        /\ ~req.parallel /\ i = Len(chain) /\ chain[i].timing = "asked"
           /\ Required(chain[i].signal) \cap Attempted = {} => Cost[a] > budget + DateCost
  BY DEF BoughtInv, NothingLeftToTry
<1>2. ASSUME NEW g \in Gaps, g.reason = "not_attempted" PROVE FALSE
  <2>1. PICK s \in Seen(chain) : g = [signal |-> s, reason |-> GapReason(s)]
    BY DEF Gaps
  <2>2. GapReason(s) = "not_attempted"
    BY <1>2, <2>1
  <2>3. ~(\A a \in Required(s) \ Attempted : a \in Blocked \/ Cost[a] > budget)
    BY <2>2 DEF GapReason
  <2> QED BY <1>1, <2>3 DEF Seen
<1>3. ASSUME ~req.parallel, chain # <<>>,
             [signal |-> chain[Len(chain)].signal, reason |-> "budget"] \in Gaps,
             chain[Len(chain)].timing = "asked",
             NEW a \in Required(chain[Len(chain)].signal) \ Blocked
      PROVE  Cost[a] > budget + DateCost
  <2> DEFINE s == chain[Len(chain)].signal
  <2>1. GapReason(s) = "budget"
    <3>1. PICK t \in Seen(chain) : [signal |-> s, reason |-> "budget"]
                                   = [signal |-> t, reason |-> GapReason(t)]
      BY <1>3 DEF Gaps
    <3> QED BY <3>1
  <2>2. Required(s) \cap Attempted = {}
    BY <2>1 DEF GapReason
  <2>3. Len(chain) \in DOMAIN chain
    BY <1>3 DEF TypeOK
  <2> QED BY <1>1, <1>3, <2>2, <2>3
<1> QED BY <1>2, <1>3

\* What a run could still buy to corroborate, from its purchases to its verdict.
THEOREM BoughtInvariance == Spec => []BoughtInv
<1>1. Init => BoughtInv
  BY DEF Init, BoughtInv, DateLeavesRoom, NothingLeftToTry
<1> QED BY <1>1, BoughtStep, Invariance, PTL DEF Spec

\* A loop left on a decline has left no corroborating check it could have bought,
\* and an optional date never priced one out: for every policy and price.
THEOREM CorroborationBought == Spec => []CorroborationIsBought
BY BoughtHolds, BoughtInvariance, TypeCorrect, PTL

-----------------------------------------------------------------------------
(* The receipt *)

\* What a link moves and what it costs, and both along a chain.
Move(link) == IF link.timing = "pending" THEN 0 ELSE Delta[link.signal]
Price(link) == IF link.local \/ link.timing = "pending" THEN 0
               ELSE Cost[link.action] + Paid(link.timing)
Moves(links) == [i \in DOMAIN links |-> Move(links[i])]
Prices(links) == [i \in DOMAIN links |-> Price(links[i])]

\* Belief and cost are the sums along the chain.
Tally ==
  /\ belief = PriorOf(req) + SumFunction(Moves(chain))
  /\ cost = SumFunction(Prices(chain))

LEMMA TermTypes == ASSUME NEW link \in Link PROVE Move(link) \in Int /\ Price(link) \in Int
<1>1. link.signal \in Signal /\ (~link.local => link.action \in Action)
  BY DEF Link
<1>2. Delta[link.signal] \in Int /\ (~link.local => Cost[link.action] \in Nat)
  BY <1>1, SignalAssumption, CostAssumption
<1>3. Paid(link.timing) \in Nat
  BY CostAssumption DEF Paid
<1> QED BY <1>2, <1>3 DEF Move, Price

\* The terms of a chain are finitely many integers.
LEMMA TermsTypes ==
  ASSUME NEW links \in Seq(Link)
  PROVE  /\ DOMAIN Moves(links) = DOMAIN links /\ DOMAIN Prices(links) = DOMAIN links
         /\ \A i \in DOMAIN links : /\ Moves(links)[i] = Move(links[i]) /\ Moves(links)[i] \in Int
                                    /\ Prices(links)[i] = Price(links[i]) /\ Prices(links)[i] \in Int
         /\ IsFiniteSet(DOMAIN links)
         /\ SumFunction(Moves(links)) \in Int /\ SumFunction(Prices(links)) \in Int
<1>1. DOMAIN Moves(links) = DOMAIN links /\ DOMAIN Prices(links) = DOMAIN links
  BY DEF Moves, Prices
<1>2. \A i \in DOMAIN links : links[i] \in Link
  OBVIOUS
<1>3. \A i \in DOMAIN links : /\ Moves(links)[i] = Move(links[i]) /\ Moves(links)[i] \in Int
                              /\ Prices(links)[i] = Price(links[i]) /\ Prices(links)[i] \in Int
  BY <1>2, TermTypes DEF Moves, Prices
<1>4. IsFiniteSet(DOMAIN links)
  <2>1. DOMAIN links = 1..Len(links) /\ Len(links) \in Nat
    OBVIOUS
  <2> QED BY <2>1, FS_Interval
<1>5. SumFunctionOnSet(Moves(links), DOMAIN links) \in Int
  BY <1>3, <1>4, SumInt
<1>6. SumFunctionOnSet(Prices(links), DOMAIN links) \in Int
  BY <1>3, <1>4, SumInt
<1> QED BY <1>1, <1>3, <1>4, <1>5, <1>6 DEF SumFunction

\* A link more.
LEMMA LinkAddsUp ==
  ASSUME NEW links \in Seq(Link), NEW link \in Link
  PROVE  /\ SumFunction(Moves(Append(links, link))) = SumFunction(Moves(links)) + Move(link)
         /\ SumFunction(Prices(Append(links, link))) = SumFunction(Prices(links)) + Price(link)
<1> DEFINE more == Append(links, link)
           n == Len(links) + 1
           moves == Moves(more)
           prices == Prices(more)
<1>1. /\ DOMAIN more = DOMAIN links \cup {n} /\ n \notin DOMAIN links /\ more[n] = link
      /\ \A i \in DOMAIN links : more[i] = links[i]
  OBVIOUS
<1>2. more \in Seq(Link)
  OBVIOUS
<1> HIDE DEF more
<1>3. /\ DOMAIN moves = DOMAIN Moves(links) \cup {n} /\ DOMAIN prices = DOMAIN Prices(links) \cup {n}
      /\ n \notin DOMAIN Moves(links) /\ n \notin DOMAIN Prices(links)
      /\ moves[n] = Move(link) /\ prices[n] = Price(link)
      /\ moves[n] \in Int /\ prices[n] \in Int
  BY <1>1, <1>2, TermsTypes
<1>4. /\ \A i \in DOMAIN Moves(links) : Moves(links)[i] \in Int /\ moves[i] = Moves(links)[i]
      /\ \A i \in DOMAIN Prices(links) : Prices(links)[i] \in Int /\ prices[i] = Prices(links)[i]
  BY <1>1, <1>2, TermsTypes
<1>5. IsFiniteSet(DOMAIN Moves(links)) /\ IsFiniteSet(DOMAIN Prices(links))
  BY TermsTypes
<1> HIDE DEF n, moves, prices
<1>6. SumFunction(moves) = SumFunction(Moves(links)) + moves[n]
  BY <1>3, <1>4, <1>5, SumMore
<1>7. SumFunction(prices) = SumFunction(Prices(links)) + prices[n]
  BY <1>3, <1>4, <1>5, SumMore
<1> QED BY <1>3, <1>6, <1>7 DEF moves, prices, more

\* A link settled.
LEMMA SettledAddsUp ==
  ASSUME NEW links \in Seq(Link), NEW e \in DOMAIN links, NEW link \in Link
  PROVE  LET settled == [links EXCEPT ![e] = link] IN
         /\ SumFunction(Moves(settled)) = SumFunction(Moves(links)) + Move(link) - Move(links[e])
         /\ SumFunction(Prices(settled)) = SumFunction(Prices(links)) + Price(link) - Price(links[e])
<1> DEFINE settled == [links EXCEPT ![e] = link]
           moves == Moves(settled)
           prices == Prices(settled)
<1>1. /\ DOMAIN settled = DOMAIN links /\ settled[e] = link
      /\ \A i \in DOMAIN links : i # e => settled[i] = links[i]
  OBVIOUS
<1>2. settled \in Seq(Link)
  OBVIOUS
<1> HIDE DEF settled
<1>3. /\ DOMAIN moves = DOMAIN Moves(links) /\ DOMAIN prices = DOMAIN Prices(links)
      /\ e \in DOMAIN Moves(links) /\ e \in DOMAIN Prices(links)
      /\ moves[e] = Move(link) /\ prices[e] = Price(link)
      /\ Moves(links)[e] = Move(links[e]) /\ Prices(links)[e] = Price(links[e])
      /\ moves[e] \in Int /\ prices[e] \in Int
  BY <1>1, <1>2, TermsTypes
<1>4. /\ \A i \in DOMAIN Moves(links) : Moves(links)[i] \in Int /\ (i # e => moves[i] = Moves(links)[i])
      /\ \A i \in DOMAIN Prices(links) : Prices(links)[i] \in Int /\ (i # e => prices[i] = Prices(links)[i])
  BY <1>1, <1>2, TermsTypes
<1>5. IsFiniteSet(DOMAIN Moves(links)) /\ IsFiniteSet(DOMAIN Prices(links))
  BY TermsTypes
<1> HIDE DEF moves, prices
<1>6. SumFunction(moves) = SumFunction(Moves(links)) + moves[e] - Moves(links)[e]
  BY <1>3, <1>4, <1>5, SumChanged
<1>7. SumFunction(prices) = SumFunction(Prices(links)) + prices[e] - Prices(links)[e]
  BY <1>3, <1>4, <1>5, SumChanged
<1> QED BY <1>3, <1>6, <1>7 DEF moves, prices, settled

\* A purchase enters the receipt with what it moved and what it cost.
LEMMA PurchaseAddsUp ==
  ASSUME TypeOK, Tally, NEW a \in Action, Purchase(a), req' = req
  PROVE  Tally'
<1>1. PICK s \in Answers[a] :
        \E timing \in Dates(a, s, Append(chain, NetworkLink(a, s, "none")), budget - Cost[a]) :
          /\ chain' = Append(chain, NetworkLink(a, s, timing))
          /\ belief' = belief + Delta[s]
          /\ cost' = cost + Cost[a] + Paid(timing)
  BY DEF Purchase
<1>2. PICK timing \in Dates(a, s, Append(chain, NetworkLink(a, s, "none")), budget - Cost[a]) :
          /\ chain' = Append(chain, NetworkLink(a, s, timing))
          /\ belief' = belief + Delta[s]
          /\ cost' = cost + Cost[a] + Paid(timing)
  BY <1>1
<1> DEFINE link == NetworkLink(a, s, timing)
<1>3. timing \in Timing /\ timing # "pending"
  BY DatesTypes
<1>4. s \in Signal
  BY RequestAssumption
<1>5. link \in Link
  BY <1>3, <1>4 DEF NetworkLink, Link
<1>6. Move(link) = Delta[s] /\ Price(link) = Cost[a] + Paid(timing)
  BY <1>3 DEF Move, Price, NetworkLink
<1>7. /\ Delta[s] \in Int /\ Cost[a] \in Nat /\ Paid(timing) \in Nat
      /\ PriorOf(req) \in Int
  BY <1>4, SignalAssumption, CostAssumption, RequestTypes DEF Paid, TypeOK
<1>8. /\ chain \in Seq(Link)
      /\ SumFunction(Moves(chain)) \in Int /\ SumFunction(Prices(chain)) \in Int
  BY TermsTypes DEF TypeOK
<1> HIDE DEF link
<1>9. /\ SumFunction(Moves(Append(chain, link))) = SumFunction(Moves(chain)) + Move(link)
      /\ SumFunction(Prices(Append(chain, link))) = SumFunction(Prices(chain)) + Price(link)
  BY <1>5, <1>8, LinkAddsUp
<1>10. chain' = Append(chain, link)
  BY <1>2 DEF link
<1>t. /\ belief = PriorOf(req) + SumFunction(Moves(chain))
      /\ cost = SumFunction(Prices(chain))
  BY DEF Tally
<1>b. belief' = belief + Delta[s] /\ cost' = cost + Cost[a] + Paid(timing)
  BY <1>2
<1>s. /\ SumFunction(Moves(chain')) = SumFunction(Moves(chain)) + Delta[s]
      /\ SumFunction(Prices(chain')) = SumFunction(Prices(chain)) + (Cost[a] + Paid(timing))
  BY <1>6, <1>9, <1>10
<1>11. belief' = PriorOf(req) + SumFunction(Moves(chain'))
  <2>1. PriorOf(req) \in Int /\ SumFunction(Moves(chain)) \in Int /\ Delta[s] \in Int
    BY <1>7, <1>8
  <2>2. belief' = PriorOf(req) + SumFunction(Moves(chain)) + Delta[s]
    BY <1>t, <1>b
  <2> QED BY <1>s, <2>1, <2>2
<1>12. cost' = SumFunction(Prices(chain'))
  <2>1. SumFunction(Prices(chain)) \in Int /\ Cost[a] \in Nat /\ Paid(timing) \in Nat
    BY <1>7, <1>8
  <2>2. cost' = SumFunction(Prices(chain)) + Cost[a] + Paid(timing)
    BY <1>t, <1>b
  <2> QED BY <1>s, <2>1, <2>2
<1> QED BY <1>11, <1>12 DEF Tally

\* Every step keeps the receipt.
LEMMA TallyStep == TypeOK /\ Tally /\ [Next]_vars => Tally'
<1> SUFFICES ASSUME TypeOK, Tally, [Next]_vars PROVE Tally'
  OBVIOUS
<1> DEFINE moved == SumFunction(Moves(chain))
           paid == SumFunction(Prices(chain))
<1>t. chain \in Seq(Link) /\ moved \in Int /\ paid \in Int /\ PriorOf(req) \in Int
  BY TermsTypes, RequestTypes DEF TypeOK
<1>y. belief = PriorOf(req) + moved /\ cost = paid
  BY DEF Tally
<1>q. ASSUME UNCHANGED <<req, chain, belief, cost>> PROVE Tally'
  BY <1>q DEF Tally
<1>s. Signals(chain) \in Seq(Signal) /\ budget \in Int
  <2>1. \A i \in DOMAIN chain : chain[i].signal \in Signal
    BY LinkTypes
  <2> QED BY <2>1 DEF Signals, TypeOK
<1>a. ASSUME NEW link \in Link, chain' = Append(chain, link), req' = req,
             belief' = belief + Move(link), cost' = cost + Price(link)
      PROVE  Tally'
  <2>1. /\ SumFunction(Moves(chain')) = moved + Move(link)
        /\ SumFunction(Prices(chain')) = paid + Price(link)
    BY <1>a, <1>t, LinkAddsUp
  <2>2. Move(link) \in Int /\ Price(link) \in Int
    BY TermTypes
  <2> HIDE DEF moved, paid
  <2>3. belief' = PriorOf(req) + SumFunction(Moves(chain')) /\ cost' = SumFunction(Prices(chain'))
    BY <1>a, <1>t, <1>y, <2>1, <2>2
  <2> QED BY <1>a, <2>3 DEF Tally
<1>e. ASSUME NEW i \in DOMAIN chain, NEW link \in Link, chain' = [chain EXCEPT ![i] = link], req' = req,
             belief' = belief + Move(link) - Move(chain[i]),
             cost' = cost + Price(link) - Price(chain[i])
      PROVE  Tally'
  <2>1. /\ SumFunction(Moves(chain')) = moved + Move(link) - Move(chain[i])
        /\ SumFunction(Prices(chain')) = paid + Price(link) - Price(chain[i])
    BY <1>e, <1>t, SettledAddsUp
  <2>2. /\ Move(link) \in Int /\ Price(link) \in Int
        /\ Move(chain[i]) \in Int /\ Price(chain[i]) \in Int
    BY LinkTypes, TermTypes
  <2> HIDE DEF moved, paid
  <2>3. belief' = PriorOf(req) + SumFunction(Moves(chain')) /\ cost' = SumFunction(Prices(chain'))
    BY <1>e, <1>t, <1>y, <2>1, <2>2
  <2> QED BY <1>e, <2>3 DEF Tally
<1>1. CASE ApplyLocal
  <2>1. CASE Len(chain) < Len(req.local)
    <3> DEFINE s == req.local[Len(chain) + 1]
               link == [action |-> None, signal |-> s, local |-> TRUE, timing |-> "none"]
    <3>1. req.local \in Seq(Signal)
      BY RequestAssumption DEF TypeOK, RequestType
    <3>2. s \in Signal
      BY <1>t, <2>1, <3>1
    <3>3. link \in Link /\ Move(link) = Delta[s] /\ Price(link) = 0
      BY <3>2 DEF Link, Timing, Move, Price
    <3>4. chain' = Append(chain, link) /\ belief' = belief + Delta[s] /\ UNCHANGED <<req, cost>>
      BY <1>1, <2>1 DEF ApplyLocal
    <3>5. cost' = cost + 0
      BY <3>4 DEF TypeOK
    <3> HIDE DEF link, s
    <3> QED BY <1>a, <3>3, <3>4, <3>5
  <2>2. CASE ~(Len(chain) < Len(req.local))
    BY <1>1, <1>q, <2>2 DEF ApplyLocal
  <2> QED BY <2>1, <2>2
<1>2. CASE CheckContinuity
  <2>1. CASE Purchase(NumberRecycling)
    BY <1>2, <2>1, PurchaseAddsUp, ActionAssumption DEF CheckContinuity
  <2>2. CASE UNCHANGED <<evidence, choreographed>>
    BY <1>2, <1>q, <2>2 DEF CheckContinuity, evidence
  <2> QED BY <1>2, <2>1, <2>2 DEF CheckContinuity
<1>3. CASE UseAuthorization
  <2>1. CASE UNCHANGED <<evidence, choreographed>>
    BY <1>3, <1>q, <2>1 DEF UseAuthorization, evidence
  <2>2. CASE Purchase(req.required)
    <3>1. req.required \in Action
      BY <1>3, RequestAssumption, ActionAssumption DEF UseAuthorization, RequestType, TypeOK
    <3> QED BY <1>3, <2>2, <3>1, PurchaseAddsUp DEF UseAuthorization
  <2> QED BY <1>3, <2>1, <2>2 DEF UseAuthorization
<1>7. ASSUME NEW a \in Action, BatchAnswer(a) PROVE Tally'
  <2>1. PICK s \in Answers[a] : chain' = Append(chain, NetworkLink(a, s, "pending"))
    BY <1>7 DEF BatchAnswer
  <2> DEFINE link == NetworkLink(a, s, "pending")
  <2>2. s \in Signal
    BY RequestAssumption
  <2>3. link \in Link /\ Move(link) = 0 /\ Price(link) = 0
    BY <2>2 DEF NetworkLink, Link, Timing, Move, Price
  <2>4. req' = req /\ belief' = belief + 0 /\ cost' = cost + 0
    BY <1>7 DEF BatchAnswer, TypeOK
  <2> HIDE DEF link
  <2> QED BY <1>a, <2>1, <2>3, <2>4 DEF link
<1>8. CASE SettleBatch
  <2>1. PICK i \in DOMAIN chain :
          /\ chain[i].timing = "pending"
          /\ \E timing \in Dates(chain[i].action, chain[i].signal, chain,
                                 budget - Cost[chain[i].action]) : Settled(i, timing)
    BY <1>8 DEF SettleBatch, Settled
  <2>2. PICK timing \in Dates(chain[i].action, chain[i].signal, chain,
                              budget - Cost[chain[i].action]) :
          /\ chain' = [chain EXCEPT ![i] = NetworkLink(chain[i].action, chain[i].signal, timing)]
          /\ belief' = belief + Delta[chain[i].signal]
          /\ cost' = cost + Cost[chain[i].action] + Paid(timing)
    BY <2>1 DEF Settled
  <2> DEFINE link == NetworkLink(chain[i].action, chain[i].signal, timing)
  <2>3. chain[i].action \in Action /\ chain[i].signal \in Signal /\ timing \in Timing /\ timing # "pending"
    BY <2>1, LinkTypes, DatesTypes
  <2>4. /\ link \in Link
        /\ Move(link) = Delta[chain[i].signal] /\ Price(link) = Cost[chain[i].action] + Paid(timing)
        /\ Move(chain[i]) = 0 /\ Price(chain[i]) = 0
    BY <2>1, <2>3 DEF NetworkLink, Link, Move, Price
  <2>5. Move(link) \in Int /\ Price(link) \in Int /\ Paid(timing) \in Nat /\ Cost[chain[i].action] \in Nat
    BY <2>3, <2>4, TermTypes, CostAssumption DEF Paid
  <2> HIDE DEF link
  <2>6. belief' = belief + Move(link) - Move(chain[i])
    BY <2>2, <2>4, <2>5 DEF TypeOK
  <2>7. cost' = cost + Price(link) - Price(chain[i])
    BY <2>2, <2>4, <2>5 DEF TypeOK
  <2>8. req' = req
    BY <1>8 DEF SettleBatch
  <2> QED BY <1>e, <2>2, <2>4, <2>6, <2>7, <2>8 DEF link
<1>11. CASE Corroborate
  <2>1. PICK a \in Outstanding : Choreograph(a)
    BY <1>11 DEF Corroborate
  <2>2. a \in Action
    BY <1>s, PicksFit DEF Outstanding
  <2> QED BY <2>1, <2>2, PurchaseAddsUp DEF Choreograph
<1>12. CASE Attest
  <2>1. PICK a \in NextBest(Suspected, Excluded, budget) : Choreograph(a)
    BY <1>12 DEF Attest
  <2>2. a \in Action
    BY <1>s, PicksFit
  <2> QED BY <2>1, <2>2, PurchaseAddsUp DEF Choreograph
<1>15. CASE Investigate
  <2>1. PICK c \in Choices : c[1] # None /\ Purchase(c[1])
    BY <1>15 DEF Investigate
  <2>2. c[1] \in Action
    BY <2>1, ChoicesFit
  <2> QED BY <1>15, <2>1, <2>2, PurchaseAddsUp DEF Investigate
<1>17. CASE StepUp
  <2>1. CASE UNCHANGED evidence
    BY <1>17, <1>q, <2>1 DEF StepUp, evidence
  <2>2. CASE \E a \in CheapestStepUp(Excluded, budget) : Purchase(a)
    <3>1. PICK a \in CheapestStepUp(Excluded, budget) : Purchase(a)
      BY <2>2
    <3>2. a \in Action
      BY <1>s, PicksFit
    <3> QED BY <1>17, <3>1, <3>2, PurchaseAddsUp DEF StepUp
  <2> QED BY <1>17, <2>1, <2>2 DEF StepUp
<1>18. CASE SettleDeferred
  <2>1. PICK i \in Deferred, timing \in {"unsupported", "asked"} :
          /\ chain' = [chain EXCEPT ![i] = NetworkLink(chain[i].action, chain[i].signal, timing)]
          /\ cost' = cost + Paid(timing)
    BY <1>18 DEF SettleDeferred
  <2> DEFINE link == NetworkLink(chain[i].action, chain[i].signal, timing)
  <2>2. i \in DOMAIN chain /\ chain[i].timing = "deferred"
    BY DEF Deferred
  <2>3. chain[i].action \in Action /\ chain[i].signal \in Signal /\ ~chain[i].local
    BY <2>2, LinkTypes
  <2>4. /\ link \in Link
        /\ Move(link) = Delta[chain[i].signal] /\ Price(link) = Cost[chain[i].action] + Paid(timing)
        /\ Move(chain[i]) = Delta[chain[i].signal] /\ Price(chain[i]) = Cost[chain[i].action] + 0
    BY <2>2, <2>3 DEF NetworkLink, Link, Timing, Move, Price, Paid
  <2>5. /\ Delta[chain[i].signal] \in Int /\ Cost[chain[i].action] \in Nat /\ Paid(timing) \in Nat
    BY <2>3, SignalAssumption, CostAssumption DEF Paid
  <2>6. UNCHANGED <<req, belief>>
    BY <1>18 DEF SettleDeferred
  <2> HIDE DEF link
  <2>7. belief' = belief + Move(link) - Move(chain[i])
    BY <2>4, <2>5, <2>6 DEF TypeOK
  <2>8. cost' = cost + Price(link) - Price(chain[i])
    BY <2>1, <2>4, <2>5 DEF TypeOK
  <2> QED BY <1>e, <2>1, <2>2, <2>4, <2>6, <2>7, <2>8 DEF link
<1>4. CASE NoAuthorization
  BY <1>4, <1>q DEF NoAuthorization, evidence
<1>5. CASE SkipBatch
  BY <1>5, <1>q DEF SkipBatch, evidence
<1>6. CASE PickForBatch
  BY <1>6, <1>q DEF PickForBatch, evidence
<1>9. CASE BatchDone
  BY <1>9, <1>q DEF BatchDone, evidence
<1>10. CASE BudgetExhausted \/ Enough \/ NothingAffordable \/ PlannerStops
  BY <1>10, <1>q DEF BudgetExhausted, Enough, NothingAffordable, PlannerStops, LeaveLoop, evidence
<1>19. CASE Conclude
  BY <1>19, <1>q DEF Conclude, evidence
<1>20. CASE UNCHANGED vars
  BY <1>20, <1>q DEF vars
<1> QED
  BY <1>1, <1>2, <1>3, <1>4, <1>5, <1>6, <1>7, <1>8, <1>9, <1>10, <1>11, <1>12, <1>15,
     <1>17, <1>18, <1>19, <1>20 DEF Next

\* The receipt adds up in every reachable state, on every path that buys.
THEOREM ReceiptsAddUp == Spec => []ReceiptAddsUp
<1>1. Init => Tally
  <2> SUFFICES ASSUME Init PROVE Tally
    OBVIOUS
  <2>1. chain = <<>> /\ DOMAIN chain = {}
    BY DEF Init
  <2>2. DOMAIN Moves(chain) = {} /\ DOMAIN Prices(chain) = {}
    BY <2>1 DEF Moves, Prices
  <2>3. SumFunction(Moves(chain)) = 0 /\ SumFunction(Prices(chain)) = 0
    BY <2>2, SumEmpty DEF SumFunction
  <2>4. belief = PriorOf(req) /\ cost = 0 /\ PriorOf(req) \in Int
    BY RequestTypes DEF Init
  <2> QED BY <2>3, <2>4 DEF Tally
<1>2. TypeOK /\ IInv /\ Tally => ReceiptAddsUp
  <2> SUFFICES ASSUME TypeOK, IInv, Tally PROVE ReceiptAddsUp
    OBVIOUS
  <2>1. Moves(chain) = [i \in DOMAIN chain |-> Moving(i)]
    BY DEF Moves, Move, Moving
  <2>2. Prices(chain) = [i \in DOMAIN chain |-> Paying(i)]
    BY DEF Prices, Price, Paying
  <2>3. cost + budget = BudgetOf(req) /\ cost \in Nat /\ budget \in Int /\ BudgetOf(req) \in Nat
    BY RequestTypes DEF IInv, Accounts, TypeOK
  <2>4. budget = BudgetOf(req) - cost
    BY <2>3
  <2> QED BY <2>1, <2>2, <2>4 DEF Tally, ReceiptAddsUp
<1> QED
  BY <1>1, <1>2, TallyStep, Invariance, TypeCorrect, PTL DEF Spec

-----------------------------------------------------------------------------
(* What the operators answered: OperatorCalls, for every set of calls, any *)
(* number of workers, and every operation a call may make.                 *)

CONSTANTS Workers, OperationsOf, Judged, Deployments
VARIABLE job

O == INSTANCE OperatorCalls

Checks == {"sim_swap", "device_swap", "reachability", "roaming", "location_verify",
           "number_recycling", "number_verify"}


\* The operations an answer is read for, and those whose request may lack something.
LEMMA Domains ==
  /\ DOMAIN O!Reading = Checks
  /\ DOMAIN O!Lacking = {"location_verify", "number_recycling", "number_verify", "device_intelligence"}
BY DEF O!Reading, O!Lacking, Checks

\* A favourable or unfavourable reading is of a clear answer.
LEMMA ReadingIs ==
  ASSUME NEW operation \in Checks, NEW reply \in DOMAIN O!Reading[operation]
  PROVE  /\ O!Reading[operation][reply] \in O!Link
         /\ O!Reading[operation][reply] # <<>>
         /\ O!IsFact(O!Reading[operation][reply]) => reply \in {"yes", "no"}
         /\ O!Reading[operation][reply] \notin {<<"url", "https">>, <<"token", "bound">>}
<1>0. O!Reading[operation][reply] \in O!Link
  <2>1. O!Reading[operation][reply] \in O!Readings
    BY Domains DEF O!Readings
  <2> QED BY <2>1 DEF O!Link
<1>1. /\ O!Reading[operation][reply] # <<>>
      /\ O!IsFact(O!Reading[operation][reply]) => reply \in {"yes", "no"}
      /\ O!Reading[operation][reply] \notin {<<"url", "https">>, <<"token", "bound">>}
  <2> USE DEF O!Reading, O!Pass, O!Flag, O!Info, O!IsFact
  <2>1. CASE operation = "sim_swap"
    BY <2>1
  <2>2. CASE operation = "device_swap"
    BY <2>2
  <2>3. CASE operation = "reachability"
    BY <2>3
  <2>4. CASE operation = "roaming"
    BY <2>4
  <2>5. CASE operation = "location_verify"
    BY <2>5
  <2>6. CASE operation = "number_recycling"
    BY <2>6
  <2>7. CASE operation = "number_verify"
    BY <2>7
  <2> QED BY <2>1, <2>2, <2>3, <2>4, <2>5, <2>6, <2>7 DEF Checks
<1> QED BY <1>0, <1>1

\* An informative link is a link, and no fact.
LEMMA InfoIs ==
  ASSUME NEW signal \in O!Signals
  PROVE  O!Info(signal) \in O!Link /\ O!Info(signal) # <<>> /\ ~O!IsFact(O!Info(signal))
<1>1. O!Info(signal) \in O!Link
  BY DEF O!Link
<1>2. O!Info(signal) # <<>> /\ ~O!IsFact(O!Info(signal))
  BY DEF O!Info, O!IsFact
<1> QED BY <1>1, <1>2

\* What a request lacks makes an informative link.
LEMMA LackingIs ==
  ASSUME NEW operation \in DOMAIN O!Lacking, NEW lacks \in DOMAIN O!Lacking[operation]
  PROVE  lacks # "nothing" /\ \E signal \in O!Signals : O!Lacking[operation][lacks] = O!Info(signal)
<1> USE DEF O!Lacking, O!Signals
<1>1. CASE operation = "location_verify"
  BY <1>1
<1>2. CASE operation = "number_recycling"
  BY <1>2
<1>3. CASE operation = "number_verify"
  BY <1>3
<1>4. CASE operation = "device_intelligence"
  BY <1>4
<1> QED BY <1>1, <1>2, <1>3, <1>4, Domains

\* Tokens, URLs and exceptions neither pass nor flag.
LEMMA OthersAreLinks ==
  \A link \in O!Others : link \in O!Link /\ link # <<>> /\ link[1] \notin {"PASS", "FLAG"}
<1>1. \A link \in O!Others : link \in O!Link
  BY DEF O!Link
<1> QED BY <1>1 DEF O!Others, O!Raised

\* An answer that is read as a fact is a clear one, and reads as that fact.
LEMMA InterpretIs ==
  ASSUME NEW operation \in Checks \cup O!Consent, NEW reply
  PROVE  LET link == O!Interpret(operation, reply) IN
         /\ link \in O!Link /\ link # <<>>
         /\ link[1] \in {"PASS", "FLAG"} =>
              reply \in {"yes", "no"} /\ link = O!Reading[operation][reply]
         /\ link \in {<<"url", "https">>, <<"token", "bound">>} => reply = "yes"
<1>1. CASE operation \in O!Consent
  <2>1. \/ O!Interpret(operation, reply) = O!Raised
        \/ reply = "yes" /\ O!Interpret(operation, reply) \in {<<"url", "https">>, <<"token", "bound">>}
    BY <1>1 DEF O!Consent, O!Interpret, O!Authorized, O!Exchanged
  <2>2. O!Raised \notin {<<"url", "https">>, <<"token", "bound">>}
    BY DEF O!Raised
  <2> QED BY <2>1, <2>2, OthersAreLinks DEF O!Others
<1>2. CASE operation \in Checks /\ reply \in DOMAIN O!Reading[operation]
  <2>1. O!Interpret(operation, reply) = O!Reading[operation][reply]
    BY <1>2 DEF O!Interpret, Checks
  <2> QED BY <1>2, <2>1, ReadingIs DEF O!IsFact
<1>3. CASE operation \in Checks /\ reply \notin DOMAIN O!Reading[operation]
  <2>1. O!Interpret(operation, reply) = O!Info(O!ErrorSignal(reply))
    BY <1>3 DEF O!Interpret, Checks
  <2>2. O!ErrorSignal(reply) \in O!Signals
    BY DEF O!ErrorSignal, O!Signals
  <2> QED BY <2>1, <2>2, InfoIs DEF O!IsFact
<1> QED BY <1>1, <1>2, <1>3

\* A failed precondition is no fact; where none fails the operation is one that can be asked.
LEMMA PreconditionIs ==
  ASSUME O!OperationsAssumption, O!TypeOK, NEW c \in Call
  PROVE  /\ \A link \in O!Precondition(c) : link \in O!Link /\ link # <<>> /\ ~O!IsFact(link)
         /\ O!Precondition(c) = {} => O!Operation(c) \in Checks \cup O!Consent
<1>1. input[c] \in O!Inputs(OperationsOf[c])
  BY DEF O!TypeOK
<1>2. OperationsOf[c] \subseteq O!Consent \cup Checks \cup DOMAIN O!Lacking
  BY Domains DEF O!OperationsAssumption
<1>3. \/ input[c].lacks = "nothing" /\ O!Operation(c) \in Checks \cup O!Consent
      \/ O!Operation(c) \in DOMAIN O!Lacking /\ input[c].lacks \in DOMAIN O!Lacking[O!Operation(c)]
  BY <1>1, <1>2, Domains DEF O!Inputs, O!Operation, Checks
<1>4. CASE input[c].lacks = "nothing"
  <2>1. O!Operation(c) \in Checks \cup O!Consent
    BY <1>3, <1>4, LackingIs
  <2> QED BY <2>1, <1>4 DEF O!Precondition
<1>5. CASE input[c].lacks # "nothing"
  <2>1. O!Precondition(c) = {O!Lacking[O!Operation(c)][input[c].lacks]}
    BY <1>5 DEF O!Precondition
  <2>2. PICK signal \in O!Signals : O!Lacking[O!Operation(c)][input[c].lacks] = O!Info(signal)
    BY <1>3, <1>5, LackingIs
  <2> QED BY <2>1, <2>2, InfoIs
<1> QED BY <1>4, <1>5

-----------------------------------------------------------------------------
(* The types *)

LEMMA InitTypes == O!OperatorAssumption /\ O!Init => O!TypeOK
<1> SUFFICES ASSUME O!OperatorAssumption, O!Init
             PROVE  O!TypeOK
  OBVIOUS
<1>1. provider \in [Call -> {"mock", "hybrid", "nac", "paired", "nac_fake"}]
  BY DEF O!OperatorAssumption, O!Init
<1>2. \A c \in Call : input[c] \in O!Inputs(OperationsOf[c])
  BY DEF O!Init
<1>3. call \in [Call -> [pc : {"idle", "check", "linked", "date", "done"}, link : O!Link \cup {<<>>},
                        date : O!Dates, disagrees : BOOLEAN, charged : BOOLEAN]]
  BY DEF O!Init, O!Undated, O!Dates
<1>4. job \in [Call -> [O!Phase -> {"none", "queued", "running", "returned", "cancelled"}]]
  BY DEF O!Init
<1>5. replied \in [Call -> [O!Phase -> {"not asked", "asked", "too late", "yes", "no", "partial", "none"}
                                     \cup O!DateAnswers]]
  BY DEF O!Init
<1> QED BY <1>1, <1>2, <1>3, <1>4, <1>5 DEF O!TypeOK

Jobs == {"none", "queued", "running", "returned", "cancelled"}
Replied == {"not asked", "asked", "too late", "yes", "no", "partial", "none"} \cup O!DateAnswers
Calls == [pc : {"idle", "check", "linked", "date", "done"}, link : O!Link \cup {<<>>},
          date : O!Dates, disagrees : BOOLEAN, charged : BOOLEAN]

\* What one call's record, job and reply become, the other calls' stand.
LEMMA Writes ==
  ASSUME O!TypeOK, NEW c \in Call, NEW p \in O!Phase
  PROVE  /\ \A r \in Calls : O!Set(c, r) =>
               call' \in [Call -> Calls] /\ call'[c] = r /\ \A d \in Call \ {c} : call'[d] = call[d]
         /\ \A s \in Jobs : O!SetJob(c, p, s) =>
               /\ job' \in [Call -> [O!Phase -> Jobs]]
               /\ job'[c][p] = s /\ \A q \in O!Phase \ {p} : job'[c][q] = job[c][q]
               /\ \A d \in Call \ {c} : job'[d] = job[d]
         /\ \A s \in Replied : O!SetReply(c, p, s) =>
               /\ replied' \in [Call -> [O!Phase -> Replied]]
               /\ replied'[c][p] = s /\ \A q \in O!Phase \ {p} : replied'[c][q] = replied[c][q]
               /\ \A d \in Call \ {c} : replied'[d] = replied[d]
<1>1. /\ call \in [Call -> Calls]
      /\ job \in [Call -> [O!Phase -> Jobs]]
      /\ replied \in [Call -> [O!Phase -> Replied]]
  BY DEF O!TypeOK, Calls, Jobs, Replied
<1>2. \A r \in Calls : O!Set(c, r) =>
        call' \in [Call -> Calls] /\ call'[c] = r /\ \A d \in Call \ {c} : call'[d] = call[d]
  BY <1>1 DEF O!Set
<1>3. ASSUME NEW s \in Jobs, O!SetJob(c, p, s)
      PROVE  /\ job' \in [Call -> [O!Phase -> Jobs]]
             /\ job'[c][p] = s /\ \A q \in O!Phase \ {p} : job'[c][q] = job[c][q]
             /\ \A d \in Call \ {c} : job'[d] = job[d]
  BY <1>1, <1>3 DEF O!SetJob
<1>4. ASSUME NEW s \in Replied, O!SetReply(c, p, s)
      PROVE  /\ replied' \in [Call -> [O!Phase -> Replied]]
             /\ replied'[c][p] = s /\ \A q \in O!Phase \ {p} : replied'[c][q] = replied[c][q]
             /\ \A d \in Call \ {c} : replied'[d] = replied[d]
  BY <1>1, <1>4 DEF O!SetReply
<1> QED BY <1>2, <1>3, <1>4

\* The record of a call whose date is not settled.
LEMMA UndatedIs ==
  ASSUME NEW pc \in {"idle", "check", "linked", "date", "done"}, NEW link \in O!Link \cup {<<>>},
         NEW date \in O!Dates
  PROVE  /\ O!Undated(pc, link, date) \in Calls
         /\ O!Undated(pc, link, date).pc = pc /\ O!Undated(pc, link, date).link = link
BY DEF O!Undated, Calls

LEMMA TypesOf ==
  O!TypeOK => /\ call \in [Call -> Calls]
            /\ job \in [Call -> [O!Phase -> Jobs]]
            /\ replied \in [Call -> [O!Phase -> Replied]]
            /\ provider \in [Call -> {"mock", "hybrid", "nac", "paired", "nac_fake"}]
BY DEF O!TypeOK, Calls, Jobs, Replied

-----------------------------------------------------------------------------
(* Only one call moves in a step *)

\* FactsAreAnswers, of one call.
Answered(c) ==
  provider[c] \in {"nac", "paired", "nac_fake"} /\ call[c].link # <<>> =>
    /\ call[c].link[1] \in {"PASS", "FLAG"} =>
         /\ replied[c].check \in {"yes", "no"}
         /\ call[c].link = O!Reading[O!Operation(c)][replied[c].check]
    /\ call[c].link \in {<<"url", "https">>, <<"token", "bound">>} => replied[c].check = "yes"

\* What the invariant says of one call.
Honest(c) == O!CheckIsOver(c) /\ O!DateIsCharged(c) /\ Answered(c)

LEMMA HonestCalls == O!IInv <=> \A c \in Call : Honest(c)
BY DEF O!IInv, Honest, O!FactsAreAnswers, Answered

OthersStand(c) ==
  /\ UNCHANGED <<provider, input>>
  /\ \A d \in Call \ {c} : call'[d] = call[d] /\ job'[d] = job[d] /\ replied'[d] = replied[d]

LEMMA OneCall ==
  ASSUME O!TypeOK, O!IInv, NEW c \in Call, OthersStand(c), Honest(c)',
         call' \in [Call -> Calls], job' \in [Call -> [O!Phase -> Jobs]],
         replied' \in [Call -> [O!Phase -> Replied]]
  PROVE  O!TypeOK' /\ O!IInv'
<1>1. O!TypeOK'
  BY DEF O!TypeOK, OthersStand, Calls, Jobs, Replied
<1>2. ASSUME NEW d \in Call, d # c
      PROVE  Honest(d)'
  <2>1. Honest(d)
    BY HonestCalls
  <2>2. /\ call'[d] = call[d] /\ job'[d] = job[d] /\ replied'[d] = replied[d]
        /\ UNCHANGED <<provider, input>>
    BY <1>2 DEF OthersStand
  <2>3. O!CheckIsOver(d)'
    BY <2>1, <2>2 DEF Honest, O!CheckIsOver, O!Precondition, O!Operation
  <2>4. O!DateIsCharged(d)'
    BY <2>1, <2>2 DEF Honest, O!DateIsCharged
  <2>5. Answered(d)'
    BY <2>1, <2>2 DEF Honest, Answered, O!Operation
  <2> QED BY <2>3, <2>4, <2>5 DEF Honest
<1>3. \A d \in Call : Honest(d)'
  BY <1>2
<1>4. O!IInv'
  BY <1>3, HonestCalls DEF O!IInv, Honest, O!FactsAreAnswers, Answered
<1> QED BY <1>1, <1>4

LEMMA InitHolds == O!Init => O!IInv
<1> SUFFICES ASSUME O!Init, NEW c \in Call
             PROVE  Honest(c)
  BY HonestCalls
<1>1. /\ call[c].pc = "idle" /\ call[c].link = <<>>
      /\ job[c]["check"] = "none" /\ job[c]["date"] = "none" /\ replied[c]["date"] = "not asked"
  BY DEF O!Init, O!Undated, O!Phase
<1> QED BY <1>1 DEF Honest, O!CheckIsOver, O!DateIsCharged, Answered, O!Phase

\* The check's link: no date was asked for yet, and a fact is an answer to it.
LEMMA AfterLink ==
  ASSUME O!TypeOK, O!IInv, NEW c \in Call, NEW link \in O!Link, link # <<>>, O!Linked(c, link),
         call[c].pc \in {"idle", "check"}, UNCHANGED <<provider, input>>,
         job'[c]["check"] # "queued", job'[c]["check"] = "running" => job[c]["check"] = "running",
         job'[c]["date"] = job[c]["date"], replied'[c]["date"] = replied[c]["date"],
         provider[c] \in {"nac", "paired", "nac_fake"} =>
           /\ O!IsFact(link) => job'[c]["check"] \in {"none", "returned"}
           /\ link[1] \in {"PASS", "FLAG"} =>
                replied'[c]["check"] \in {"yes", "no"}
                  /\ link = O!Reading[O!Operation(c)][replied'[c]["check"]]
           /\ link \in {<<"url", "https">>, <<"token", "bound">>} => replied'[c]["check"] = "yes"
  PROVE  Honest(c)' /\ call' \in [Call -> Calls] /\ \A d \in Call \ {c} : call'[d] = call[d]
<1>1. Honest(c)
  BY HonestCalls
<1>2. job[c]["date"] = "none" /\ replied[c]["date"] = "not asked"
  BY <1>1 DEF Honest, O!DateIsCharged
<1> DEFINE r == O!Undated("linked", link, "unset")
<1>3. r \in Calls /\ r.pc = "linked" /\ r.link = link
  <2>1. "unset" \in O!Dates /\ link \in O!Link \cup {<<>>}
    BY DEF O!Dates
  <2> QED BY <2>1, UndatedIs
<1>4. call' \in [Call -> Calls] /\ call'[c] = r /\ \A d \in Call \ {c} : call'[d] = call[d]
  BY <1>3, Writes DEF O!Linked, O!Phase
<1> HIDE DEF r
<1>5. call'[c].pc = "linked" /\ call'[c].link = link
  BY <1>3, <1>4
<1>6. O!CheckIsOver(c)'
  <2>1. job'[c]["check"] = "running" => O!Precondition(c)' = {}
    BY <1>1 DEF Honest, O!CheckIsOver, O!Precondition, O!Operation
  <2>2. \A p \in O!Phase : job'[c][p] # "queued"
    BY <1>2 DEF O!Phase
  <2> QED BY <1>5, <2>1, <2>2 DEF O!CheckIsOver
<1>7. O!DateIsCharged(c)'
  BY <1>2 DEF O!DateIsCharged
<1>8. Answered(c)'
  BY <1>5 DEF Answered, O!Operation
<1> QED BY <1>4, <1>6, <1>7, <1>8 DEF Honest

\* The fixture answers no network check.
LEMMA MockStep ==
  ASSUME O!OperationsAssumption, O!TypeOK, O!IInv, NEW c \in Call, call[c].pc = "idle", O!MockGather(c),
         UNCHANGED <<provider, input>>
  PROVE  O!TypeOK' /\ O!IInv'
<1>1. \E link \in O!Link : link # <<>> /\ O!Linked(c, link)
  <2>1. CASE \E link \in O!Precondition(c) : O!Operation(c) # "number_verify" /\ O!Linked(c, link)
    BY <2>1, PreconditionIs
  <2>2. CASE /\ O!Operation(c) \in O!Consent /\ O!Linked(c, O!Raised)
    BY <2>2, OthersAreLinks DEF O!Others
  <2>3. CASE /\ O!Precondition(c) = {} \/ O!Operation(c) = "number_verify"
             /\ O!Operation(c) \notin O!Consent
             /\ \E reply \in {"yes", "no"} : O!Linked(c, O!Reading[O!Operation(c)][reply])
    <3>1. O!Operation(c) \in Checks
      BY <2>3, PreconditionIs DEF Checks
    <3>2. PICK reply \in {"yes", "no"} : O!Linked(c, O!Reading[O!Operation(c)][reply])
      BY <2>3
    <3>3. reply \in DOMAIN O!Reading[O!Operation(c)]
      BY <3>1 DEF Checks, O!Reading
    <3> QED BY <3>1, <3>2, <3>3, ReadingIs
  <2> QED BY <2>1, <2>2, <2>3 DEF O!MockGather
<1>2. PICK link \in O!Link : link # <<>> /\ O!Linked(c, link)
  BY <1>1
<1>3. UNCHANGED <<job, replied>> /\ provider[c] \notin {"nac", "paired", "nac_fake"}
  BY DEF O!MockGather
<1>4. job[c]["check"] # "queued"
  BY HonestCalls DEF Honest, O!CheckIsOver, O!Phase
<1>5. Honest(c)' /\ call' \in [Call -> Calls] /\ \A d \in Call \ {c} : call'[d] = call[d]
  BY <1>2, <1>3, <1>4, AfterLink
<1> QED BY <1>3, <1>5, OneCall, TypesOf DEF OthersStand

\* The loopback answers for Number Verification alone.
LEMMA FakeStep ==
  ASSUME O!TypeOK, O!IInv, NEW c \in Call, call[c].pc = "idle", O!FakeGather(c),
         UNCHANGED <<provider, input>>
  PROVE  O!TypeOK' /\ O!IInv'
<1>1. job' = job /\ job[c]["check"] = "none"
  BY HonestCalls DEF O!FakeGather, Honest, O!CheckIsOver
<1>2. CASE UNCHANGED replied /\ \E link \in O!Link : link # <<>> /\ ~O!IsFact(link) /\ O!Linked(c, link)
  <2>1. PICK link \in O!Link : link # <<>> /\ ~O!IsFact(link) /\ O!Linked(c, link)
    BY <1>2
  <2>2. Honest(c)' /\ call' \in [Call -> Calls] /\ \A d \in Call \ {c} : call'[d] = call[d]
    BY <1>1, <1>2, <2>1, AfterLink DEF O!IsFact
  <2> QED BY <1>1, <1>2, <2>2, OneCall, TypesOf DEF OthersStand
<1>3. CASE /\ O!Operation(c) \in {"exchange_code", "number_verify"}
           /\ \E reply \in {"yes", "no", "none", "500"} :
                /\ O!Linked(c, O!Interpret(O!Operation(c), reply))
                /\ O!SetReply(c, "check", reply)
  <2>1. PICK reply \in {"yes", "no", "none", "500"} :
          /\ O!Linked(c, O!Interpret(O!Operation(c), reply))
          /\ O!SetReply(c, "check", reply)
    BY <1>3
  <2>2. reply \in Replied /\ O!Operation(c) \in Checks \cup O!Consent
    BY <1>3 DEF Replied, O!DateAnswers, O!Statuses, Checks, O!Consent
  <2>3. /\ replied' \in [Call -> [O!Phase -> Replied]]
        /\ replied'[c]["check"] = reply /\ replied'[c]["date"] = replied[c]["date"]
        /\ \A d \in Call \ {c} : replied'[d] = replied[d]
    BY <2>1, <2>2, Writes DEF O!Phase
  <2>4. PICK link : link = O!Interpret(O!Operation(c), reply)
    OBVIOUS
  <2>5. /\ link \in O!Link /\ link # <<>> /\ O!Linked(c, link)
        /\ link[1] \in {"PASS", "FLAG"} =>
             reply \in {"yes", "no"} /\ link = O!Reading[O!Operation(c)][reply]
        /\ link \in {<<"url", "https">>, <<"token", "bound">>} => reply = "yes"
    BY <2>1, <2>2, <2>4, InterpretIs
  <2>6. Honest(c)' /\ call' \in [Call -> Calls] /\ \A d \in Call \ {c} : call'[d] = call[d]
    BY <1>1, <2>3, <2>5, AfterLink
  <2> QED BY <1>1, <2>3, <2>6, OneCall, TypesOf DEF OthersStand
<1>4. ASSUME O!FakeGather(c), ~(/\ O!Operation(c) \in {"exchange_code", "number_verify"}
                              /\ \E reply \in {"yes", "no", "none", "500"} :
                                   /\ O!Linked(c, O!Interpret(O!Operation(c), reply))
                                   /\ O!SetReply(c, "check", reply))
      PROVE  UNCHANGED replied /\ \E link \in O!Link : link # <<>> /\ ~O!IsFact(link) /\ O!Linked(c, link)
  <2>1. /\ O!Info("CONSENT_REQUIRED") \in O!Link /\ O!Info("CONSENT_REQUIRED") # <<>>
        /\ ~O!IsFact(O!Info("CONSENT_REQUIRED"))
    BY InfoIs DEF O!Signals
  <2>2. /\ O!Info("EVIDENCE_UNAVAILABLE") \in O!Link /\ O!Info("EVIDENCE_UNAVAILABLE") # <<>>
        /\ ~O!IsFact(O!Info("EVIDENCE_UNAVAILABLE"))
    BY InfoIs DEF O!Signals
  <2>3. <<"url", "loopback">> \in O!Link /\ <<"url", "loopback">> # <<>> /\ ~O!IsFact(<<"url", "loopback">>)
    BY OthersAreLinks DEF O!Others, O!IsFact
  <2> QED BY <1>4, <2>1, <2>2, <2>3 DEF O!FakeGather
<1> QED BY <1>2, <1>3, <1>4

\* A queued check has no link yet.
LEMMA NacStep ==
  ASSUME O!TypeOK, O!IInv, NEW c \in Call, call[c].pc = "idle", O!NacGather(c),
         UNCHANGED <<provider, input>>
  PROVE  O!TypeOK' /\ O!IInv'
<1>1. Honest(c)
  BY HonestCalls
<1>2. job[c]["date"] = "none" /\ replied[c]["date"] = "not asked" /\ replied' = replied
  BY <1>1 DEF Honest, O!DateIsCharged, O!NacGather
<1> DEFINE r == O!Undated("check", <<>>, "unset")
<1>3. r \in Calls /\ r.pc = "check" /\ r.link = <<>>
  <2>1. "unset" \in O!Dates /\ <<>> \in O!Link \cup {<<>>}
    BY DEF O!Dates
  <2> QED BY <2>1, UndatedIs
<1>4. call' \in [Call -> Calls] /\ call'[c] = r /\ \A d \in Call \ {c} : call'[d] = call[d]
  BY <1>3, Writes DEF O!NacGather, O!Phase
<1>5. /\ job' \in [Call -> [O!Phase -> Jobs]]
      /\ job'[c]["check"] = "queued" /\ job'[c]["date"] = job[c]["date"]
      /\ \A d \in Call \ {c} : job'[d] = job[d]
  BY Writes DEF O!NacGather, O!Phase, Jobs
<1> HIDE DEF r
<1>6. Honest(c)'
  BY <1>2, <1>3, <1>4, <1>5 DEF Honest, O!CheckIsOver, O!DateIsCharged, Answered, O!Phase
<1> QED BY <1>2, <1>4, <1>5, <1>6, OneCall, TypesOf DEF OthersStand

\* The end of a call: its link stands, and a date is charged but where none can be asked.
LEMMA DatedIs ==
  ASSUME O!TypeOK, NEW c \in Call, NEW availability \in O!Dates, NEW disagrees \in BOOLEAN,
         O!Dated(c, availability, disagrees)
  PROVE  /\ call' \in [Call -> Calls] /\ \A d \in Call \ {c} : call'[d] = call[d]
         /\ call'[c].pc = "done" /\ call'[c].link = call[c].link
         /\ call'[c].charged = (availability # "unsupported")
<1>1. PICK charged \in BOOLEAN : charged = O!Charge(availability)
  BY DEF O!Charge
<1>2. PICK r : r = [pc |-> "done", link |-> call[c].link, date |-> availability,
                    disagrees |-> disagrees, charged |-> charged]
  OBVIOUS
<1>3. call[c].link \in O!Link \cup {<<>>}
  BY TypesOf DEF Calls
<1>4. r \in Calls
  BY <1>2, <1>3 DEF Calls
<1>5. O!Set(c, r)
  BY <1>1, <1>2 DEF O!Dated
<1>6. call' \in [Call -> Calls] /\ call'[c] = r /\ \A d \in Call \ {c} : call'[d] = call[d]
  BY <1>4, <1>5, Writes DEF O!Phase
<1>7. r.pc = "done" /\ r.link = call[c].link /\ r.charged = charged
  BY <1>2
<1> QED BY <1>1, <1>6, <1>7 DEF O!Charge

\* A worker that starts a job has asked; one that fails its precondition has not.
LEMMA StartStep ==
  ASSUME O!OperationsAssumption, O!TypeOK, O!IInv, NEW c \in Call, NEW p \in O!Phase, O!Start(c, p)
  PROVE  O!TypeOK' /\ O!IInv'
<1>1. Honest(c)
  BY HonestCalls
<1>2. call[c].pc = p /\ UNCHANGED <<provider, input>>
  BY <1>1 DEF O!Start, Honest, O!CheckIsOver
<1>3. CASE p = "check" /\ O!Precondition(c) # {}
  <2>1. replied' = replied /\ O!SetJob(c, "check", "returned")
    BY <1>3 DEF O!Start
  <2>2. PICK link \in O!Precondition(c) : O!Linked(c, link)
    BY <1>3 DEF O!Start
  <2>3. link \in O!Link /\ link # <<>> /\ ~O!IsFact(link)
    BY <2>2, PreconditionIs
  <2>4. /\ job' \in [Call -> [O!Phase -> Jobs]]
        /\ job'[c]["check"] = "returned" /\ job'[c]["date"] = job[c]["date"]
        /\ \A d \in Call \ {c} : job'[d] = job[d]
    BY <2>1, Writes DEF O!Phase, Jobs
  <2>5. Honest(c)' /\ call' \in [Call -> Calls] /\ \A d \in Call \ {c} : call'[d] = call[d]
    BY <1>2, <1>3, <2>1, <2>2, <2>3, <2>4, AfterLink DEF O!IsFact
  <2> QED BY <1>2, <2>1, <2>4, <2>5, OneCall, TypesOf DEF OthersStand
<1>4. CASE ~(p = "check" /\ O!Precondition(c) # {})
  <2>1. call' = call /\ O!SetJob(c, p, "running") /\ O!SetReply(c, p, "asked") /\ job[c][p] = "queued"
    BY <1>4 DEF O!Start
  <2>2. /\ job' \in [Call -> [O!Phase -> Jobs]]
        /\ job'[c][p] = "running" /\ \A q \in O!Phase \ {p} : job'[c][q] = job[c][q]
        /\ \A d \in Call \ {c} : job'[d] = job[d]
    BY <2>1, Writes DEF Jobs
  <2>3. /\ replied' \in [Call -> [O!Phase -> Replied]]
        /\ replied'[c][p] = "asked" /\ \A q \in O!Phase \ {p} : replied'[c][q] = replied[c][q]
        /\ \A d \in Call \ {c} : replied'[d] = replied[d]
    BY <2>1, Writes DEF Replied
  <2>4. ASSUME p = "check"
        PROVE  Honest(c)'
    <3>1. call[c].link = <<>> /\ O!Precondition(c)' = {}
      BY <1>1, <1>2, <1>4, <2>4 DEF Honest, O!CheckIsOver, O!Precondition, O!Operation
    <3>2. O!CheckIsOver(c)'
      BY <1>1, <1>2, <2>1, <2>2, <2>4, <3>1 DEF Honest, O!CheckIsOver, O!Phase
    <3>3. O!DateIsCharged(c)'
      BY <1>1, <1>2, <2>1, <2>2, <2>3, <2>4 DEF Honest, O!DateIsCharged, O!Phase
    <3>4. Answered(c)'
      BY <2>1, <3>1 DEF Answered
    <3> QED BY <3>2, <3>3, <3>4 DEF Honest
  <2>5. ASSUME p = "date"
        PROVE  Honest(c)'
    <3>1. /\ job'[c]["date"] = "running" /\ job'[c]["check"] = job[c]["check"]
          /\ replied'[c]["check"] = replied[c]["check"] /\ call[c].pc = "date"
      BY <1>2, <2>2, <2>3, <2>5 DEF O!Phase
    <3>2. O!CheckIsOver(c)'
      BY <1>1, <1>2, <2>1, <3>1 DEF Honest, O!CheckIsOver, O!Precondition, O!Operation, O!Phase
    <3>3. O!DateIsCharged(c)'
      BY <2>1, <3>1 DEF O!DateIsCharged
    <3>4. Answered(c)'
      BY <1>1, <1>2, <2>1, <3>1 DEF Honest, Answered, O!Operation
    <3> QED BY <3>2, <3>3, <3>4 DEF Honest
  <2>6. Honest(c)'
    BY <2>4, <2>5 DEF O!Phase
  <2> QED BY <1>2, <2>1, <2>2, <2>3, <2>6, OneCall, TypesOf DEF OthersStand
<1> QED BY <1>3, <1>4

\* What the pool's side of a call may answer.
LEMMA RepliesAre ==
  ASSUME O!OperationsAssumption, O!TypeOK, NEW c \in Call, NEW p \in O!Phase, NEW reply \in O!Replies(c, p),
         p = "check" => O!Precondition(c) = {}
  PROVE  reply \in Replied
<1>1. CASE p = "date"
  BY <1>1 DEF O!Replies, Replied
<1>2. CASE p = "check" /\ (provider[c] = "paired" \/ O!Operation(c) \in O!Consent)
  BY <1>2 DEF O!Replies, Replied, O!DateAnswers, O!Statuses
<1>3. CASE p = "check" /\ provider[c] # "paired" /\ O!Operation(c) \notin O!Consent
  <2>1. O!Operation(c) \in Checks
    BY <1>3, PreconditionIs
  <2>2. reply \in O!Statuses \cup DOMAIN O!Reading[O!Operation(c)]
    BY <1>3 DEF O!Replies
  <2>3. DOMAIN O!Reading[O!Operation(c)] \subseteq {"yes", "no", "partial", "none"}
    BY <2>1 DEF Checks, O!Reading
  <2> QED BY <2>2, <2>3 DEF Replied, O!DateAnswers
<1> QED BY <1>1, <1>2, <1>3 DEF O!Phase

\* An answer that is awaited makes the link or dates it; a late one changes neither.
LEMMA ReturnStep ==
  ASSUME O!OperationsAssumption, O!TypeOK, O!IInv, NEW c \in Call, NEW p \in O!Phase, O!Return(c, p)
  PROVE  O!TypeOK' /\ O!IInv'
<1>1. Honest(c) /\ UNCHANGED <<provider, input>> /\ job[c][p] = "running"
  BY HonestCalls DEF O!Return
<1>2. /\ job' \in [Call -> [O!Phase -> Jobs]]
      /\ job'[c][p] = "returned" /\ \A q \in O!Phase \ {p} : job'[c][q] = job[c][q]
      /\ \A d \in Call \ {c} : job'[d] = job[d]
  BY Writes DEF O!Return, Jobs
<1>3. ASSUME NEW reply \in Replied, O!SetReply(c, p, reply)
      PROVE  /\ replied' \in [Call -> [O!Phase -> Replied]]
             /\ replied'[c][p] = reply /\ \A q \in O!Phase \ {p} : replied'[c][q] = replied[c][q]
             /\ \A d \in Call \ {c} : replied'[d] = replied[d]
  BY <1>3, Writes
<1>4. CASE ~O!Awaits(c, p) /\ UNCHANGED call /\ O!SetReply(c, p, "too late")
  <2>1. "too late" \in Replied
    BY DEF Replied
  <2>2. /\ replied' \in [Call -> [O!Phase -> Replied]]
        /\ replied'[c][p] = "too late" /\ \A q \in O!Phase \ {p} : replied'[c][q] = replied[c][q]
        /\ \A d \in Call \ {c} : replied'[d] = replied[d]
    BY <1>3, <1>4, <2>1
  <2>3. ASSUME p = "check"
        PROVE  Honest(c)'
    <3>1. /\ job[c]["check"] = "running" /\ job'[c]["check"] = "returned"
          /\ job'[c]["date"] = job[c]["date"] /\ replied'[c]["date"] = replied[c]["date"]
      BY <1>1, <1>2, <2>2, <2>3 DEF O!Phase
    <3>2. O!CheckIsOver(c)'
      BY <1>1, <1>4, <3>1 DEF Honest, O!CheckIsOver, O!Phase
    <3>3. O!DateIsCharged(c)'
      BY <1>1, <1>4, <3>1 DEF Honest, O!DateIsCharged
    <3>4. Answered(c)'
      BY <1>1, <1>4, <3>1 DEF Honest, O!CheckIsOver, O!IsFact, Answered
    <3> QED BY <3>2, <3>3, <3>4 DEF Honest
  <2>4. ASSUME p = "date"
        PROVE  Honest(c)'
    <3>1. /\ job[c]["date"] = "running" /\ job'[c]["date"] = "returned"
          /\ job'[c]["check"] = job[c]["check"] /\ replied'[c]["check"] = replied[c]["check"]
      BY <1>1, <1>2, <2>2, <2>4 DEF O!Phase
    <3>2. O!CheckIsOver(c)'
      BY <1>1, <1>4, <3>1 DEF Honest, O!CheckIsOver, O!Phase, O!Precondition, O!Operation
    <3>3. O!DateIsCharged(c)'
      BY <1>1, <1>4, <3>1 DEF Honest, O!DateIsCharged
    <3>4. Answered(c)'
      BY <1>1, <1>4, <3>1 DEF Honest, Answered, O!Operation
    <3> QED BY <3>2, <3>3, <3>4 DEF Honest
  <2>5. Honest(c)'
    BY <2>3, <2>4 DEF O!Phase
  <2> QED BY <1>1, <1>2, <1>4, <2>2, <2>5, OneCall, TypesOf DEF OthersStand
<1>5. ASSUME NEW reply \in O!Replies(c, p), O!Awaits(c, p), O!SetReply(c, p, reply), p = "check",
             O!Linked(c, O!Interpret(O!Operation(c), reply))
      PROVE  O!TypeOK' /\ O!IInv'
  <2>1. O!Precondition(c) = {} /\ call[c].pc = "check"
    BY <1>1, <1>5 DEF Honest, O!CheckIsOver, O!Awaits
  <2>2. reply \in Replied /\ O!Operation(c) \in Checks \cup O!Consent
    BY <1>5, <2>1, RepliesAre, PreconditionIs
  <2>3. /\ replied' \in [Call -> [O!Phase -> Replied]]
        /\ replied'[c]["check"] = reply /\ replied'[c]["date"] = replied[c]["date"]
        /\ \A d \in Call \ {c} : replied'[d] = replied[d]
    BY <1>3, <1>5, <2>2 DEF O!Phase
  <2>4. job'[c]["check"] = "returned" /\ job'[c]["date"] = job[c]["date"]
    BY <1>2, <1>5 DEF O!Phase
  <2>5. PICK link : link = O!Interpret(O!Operation(c), reply)
    OBVIOUS
  <2>6. /\ link \in O!Link /\ link # <<>> /\ O!Linked(c, link)
        /\ link[1] \in {"PASS", "FLAG"} =>
             reply \in {"yes", "no"} /\ link = O!Reading[O!Operation(c)][reply]
        /\ link \in {<<"url", "https">>, <<"token", "bound">>} => reply = "yes"
    BY <1>5, <2>2, <2>5, InterpretIs
  <2>7. Honest(c)' /\ call' \in [Call -> Calls] /\ \A d \in Call \ {c} : call'[d] = call[d]
    BY <1>1, <2>1, <2>3, <2>4, <2>6, AfterLink
  <2> QED BY <1>1, <1>2, <2>3, <2>7, OneCall DEF OthersStand
<1>6. ASSUME NEW reply \in O!Replies(c, p), O!Awaits(c, p), O!SetReply(c, p, reply), p = "date",
             O!Dated(c, O!Availability(reply), O!Disagrees(reply, call[c].link))
      PROVE  O!TypeOK' /\ O!IInv'
  <2>1. reply \in Replied
    BY <1>6, RepliesAre
  <2>2. /\ replied' \in [Call -> [O!Phase -> Replied]]
        /\ replied'[c]["check"] = replied[c]["check"]
        /\ \A d \in Call \ {c} : replied'[d] = replied[d]
    BY <1>3, <1>6, <2>1 DEF O!Phase
  <2>3. O!Availability(reply) \in O!Dates /\ O!Availability(reply) # "unsupported"
    BY DEF O!Availability, O!Dates
  <2>4. PICK disagrees \in BOOLEAN : disagrees = O!Disagrees(reply, call[c].link)
    BY DEF O!Disagrees
  <2>5. /\ call' \in [Call -> Calls] /\ \A d \in Call \ {c} : call'[d] = call[d]
        /\ call'[c].pc = "done" /\ call'[c].link = call[c].link
        /\ call'[c].charged = (O!Availability(reply) # "unsupported")
    BY <1>6, <2>3, <2>4, DatedIs
  <2>6. job'[c]["date"] = "returned" /\ job'[c]["check"] = job[c]["check"] /\ call[c].pc = "date"
    BY <1>2, <1>6 DEF O!Phase, O!Awaits
  <2>7. O!CheckIsOver(c)'
    BY <1>1, <2>5, <2>6 DEF Honest, O!CheckIsOver, O!Phase, O!Precondition, O!Operation
  <2>8. call'[c].charged
    BY <2>3, <2>5
  <2>9. O!DateIsCharged(c)'
    BY <2>5, <2>6, <2>8 DEF O!DateIsCharged
  <2>10. Answered(c)'
    BY <1>1, <2>2, <2>5 DEF Honest, Answered, O!Operation
  <2> QED BY <1>1, <1>2, <2>2, <2>5, <2>7, <2>9, <2>10, OneCall DEF OthersStand, Honest
<1> QED BY <1>4, <1>5, <1>6 DEF O!Return, O!Phase

\* A call that is given up on has no fact, and a date that is given up on is charged.
LEMMA TimeOutStep ==
  ASSUME O!TypeOK, O!IInv, NEW c \in Call, NEW p \in O!Phase, O!TimeOut(c, p)
  PROVE  O!TypeOK' /\ O!IInv'
<1>1. Honest(c) /\ UNCHANGED <<provider, input, replied>> /\ call[c].pc = p
  BY HonestCalls DEF O!TimeOut, O!GivesUp
<1>2. PICK s \in Jobs : s = IF job[c][p] = "queued" THEN "cancelled" ELSE job[c][p]
  BY TypesOf DEF Jobs
<1>3. /\ job' \in [Call -> [O!Phase -> Jobs]]
      /\ job'[c][p] = s /\ \A q \in O!Phase \ {p} : job'[c][q] = job[c][q]
      /\ \A d \in Call \ {c} : job'[d] = job[d]
  BY <1>2, Writes DEF O!TimeOut
<1>4. CASE p = "check"
  <2>1. \E link \in O!Link : link # <<>> /\ ~O!IsFact(link) /\ O!Linked(c, link)
    <3>1. /\ O!Info("PROVIDER_UNAVAILABLE") \in O!Link /\ O!Info("PROVIDER_UNAVAILABLE") # <<>>
          /\ ~O!IsFact(O!Info("PROVIDER_UNAVAILABLE"))
      BY InfoIs DEF O!Signals
    <3>2. O!Raised \in O!Link /\ O!Raised # <<>> /\ ~O!IsFact(O!Raised)
      BY OthersAreLinks DEF O!Others, O!Raised, O!IsFact
    <3> QED BY <1>4, <3>1, <3>2 DEF O!TimeOut
  <2>2. PICK link \in O!Link : link # <<>> /\ ~O!IsFact(link) /\ O!Linked(c, link)
    BY <2>1
  <2>3. /\ job'[c]["check"] # "queued" /\ job'[c]["date"] = job[c]["date"]
        /\ job'[c]["check"] = "running" => job[c]["check"] = "running"
    BY <1>2, <1>3, <1>4 DEF O!Phase
  <2>4. Honest(c)' /\ call' \in [Call -> Calls] /\ \A d \in Call \ {c} : call'[d] = call[d]
    BY <1>1, <1>4, <2>2, <2>3, AfterLink DEF O!IsFact
  <2> QED BY <1>1, <1>3, <2>4, OneCall, TypesOf DEF OthersStand
<1>5. CASE p = "date"
  <2>1. "timeout" \in O!Dates /\ O!Dated(c, "timeout", FALSE)
    BY <1>5 DEF O!Dates, O!TimeOut
  <2>2. /\ call' \in [Call -> Calls] /\ \A d \in Call \ {c} : call'[d] = call[d]
        /\ call'[c].pc = "done" /\ call'[c].link = call[c].link
        /\ call'[c].charged = ("timeout" # "unsupported")
    BY <2>1, DatedIs
  <2>3. /\ job'[c]["check"] = job[c]["check"] /\ job'[c]["date"] # "queued" /\ call[c].pc = "date"
    BY <1>1, <1>2, <1>3, <1>5 DEF O!Phase
  <2>4. O!CheckIsOver(c)'
    BY <1>1, <2>2, <2>3 DEF Honest, O!CheckIsOver, O!Phase, O!Precondition, O!Operation
  <2>5. call'[c].charged
    BY <2>2
  <2>6. O!DateIsCharged(c)'
    <3>1. job'[c]["date"] = "none" => job[c]["date"] = "none"
      BY <1>2, <1>3, <1>5
    <3> QED BY <1>1, <2>2, <2>5, <3>1 DEF Honest, O!DateIsCharged
  <2>7. Answered(c)'
    BY <1>1, <2>2 DEF Honest, Answered, O!Operation
  <2> QED BY <1>1, <1>3, <2>2, <2>4, <2>6, <2>7, OneCall, TypesOf DEF OthersStand, Honest
<1> QED BY <1>4, <1>5 DEF O!Phase

\* Nothing but NacProvider asks an operator for a date.
LEMMA EnrichStep ==
  ASSUME O!TypeOK, O!IInv, NEW c \in Call, O!EnrichTiming(c)
  PROVE  O!TypeOK' /\ O!IInv'
<1>1. Honest(c) /\ UNCHANGED <<provider, input, replied>> /\ call[c].pc = "linked"
  BY HonestCalls DEF O!EnrichTiming
<1>2. job[c]["date"] = "none" /\ replied[c]["date"] = "not asked" /\ call[c].link \in O!Link \cup {<<>>}
  BY <1>1, TypesOf DEF Honest, O!DateIsCharged, Calls
<1>3. ASSUME NEW r \in Calls, O!Set(c, r), r.link = call[c].link, r.pc = "done", job' = job
      PROVE  O!TypeOK' /\ O!IInv'
  <2>1. call' \in [Call -> Calls] /\ call'[c] = r /\ \A d \in Call \ {c} : call'[d] = call[d]
    BY <1>3, Writes DEF O!Phase
  <2>2. O!CheckIsOver(c)'
    BY <1>1, <1>3, <2>1 DEF Honest, O!CheckIsOver, O!Phase, O!Precondition, O!Operation
  <2>3. O!DateIsCharged(c)'
    BY <1>1, <1>2, <1>3 DEF O!DateIsCharged
  <2>4. Answered(c)'
    BY <1>1, <1>3, <2>1 DEF Honest, Answered, O!Operation
  <2> QED BY <1>1, <1>3, <2>1, <2>2, <2>3, <2>4, OneCall, TypesOf DEF OthersStand, Honest
<1>4. ASSUME NEW availability \in O!Dates, NEW disagrees \in BOOLEAN, O!Dated(c, availability, disagrees),
             job' = job
      PROVE  O!TypeOK' /\ O!IInv'
  <2>1. /\ call' \in [Call -> Calls] /\ \A d \in Call \ {c} : call'[d] = call[d]
        /\ call'[c].pc = "done" /\ call'[c].link = call[c].link
    BY <1>4, DatedIs
  <2>2. call'[c] \in Calls
    BY <2>1
  <2>3. O!CheckIsOver(c)'
    BY <1>1, <1>4, <2>1 DEF Honest, O!CheckIsOver, O!Phase, O!Precondition, O!Operation
  <2>4. O!DateIsCharged(c)'
    BY <1>1, <1>2, <1>4 DEF O!DateIsCharged
  <2>5. Answered(c)'
    BY <1>1, <2>1 DEF Honest, Answered, O!Operation
  <2> QED BY <1>1, <1>4, <2>1, <2>3, <2>4, <2>5, OneCall, TypesOf DEF OthersStand, Honest
<1>5. ASSUME NEW date \in {"unset", "not_attempted"}, O!Set(c, O!Undated("done", call[c].link, date)), job' = job
      PROVE  O!TypeOK' /\ O!IInv'
  <2>1. date \in O!Dates
    BY DEF O!Dates
  <2>2. PICK r \in Calls : r = O!Undated("done", call[c].link, date)
    BY <1>2, <2>1, UndatedIs
  <2>3. r.pc = "done" /\ r.link = call[c].link
    BY <2>2 DEF O!Undated
  <2> QED BY <1>3, <1>5, <2>2, <2>3
<1>6. CASE O!MockDate(c)
  <2>1. PICK answer \in {"inside", "outside", "null"} :
          O!Dated(c, O!Availability(answer), O!Disagrees(answer, call[c].link))
    BY <1>6 DEF O!MockDate
  <2>2. O!Availability(answer) \in O!Dates
    BY DEF O!Availability, O!Dates
  <2>3. PICK disagrees \in BOOLEAN : disagrees = O!Disagrees(answer, call[c].link)
    BY DEF O!Disagrees
  <2> QED BY <1>4, <1>6, <2>1, <2>2, <2>3 DEF O!MockDate
<1>7. CASE O!HybridDate(c) \/ O!NoDate(c)
  <2>1. "invalid" \in O!Dates /\ "unsupported" \in O!Dates
    BY DEF O!Dates
  <2> QED BY <1>4, <1>7, <2>1 DEF O!HybridDate, O!NoDate
<1>8. CASE O!NacDate(c)
  <2>1. "unset" \in O!Dates
    BY DEF O!Dates
  <2>2. PICK r \in Calls : r = O!Undated("date", call[c].link, "unset")
    BY <1>2, <2>1, UndatedIs
  <2>3. r.pc = "date" /\ r.link = call[c].link
    BY <2>2 DEF O!Undated
  <2>4. call' \in [Call -> Calls] /\ call'[c] = r /\ \A d \in Call \ {c} : call'[d] = call[d]
    BY <1>8, <2>2, Writes DEF O!NacDate, O!Phase
  <2>5. /\ job' \in [Call -> [O!Phase -> Jobs]]
        /\ job'[c]["date"] = "queued" /\ job'[c]["check"] = job[c]["check"]
        /\ \A d \in Call \ {c} : job'[d] = job[d]
    BY <1>8, Writes DEF O!NacDate, O!Phase, Jobs
  <2>6. O!CheckIsOver(c)'
    BY <1>1, <2>3, <2>4, <2>5 DEF Honest, O!CheckIsOver, O!Phase, O!Precondition, O!Operation
  <2>7. O!DateIsCharged(c)'
    BY <1>1, <1>2, <2>3, <2>4 DEF O!DateIsCharged
  <2>8. Answered(c)'
    BY <1>1, <2>3, <2>4 DEF Honest, Answered, O!Operation
  <2> QED BY <1>1, <2>4, <2>5, <2>6, <2>7, <2>8, OneCall, TypesOf DEF OthersStand, Honest
<1> QED BY <1>5, <1>6, <1>7, <1>8 DEF O!EnrichTiming

\* In every reachable state of every set of calls the invariant that carries the
\* honesty of the links holds: a fact stands because its check is over, a job is
\* queued only for a call that waits for it, and a date that was asked for is
\* waited for or charged (gather, enrich_timing).
THEOREM CallsInvariance ==
  ASSUME O!OperatorAssumption, O!OperationsAssumption
  PROVE  O!Spec => [](O!TypeOK /\ O!IInv)
<1>1. O!Init => O!TypeOK /\ O!IInv
  BY InitTypes, InitHolds
<1>2. O!TypeOK /\ O!IInv /\ [O!Next]_(O!vars) => O!TypeOK' /\ O!IInv'
  <2> SUFFICES ASSUME O!TypeOK, O!IInv, [O!Next]_(O!vars)
               PROVE  O!TypeOK' /\ O!IInv'
    OBVIOUS
  <2>1. CASE \E c \in Call : O!Gather(c)
    BY <2>1, MockStep, FakeStep, NacStep DEF O!Gather
  <2>2. CASE \E c \in Call : O!EnrichTiming(c)
    BY <2>2, EnrichStep
  <2>3. CASE \E c \in Call, p \in O!Phase : O!Start(c, p)
    BY <2>3, StartStep
  <2>4. CASE \E c \in Call, p \in O!Phase : O!Return(c, p)
    BY <2>4, ReturnStep
  <2>5. CASE \E c \in Call, p \in O!Phase : O!TimeOut(c, p)
    BY <2>5, TimeOutStep
  <2>6. CASE UNCHANGED O!vars
    <3>1. O!TypeOK'
      BY <2>6 DEF O!vars, O!TypeOK
    <3>2. O!IInv'
      <4>1. O!FactsAreAnswers'
        BY <2>6 DEF O!vars, O!IInv, O!FactsAreAnswers, O!Operation
      <4>2. \A c \in Call : O!DateIsCharged(c)'
        BY <2>6 DEF O!vars, O!IInv, O!DateIsCharged
      <4>3. \A c \in Call : O!CheckIsOver(c)'
        BY <2>6 DEF O!vars, O!IInv, O!CheckIsOver, O!Precondition, O!Operation
      <4> QED BY <4>1, <4>2, <4>3 DEF O!IInv
    <3> QED BY <3>1, <3>2
  <2> QED BY <2>1, <2>2, <2>3, <2>4, <2>5, <2>6 DEF O!Next
<1> QED BY <1>1, <1>2, PTL DEF O!Spec

\* Whatever the operators answer, however late, and whenever a call is given up on:
\* a link that passes or flags is the reading of a clear answer to that very check,
\* and no operator is asked for a date the receipt does not charge.
THEOREM HonestLinks ==
  ASSUME O!OperatorAssumption, O!OperationsAssumption
  PROVE  O!Spec => []LinksAreHonest
<1>1. O!TypeOK /\ O!IInv => O!LinksAreHonest
  <2> SUFFICES ASSUME O!TypeOK, O!IInv
               PROVE  O!AskedIsCharged
    BY DEF O!LinksAreHonest, O!IInv
  <2> QED BY DEF O!IInv, O!DateIsCharged, O!AskedIsCharged
<1>2. O!LinksAreHonest => LinksAreHonest
  <2>1. O!Reading = Reading /\ \A c \in Call : O!Operation(c) = Operation(c)
    BY DEF O!Reading, Reading, O!Pass, Pass, O!Flag, Flag, O!Info, Info, O!Operation, Operation
  <2> QED BY <2>1 DEF O!LinksAreHonest, LinksAreHonest, O!FactsAreAnswers, FactsAreAnswers,
                      O!AskedIsCharged, AskedIsCharged
<1> QED BY <1>1, <1>2, CallsInvariance, PTL

=============================================================================
