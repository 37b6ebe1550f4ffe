SPECIFICATION FairSpec
CONSTANTS
  None = None
  Action <- Actions
  Candidate <- Candidates
  StepUps <- StepUpOrder
  Hypothesis <- Hypotheses
  Signal <- Signals0
  NumberVerify = "number_verify"
  LocationVerify = "location_verify"
  NumberRecycling = "number_recycling"
  Rank <- Ranks
  Resolved <- Determinate
  Unresolved <- Unanswered
  Recycled = "NUMBER_RECYCLED"
  Thresholds <- ThresholdsOf
  Prior <- Priors
  Budget <- Budgets
  Delta <- Deltas
  Corroboration <- Corroborations
  MinResolved = 1
  Cost <- Costs
  Gain <- Gains
  Timed = {"sim_swap", "device_swap"}
  DateCost = 1
  Relevant <- Relevance
  Grading <- GradingOf
  BatchSize = 3
  Weights <- WeightsOf
  Requests <- AllRequests
  Answers <- AnswersOf
  MaxAsks = 6
INVARIANTS ReceiptAddsUp WithinBudget ChecksAreDistinct VerdictIsSupported CorroborationIsBought
PROPERTIES EveryRunEnds
CHECK_DEADLOCK FALSE
