----------------------------- MODULE Demonstrations -----------------------------
(***************************************************************************)
(* The public demonstrations: the merchant pilot's flow, a judge's runs    *)
(* against the operator, and the gate every request of either comes        *)
(* through.  They share no state, so a behaviour is one of the three; the  *)
(* product of their interleavings would say nothing more.                  *)
(***************************************************************************)
EXTENDS Naturals

CONSTANTS
  None,
  \* MerchantPilot
  Req, PhoneRetention, FlowRetention, PilotSessions, PilotTime,
  \* JudgeRuns
  Run, Session, Checks, PerRun, PerSession, PerHour, MaxConcurrent, MaxSessions,
  TTL, Hour, JudgeTime,
  \* Admission
  Request, Mixes, Sends, ApiKeys, Minted, Sessions, Tokens, ServerKey, Planner, Limit,
  MaxBuckets, MaxInFlight, Slots, Ceiling, PerInvestigation, Window, ModelHour, AdmissionTime

VARIABLES
  part,  \* which of the three this behaviour is
  pilotNow, consent, trust, flow, stored, lock, req, frozen,
  judgeNow, session, live, open, active, hourly, run, attempts, call, reached,
  now, demo, credentials, inFlight, windows, calls, request, posted

pilotVars == <<pilotNow, consent, trust, flow, stored, lock, req, frozen>>
judgeVars == <<judgeNow, session, live, open, active, hourly, run, attempts, call, reached>>
gateVars == <<now, demo, credentials, inFlight, windows, calls, request, posted>>
vars == <<part, pilotVars, judgeVars, gateVars>>

-----------------------------------------------------------------------------
P == INSTANCE MerchantPilot WITH
       MaxSessions <- PilotSessions, MaxTime <- PilotTime, now <- pilotNow
J == INSTANCE JudgeRuns WITH MaxTime <- JudgeTime, now <- judgeNow
A == INSTANCE Admission WITH
       PerRun <- PerInvestigation, Hour <- ModelHour, MaxTime <- AdmissionTime,
       live <- credentials

ASSUME PilotAssumption == P!PilotAssumption
ASSUME JudgeAssumption == J!JudgeAssumption
ASSUME AdmissionAssumption == A!AdmissionAssumption

Init ==
  /\ part \in {"pilot", "judge", "gate"}
  /\ P!Init /\ J!Init /\ A!Init
  /\ part # "gate" => \A r \in Request : request[r].pc = "never"

Next ==
  \/ part = "pilot" /\ P!Next /\ UNCHANGED <<part, judgeVars, gateVars>>
  \/ part = "judge" /\ J!Next /\ UNCHANGED <<part, pilotVars, gateVars>>
  \/ part = "gate" /\ A!Next /\ UNCHANGED <<part, pilotVars, judgeVars>>

Spec == Init /\ [][Next]_vars

-----------------------------------------------------------------------------
\* However polls overlap and whichever answers are lost, the pilot's verifying
\* flag is up exactly while one request is in /verify (_poll_and_maybe_complete).
OneVerifyAtATime == P!OneVerifyAtATime

\* The flow's trust session never changes once bound, nor is a request to open
\* one in flight beside it (open_trust_session).
SessionStaysBound == P!SessionStaysBound

\* A judge's operator attempts are always paid for, and no hour sees more of
\* them than the deployment allows (reserve_real_run, settle_real_run, _prune_hour).
SpendIsBounded == J!EveryAttemptIsPaid /\ J!HourIsBounded

\* The number of attempts inside the signed bytes is the number ever made
\* (AttemptLog, stamp).
SignedCountIsFinal == J!SignedCountIsFinal

\* The limiters admit a caller exactly up to the limit, unless they are crowded
\* (SlidingWindowLimiter.check).
LimiterHolds == A!LimiterHolds

\* The deployment's key never makes more model calls in an hour than its ceiling
\* (reserve_model_call).
BudgetHolds == A!BudgetHolds
=============================================================================
