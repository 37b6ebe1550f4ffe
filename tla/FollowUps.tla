------------------------------- MODULE FollowUps -------------------------------
(***************************************************************************)
(* What a merchant does after a decision: follow the challenges it asked   *)
(* for, or keep a trust session.  They share no state, so a behaviour is   *)
(* one of the two; each keeps its own clock.                               *)
(***************************************************************************)
EXTENDS Naturals, Sequences, FiniteSets

CONSTANTS
  None,
  \* Challenges
  Creator, Reporter, Key, Method, Result, Asks, AttemptTTL, EventRetention, KeyTTL,
  ChallengeTime,
  \* Sessions
  Session, Owner, MaxTTL, Poll, Retention, MaxPerOwner, MaxCall, SweepEvery, LastCreate,
  SessionTime

VARIABLES
  part,  \* which of the two this behaviour is
  attempts, events, idem, ctx, pc, at, scan, challengeNow, answer, wroteAt,
  sess, kept, monitor, wake, flagged, sweep, sweepDue, now, log, calls

challengeVars == <<attempts, events, idem, ctx, pc, at, scan, challengeNow, answer, wroteAt>>
sessionVars == <<sess, kept, monitor, wake, flagged, sweep, sweepDue, now, log, calls>>
vars == <<part, challengeVars, sessionVars>>

C == INSTANCE Challenges WITH
       Retention <- EventRetention, MaxTime <- ChallengeTime, now <- challengeNow
S == INSTANCE Sessions WITH MaxTime <- SessionTime

ASSUME ChallengeAssumption == C!NameAssumption /\ C!AskAssumption /\ C!NumberAssumption
ASSUME SessionAssumption == S!NoneAssumption /\ S!NumberAssumption

Init ==
  /\ part \in {"challenges", "sessions"}
  /\ C!Init /\ S!Init
  /\ part = "challenges" => sweepDue = 0

Next ==
  \/ part = "challenges" /\ C!Next /\ UNCHANGED <<part, sessionVars>>
  \/ part = "sessions" /\ S!Next /\ UNCHANGED <<part, challengeVars>>

Spec == Init /\ [][Next]_vars

\* The fairness of each component, in the behaviours that are its own.
FairSpec ==
  /\ Spec
  /\ WF_challengeVars(part = "challenges" /\ C!Sweeper)
  /\ WF_challengeVars(part = "challenges" /\ C!Tick)
  /\ \A s \in Session : WF_sessionVars(part = "sessions" /\ S!Monitor(s))
  /\ WF_sessionVars(part = "sessions" /\ S!Sweeper)
  /\ WF_sessionVars(part = "sessions" /\ S!Tick)

-----------------------------------------------------------------------------
\* An attempt has one event exactly when a report resolved it, inside its
\* window; an expiry falls after it (report_event, _expire_if_due).
OneResultInTime == C!OneResult /\ C!NoLateResult

\* What a key answers, to a caller or from its record, is the write of a request
\* just like it, and what the tables say (_finalize_or_replay).
AnswersAgree == C!AnswersAgree /\ C!RecordIsTrue

\* A resolved attempt is not resolved again, and kept for its retention
\* (report_event, purge_followups).
ResolvedOnce == C!ResolvedOnce

\* An attempt nobody reports on is resolved all the same (purge_followups).
EveryAttemptResolves == part = "challenges" => C!EveryAttemptResolves

\* Trust ends at its deadline, but for one operator call in flight, and the
\* number is held exactly as long (_run, _terminate).
TrustEndsOnTime == S!TrustEndsOnTime /\ S!NumberIsForgotten

\* An ending is told once, as the status has it, and can be seen for the
\* retention (_terminate, prune).
EndingIsToldOnce == S!OneTerminalEvent /\ S!EndingIsObservable

\* The operator is asked about a number only while its session is trusted
\* (_run, between its two calls).
NoCallAfterTrust == S!NoCallAfterTrust

\* A session nobody reads or ends is ended and reclaimed (_run, prune).
EverySessionIsReclaimed == part = "sessions" => S!EverySessionIsReclaimed
=============================================================================
