------------------------------- MODULE JudgeRuns -------------------------------
(***************************************************************************)
(* Real operator runs of a judge (app/judge/access.py, judge/evidence.py,  *)
(* api/routes_judge.py): sessions and the capability a code buys, the      *)
(* allowance each run reserves and settles, and the attempt log below the  *)
(* SDK (providers/nac_contract.py, nac.py) that says what a run spent.     *)
(*                                                                         *)
(* nac.py runs each SDK call in a pool thread and waits with a timeout;    *)
(* the timeout abandons the wait, never the thread, so a call can reach    *)
(* the transport after its run was signed, or settled.  Runs of the mock   *)
(* source reserve nothing and are left out.  The real source is enabled    *)
(* and codes are right; all of this state dies with the process.           *)
(***************************************************************************)
EXTENDS Integers, FiniteSetsExt, Functions

CONSTANTS
  Run, Session, None,
  Checks,         \* PAIRED_ACTIONS: operator calls one investigation can make
  PerRun,         \* settings.judge_nac_attempts_per_run
  PerSession,     \* settings.judge_nac_attempts_per_session
  PerHour,        \* settings.judge_nac_attempts_per_hour
  MaxConcurrent,  \* settings.judge_max_concurrent_real_runs
  MaxSessions,    \* _MAX_LIVE_SESSIONS
  TTL,            \* settings.judge_session_ttl_seconds
  Hour,           \* the rolling hour of _prune_hour
  MaxTime         \* bound on the clock, for model checking

JudgeSession == [expires : Nat, capability : BOOLEAN, used : Nat, reserved : Nat]
HeldSlots == [n : 0..PerRun, at : 0..MaxTime]
RunRequest ==
  [pc : {"idle", "accepted", "running", "signed", "raised", "settled", "refused"},
   of : {None} \cup Session, signed : {None} \cup Nat, clean : BOOLEAN]
Log == [count : Nat, sealed : BOOLEAN]
SdkCall == [made : 0..Checks, awaited : {"none", "queued", "done"}, late : 0..Checks]

JudgeAssumption ==
  /\ IsFiniteSet(Run)
  /\ None \notin Session \cup JudgeSession
  /\ {Checks, PerRun, PerSession, PerHour, MaxConcurrent, MaxSessions, TTL, Hour,
      MaxTime} \subseteq Nat \ {0}

VARIABLES
  now,
  session,   \* every JudgeSession minted, or None
  live,      \* _sessions: the tokens the store still holds
  open,      \* _reservations: the runs whose reservation is not settled
  active,    \* _active_real_runs
  hourly,    \* _hourly: how many slots each run holds, and since when
  run,       \* each request of /v1/judge/run
  attempts,  \* AttemptLog: the attempts admitted, and whether it is sealed
  call,      \* the SDK call a run awaits, and the calls it has abandoned
  reached    \* observed: attempts that left for the operator, by clock value

vars == <<now, session, live, open, active, hourly, run, attempts, call, reached>>

-----------------------------------------------------------------------------
NoSlots == [n |-> 0, at |-> 0]
FreshRun == [pc |-> "idle", of |-> None, signed |-> None, clean |-> FALSE]

TypeOK ==
  /\ now \in 0..MaxTime
  /\ session \in [Session -> {None} \cup JudgeSession]
  /\ live \subseteq {s \in Session : session[s] # None}
  /\ open \subseteq Run
  /\ active \in Nat
  /\ hourly \in [Run -> HeldSlots]
  /\ run \in [Run -> RunRequest]
  /\ attempts \in [Run -> Log]
  /\ call \in [Run -> SdkCall]
  /\ reached \in [0..MaxTime -> Nat]

Init ==
  /\ now = 0
  /\ session = [s \in Session |-> None]
  /\ live = {}
  /\ open = {}
  /\ active = 0
  /\ hourly = [r \in Run |-> NoSlots]
  /\ run = [r \in Run |-> FreshRun]
  /\ attempts = [r \in Run |-> [count |-> 0, sealed |-> FALSE]]
  /\ call = [r \in Run |-> [made |-> 0, awaited |-> "none", late |-> 0]]
  /\ reached = [t \in 0..MaxTime |-> 0]

-----------------------------------------------------------------------------
\* Sessions.

\* Every lookup sweeps what has expired first.  Only Mint counts the tokens
\* held, so only Mint shows the sweep; snapshot likewise prunes only what
\* reserve_real_run and settle_real_run prune before they count.
Swept == {s \in live : now < session[s].expires}

\* The store drops the session that expires soonest to make room.
Mint(s) ==
  /\ session[s] = None
  /\ \E kept \in SUBSET Swept :
       /\ Cardinality(kept) = Min({Cardinality(Swept), MaxSessions - 1})
       /\ \A k \in kept, d \in Swept \ kept : session[d].expires <= session[k].expires
       /\ live' = kept \cup {s}
  /\ session' = [session EXCEPT ![s] =
       [expires |-> now + TTL, capability |-> FALSE, used |-> 0, reserved |-> 0]]
  /\ UNCHANGED <<now, open, active, hourly, run, attempts, call, reached>>

GrantNac(s) ==
  /\ s \in Swept
  /\ session' = [session EXCEPT ![s].capability = TRUE]
  /\ UNCHANGED <<now, live, open, active, hourly, run, attempts, call, reached>>

-----------------------------------------------------------------------------
\* The allowance.

\* Entries age out unless their run's reservation is still open.
PruneHour(slots, opened) ==
  [r \in Run |-> IF slots[r].at > now - Hour \/ r \in opened THEN slots[r] ELSE NoSlots]

SlotsOf(slots) == SumFunction([r \in Run |-> slots[r].n])

\* The session dependency and _validated_context.
Accept(r, s) ==
  /\ run[r].pc = "idle"
  /\ s \in Swept /\ session[s].capability
  /\ run' = [run EXCEPT ![r].pc = "accepted", ![r].of = s]
  /\ UNCHANGED <<now, session, live, open, active, hourly, attempts, call, reached>>

Admissible(s, slots) ==
  /\ now < session[s].expires /\ s \in live
  /\ active < MaxConcurrent
  /\ PerSession - (session[s].used + session[s].reserved) >= PerRun
  /\ SlotsOf(slots) + PerRun <= PerHour

ReserveRealRun(r) ==
  LET s == run[r].of
      slots == PruneHour(hourly, open)
  IN  /\ run[r].pc = "accepted"
      /\ Admissible(s, slots)
      /\ session' = [session EXCEPT ![s].reserved = @ + PerRun]
      /\ active' = active + 1
      /\ open' = open \cup {r}
      /\ hourly' = [slots EXCEPT ![r] = [n |-> PerRun, at |-> now]]
      /\ run' = [run EXCEPT ![r].pc = "running"]
      /\ UNCHANGED <<now, live, attempts, call, reached>>

\* The hour is pruned on the way unless the session itself had gone.
RefuseRealRun(r) ==
  LET s == run[r].of
      gone == ~(now < session[s].expires /\ s \in live)
  IN  /\ run[r].pc = "accepted"
      /\ ~Admissible(s, PruneHour(hourly, open))
      /\ hourly' = IF gone THEN hourly ELSE PruneHour(hourly, open)
      /\ run' = [run EXCEPT ![r].pc = "refused"]
      /\ UNCHANGED <<now, session, live, open, active, attempts, call, reached>>

-----------------------------------------------------------------------------
\* The investigation: verification_service.execute over the paired provider.

\* A replay answers without a signature; a refusal by the idempotency guard
\* is clean because the log is empty.
ReplayOrRefuse(r) ==
  /\ run[r].pc = "running" /\ call[r].made = 0
  /\ run' = [run EXCEPT ![r].pc = "raised", ![r].clean = attempts[r].count = 0]
  /\ UNCHANGED <<now, session, live, open, active, hourly, attempts, call, reached>>

Gather(r) ==
  /\ run[r].pc = "running" /\ call[r].awaited = "none" /\ call[r].made < Checks
  /\ call' = [call EXCEPT ![r].made = @ + 1, ![r].awaited = "queued"]
  /\ UNCHANGED <<now, session, live, open, active, hourly, run, attempts, reached>>

\* BoundedTransport: the log admits and counts the attempt, or refuses it.
HandleRequest(r) ==
  IF ~attempts[r].sealed /\ attempts[r].count < PerRun
  THEN /\ attempts' = [attempts EXCEPT ![r].count = @ + 1]
       /\ reached' = [reached EXCEPT ![now] = @ + 1]
  ELSE UNCHANGED <<attempts, reached>>

ThreadReachesTransport(r) ==
  /\ \/ /\ call[r].awaited = "queued"
        /\ call' = [call EXCEPT ![r].awaited = "done"]
     \/ /\ call[r].late > 0
        /\ call' = [call EXCEPT ![r].late = @ - 1]
  /\ HandleRequest(r)
  /\ UNCHANGED <<now, session, live, open, active, hourly, run>>

Answered(r) ==
  /\ run[r].pc = "running" /\ call[r].awaited = "done"
  /\ call' = [call EXCEPT ![r].awaited = "none"]
  /\ UNCHANGED <<now, session, live, open, active, hourly, run, attempts, reached>>

\* wait_for gives up; a queued thread goes on without it.
Abandoned(c) ==
  [c EXCEPT !.awaited = "none", !.late = IF c.awaited = "queued" THEN @ + 1 ELSE @]

TimesOut(r) ==
  /\ run[r].pc = "running" /\ call[r].awaited # "none"
  /\ call' = [call EXCEPT ![r] = Abandoned(@)]
  /\ UNCHANGED <<now, session, live, open, active, hourly, run, attempts, reached>>

\* Mutant: the count is signed while the log still admits attempts.
SignUnsealed(r) ==
  /\ run[r].pc = "running" /\ call[r].awaited = "none"
  /\ run' = [run EXCEPT ![r].pc = "signed", ![r].signed = attempts[r].count,
                        ![r].clean = TRUE]
  /\ UNCHANGED <<now, session, live, open, active, hourly, attempts, call, reached>>

\* stamp: seal, then count, then the signature commits to the count.
Sign(r) ==
  /\ run[r].pc = "running" /\ call[r].awaited = "none"
  /\ attempts' = [attempts EXCEPT ![r].sealed = TRUE]
  /\ run' = [run EXCEPT ![r].pc = "signed", ![r].signed = attempts[r].count,
                        ![r].clean = TRUE]
  /\ UNCHANGED <<now, session, live, open, active, hourly, call, reached>>

\* The investigation, or saving what it signed, fails or is cancelled.
Fail(r) ==
  /\ run[r].pc \in {"running", "signed"}
  /\ call' = [call EXCEPT ![r] = Abandoned(@)]
  /\ run' = [run EXCEPT ![r].pc = "raised", ![r].clean = FALSE]
  /\ UNCHANGED <<now, session, live, open, active, hourly, attempts, reached>>

\* Mutant: a failed run is refunded what it was not seen to spend at the time.
SpentAsSigned(r) ==
  IF run[r].signed # None THEN Min({PerRun, run[r].signed}) ELSE 0

\* The finally block: seal, then settle_real_run with the final count.
Spent(r) == IF run[r].clean THEN Min({PerRun, attempts[r].count}) ELSE PerRun

SettledAt(r) == now

SettleRealRun(r) ==
  /\ run[r].pc \in {"signed", "raised"}
  /\ attempts' = [attempts EXCEPT ![r].sealed = TRUE]
  /\ open' = open \ {r}
  /\ active' = active - 1
  /\ session' = [session EXCEPT ![run[r].of].reserved = @ - PerRun,
                                ![run[r].of].used = @ + Spent(r)]
  /\ hourly' = PruneHour([hourly EXCEPT ![r] = [n |-> Spent(r), at |-> SettledAt(r)]], open')
  /\ run' = [run EXCEPT ![r].pc = "settled"]
  /\ UNCHANGED <<now, live, call, reached>>

Tick ==
  /\ now < MaxTime
  /\ now' = now + 1
  /\ UNCHANGED <<session, live, open, active, hourly, run, attempts, call, reached>>

Next ==
  \/ \E s \in Session : Mint(s) \/ GrantNac(s) \/ \E r \in Run : Accept(r, s)
  \/ \E r \in Run :
       \/ ReserveRealRun(r) \/ RefuseRealRun(r) \/ ReplayOrRefuse(r)
       \/ Gather(r) \/ ThreadReachesTransport(r) \/ Answered(r) \/ TimesOut(r)
       \/ Sign(r) \/ Fail(r) \/ SettleRealRun(r)
  \/ Tick

Spec == Init /\ [][Next]_vars

-----------------------------------------------------------------------------
MadeBy(s) == SumFunction([r \in Run |-> IF run[r].of = s THEN attempts[r].count ELSE 0])

\* Whatever runs overlap, fail or time out, an operator attempt is always
\* paid for: a session's attempts never pass what it was charged or still
\* holds reserved, that never passes its allowance, and the slots in use are
\* the open reservations (reserve_real_run, settle_real_run, AttemptLog).
EveryAttemptIsPaid ==
  /\ TypeOK
  /\ active = Cardinality(open) /\ active <= MaxConcurrent
  /\ \A s \in {x \in Session : session[x] # None} :
       /\ MadeBy(s) <= session[s].used + session[s].reserved
       /\ session[s].used + session[s].reserved <= PerSession

\* No hour sees more attempts than the deployment's hourly allowance, even of
\* a run that is slow to settle or of threads that outlive their timeout
\* (_prune_hour and the restamping in settle_real_run).
HourTo(t) == {u \in 0..t : u > t - Hour}
HourIsBounded ==
  \A t \in 0..MaxTime : SumFunctionOnSet(reached, HourTo(t)) <= PerHour

\* The number of outbound attempts inside the signed bytes is the number the
\* run ever made: no abandoned thread gets through after the signature.
SignedCountIsFinal == \A r \in Run : run[r].signed # None => attempts[r].count = run[r].signed

-----------------------------------------------------------------------------
(* The inductive invariant the proofs use *)

\* A run has calls and attempts between its reservation and its settlement; the
\* log it leaves is sealed.
RunIsReserved(r) ==
  /\ r \in open <=> run[r].pc \in {"running", "signed", "raised"}
  /\ run[r].pc \in {"idle", "accepted", "refused"} =>
       /\ attempts[r].count = 0 /\ hourly[r] = NoSlots
       /\ call[r].awaited = "none" /\ call[r].late = 0
  /\ run[r].pc = "settled" \/ run[r].signed # None => attempts[r].sealed
  /\ run[r].pc # "idle" => run[r].of \in Session /\ session[run[r].of] # None
  /\ attempts[r].count <= PerRun
  /\ call[r].late + (IF call[r].awaited = "none" THEN 0 ELSE 1) <= call[r].made

RunsAreReserved == \A r \in Run : RunIsReserved(r)

\* What a session is charged is what each of its runs holds, or spent.
HeldBy(s) == SumFunction([r \in Run |-> IF run[r].of = s /\ r \in open THEN PerRun ELSE 0])
SpentBy(s) ==
  SumFunction([r \in Run |-> IF run[r].of = s /\ run[r].pc = "settled" THEN Spent(r) ELSE 0])

ChargesAddUp ==
  \A s \in Session : session[s] # None =>
    /\ session[s].reserved = HeldBy(s)
    /\ session[s].used = SpentBy(s)
    /\ session[s].used + session[s].reserved <= PerSession

\* An open run holds a run's slots; once settled, the slots of what it spent,
\* for as long as any hour may reach back to it.
SlotsAreHeld ==
  /\ \A r \in Run : (r \in open => hourly[r].n = PerRun) /\ hourly[r].at <= now
  /\ SlotsOf(hourly) <= PerHour

RecentOf(r, t) ==
  IF r \in open THEN attempts[r].count ELSE IF hourly[r].at > t - Hour THEN hourly[r].n ELSE 0

AttemptsHoldSlots ==
  /\ \A t \in now + 1 .. MaxTime : reached[t] = 0
  /\ \A t \in now..MaxTime :
       SumFunctionOnSet(reached, HourTo(t)) <= SumFunction([r \in Run |-> RecentOf(r, t)])

IInv ==
  /\ RunsAreReserved
  /\ active = Cardinality(open) /\ active <= MaxConcurrent
  /\ ChargesAddUp
  /\ SlotsAreHeld
  /\ AttemptsHoldSlots
  /\ HourIsBounded
  /\ SignedCountIsFinal
=============================================================================
