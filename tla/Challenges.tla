------------------------------ MODULE Challenges ------------------------------
(***************************************************************************)
(* Challenge follow-ups (app/db/challenges.py): a merchant opens an        *)
(* attempt on a chain and reports its result, each write under an          *)
(* Idempotency-Key of its own operation.                                   *)
(*                                                                         *)
(* Every call runs on its own thread with its own database session.  A     *)
(* SELECT takes no lock; the first UPDATE, INSERT or DELETE of a session   *)
(* takes the write lock until it commits or rolls back.  So a call is its  *)
(* reads, each a step, and one atomic write.  An attempt is named by the   *)
(* create request whose id it was given.  Ownership is checked by the      *)
(* caller's own attempts being the only ones it can name.                  *)
(***************************************************************************)
EXTENDS Naturals, FiniteSets

CONSTANTS
  Creator,       \* create requests, and the attempts they open
  Reporter,      \* report requests
  Key,           \* Idempotency-Keys
  Method,        \* methods a create may carry
  Result,        \* REPORTABLE_RESULTS
  None,
  AttemptTTL,    \* settings.challenge_attempt_ttl_seconds
  Retention,     \* settings.challenge_followup_retention_seconds
  KeyTTL,        \* settings.idempotency_ttl_seconds
  Asks,          \* what the requests of one behaviour ask, a bound for model checking
  MaxTime        \* bound on the clock, for model checking

Request == Creator \cup Reporter
Value == Method \cup Result

NameAssumption ==
  /\ Creator \cap Reporter = {}
  /\ None \notin Request \cup Key \cup Value
  /\ Result \cap {"absent", "PENDING", "EXPIRED"} = {}
\* A create names a key and a method, a report a key, an attempt and a result.
CreateAsk == [key : Key, target : {None}, value : Method]
ReportAsk == [key : Key, target : Creator, value : Result]
AskAssumption ==
  \A asks \in Asks :
    /\ DOMAIN asks \subseteq Request
    /\ \A r \in DOMAIN asks : asks[r] \in IF r \in Creator THEN CreateAsk ELSE ReportAsk
NumberAssumption ==
  /\ {AttemptTTL, Retention, KeyTTL, MaxTime} \subseteq Nat
  /\ AttemptTTL > 0 /\ Retention > 0

VARIABLES
  attempts,  \* challenge_attempts, by the create request that opened it
  events,    \* challenge_events
  idem,      \* idempotency_records, by operation and key
  ctx,       \* key, target and value each request carries
  pc,        \* where each request is
  at,        \* the `now` each request has read, 0 once it is over
  scan,      \* the overdue attempts the sweeper and a timeline have read
  now,
  \* Observed; no action is guarded by these.
  answer,    \* what each request's caller was told, and by whose write
  wroteAt    \* when a request's write committed

tables == <<attempts, events, idem>>
vars == <<attempts, events, idem, ctx, pc, at, scan, now, answer, wroteAt>>

-----------------------------------------------------------------------------
Status == {"absent", "PENDING", "EXPIRED"} \cup Result
Terminal == Result \cup {"EXPIRED"}

Attempt == [status : Status, expiresAt : Nat, terminalAt : Nat]
Absent == [status |-> "absent", expiresAt |-> 0, terminalAt |-> 0]
Event == [attempt : Creator, result : Result, reportedAt : Nat]

Operation == {"create", "event"}
OperationOf(r) == IF r \in Creator THEN "create" ELSE "event"
\* A fingerprint covers the target and the body; `by` is whose response it is.
Saved == [by : Request \cup {None}, target : Creator \cup {None},
          value : Value \cup {None}, at : Nat]
Nothing == [by |-> None, target |-> None, value |-> None, at |-> 0]

Scanner == {"timeline", "sweeper"}
AtRest == [phase |-> "idle", due |-> {}, at |-> 0]
AnswerKind == {"none", "ok", "key_reused", "not_found", "not_pending", "error"}

TypeOK ==
  /\ attempts \in [Creator -> Attempt]
  /\ events \subseteq Event
  /\ idem \in [Operation -> [Key -> Saved]]
  /\ ctx \in [Request -> [key : Key \cup {None}, target : Creator \cup {None},
                          value : Value \cup {None}]]
  /\ pc \in [Request -> {"idle", "lookup", "read", "expire", "write", "reread", "over"}]
  /\ \A r \in Request : pc[r] # "idle" => ctx[r].key \in Key /\ ctx[r].value \in Value
  /\ at \in [Request -> Nat]
  /\ scan \in [Scanner -> [phase : {"idle", "expire", "purge"}, due : SUBSET Creator, at : Nat]]
  /\ now \in Nat
  /\ answer \in [Request -> [kind : AnswerKind, by : Request \cup {None}]]
  /\ wroteAt \in [Request -> Nat]

Init ==
  /\ attempts = [a \in Creator |-> Absent]
  /\ events = {}
  /\ idem = [o \in Operation |-> [k \in Key |-> Nothing]]
  /\ ctx = [r \in Request |-> [key |-> None, target |-> None, value |-> None]]
  /\ pc = [r \in Request |-> "idle"]
  /\ at = [r \in Request |-> 0]
  /\ scan = [s \in Scanner |-> AtRest]
  /\ now = 0
  /\ answer = [r \in Request |-> [kind |-> "none", by |-> None]]
  /\ wroteAt = [r \in Request |-> 0]

-----------------------------------------------------------------------------
Go(r, place) == pc' = [pc EXCEPT ![r] = place]
\* The answer; the session and the clock it read end with it.
Tell(r, kind, by) ==
  /\ answer' = [answer EXCEPT ![r] = [kind |-> kind, by |-> by]]
  /\ at' = [at EXCEPT ![r] = 0]
  /\ Go(r, "over")

SavedFor(r) == idem[OperationOf(r)][ctx[r].key]
\* hmac.compare_digest(existing.request_fingerprint, fingerprint)
SameRequest(r) == SavedFor(r).target = ctx[r].target /\ SavedFor(r).value = ctx[r].value

\* A record exists under the key: replay it, or refuse the reuse.
AnswerSaved(r) ==
  IF SameRequest(r) THEN Tell(r, "ok", SavedFor(r).by) ELSE Tell(r, "key_reused", None)

\* _finalize_or_replay, when its INSERT finds no such key.
SaveAnswer(r) ==
  /\ SavedFor(r) = Nothing
  /\ idem' = [idem EXCEPT ![OperationOf(r)][ctx[r].key] =
                [by |-> r, target |-> ctx[r].target, value |-> ctx[r].value, at |-> now]]
  /\ wroteAt' = [wroteAt EXCEPT ![r] = now]
  /\ Tell(r, "ok", r)

Resolved(a, status, t) ==
  [status |-> status, expiresAt |-> attempts[a].expiresAt, terminalAt |-> t]

\* _expire_if_due as another session reads it: strictly past its window.
Due(a, t) == attempts[a].status = "PENDING" /\ t > attempts[a].expiresAt

-----------------------------------------------------------------------------
(* Every request *)

\* The asks of the requests made so far are among these.
Together(asks) ==
  \A r \in Request : pc[r] # "idle" => r \in DOMAIN asks /\ ctx[r] = asks[r]

Arrive(r) ==
  /\ pc[r] = "idle"
  /\ \E asks \in Asks :
       /\ r \in DOMAIN asks /\ Together(asks)
       /\ ctx' = [ctx EXCEPT ![r] = asks[r]]
  /\ Go(r, "lookup")
  /\ UNCHANGED <<tables, at, scan, now, answer, wroteAt>>

\* _reserve_idempotency; a create then reads the clock for created_at.
Lookup(r) ==
  /\ pc[r] = "lookup"
  /\ IF SavedFor(r) # Nothing
     THEN AnswerSaved(r)
     ELSE /\ Go(r, IF r \in Creator THEN "write" ELSE "read")
          /\ at' = [at EXCEPT ![r] = IF r \in Creator THEN now ELSE @]
          /\ UNCHANGED answer
  /\ UNCHANGED <<tables, ctx, scan, now, wroteAt>>

\* Mutant: whatever record won is replayed, its fingerprint not compared.
RereadReplaysAny(r) ==
  /\ pc[r] = "reread"
  /\ Tell(r, IF SavedFor(r) # Nothing THEN "ok" ELSE "error", SavedFor(r).by)
  /\ UNCHANGED <<tables, ctx, scan, now, wroteAt>>

\* The INSERT lost: the session was rolled back and the winner is read.  If
\* retention has removed it meanwhile, the IntegrityError is raised.
Reread(r) ==
  /\ pc[r] = "reread"
  /\ IF SavedFor(r) # Nothing THEN AnswerSaved(r) ELSE Tell(r, "error", None)
  /\ UNCHANGED <<tables, ctx, scan, now, wroteAt>>

\* The database was locked for too long, or the process died: rolled back.
Abort(r) ==
  /\ pc[r] \notin {"idle", "over"}
  /\ Tell(r, "error", None)
  /\ UNCHANGED <<tables, ctx, scan, now, wroteAt>>

-----------------------------------------------------------------------------
(* create_attempt *)

\* The attempt and the idempotency record, in one transaction.
CreateCommits(c) ==
  /\ c \in Creator /\ pc[c] = "write"
  /\ SaveAnswer(c)
  /\ attempts' = [attempts EXCEPT ![c] =
                    [status |-> "PENDING", expiresAt |-> at[c] + AttemptTTL, terminalAt |-> 0]]
  /\ UNCHANGED <<events, ctx, scan, now>>

\* Mutant: a report's UPDATE outlives the INSERT that failed after it.
LosesKeyKeepsResult(r) ==
  /\ pc[r] = "write"
  /\ r \in Reporter /\ attempts[ctx[r].target].status = "PENDING"
  /\ SavedFor(r) # Nothing
  /\ attempts' = [attempts EXCEPT ![ctx[r].target] = Resolved(ctx[r].target, ctx[r].value, at[r])]
  /\ Go(r, "reread") /\ at' = [at EXCEPT ![r] = 0]
  /\ UNCHANGED <<events, idem, ctx, scan, now, answer, wroteAt>>

\* The key was inserted by another request since it was looked up: the attempt
\* or the result written before the INSERT is rolled back with it.
LosesKey(r) ==
  /\ pc[r] = "write"
  /\ r \in Reporter => attempts[ctx[r].target].status = "PENDING"
  /\ SavedFor(r) # Nothing
  /\ Go(r, "reread") /\ at' = [at EXCEPT ![r] = 0]
  /\ UNCHANGED <<tables, ctx, scan, now, answer, wroteAt>>

-----------------------------------------------------------------------------
(* report_event *)

\* The attempt as this session reads it, and the clock.
ReportReads(r) ==
  LET a == ctx[r].target IN
  /\ pc[r] = "read"
  /\ \/ attempts[a].status = "absent" /\ Tell(r, "not_found", None)
     \/ attempts[a].status \in Terminal /\ Tell(r, "not_pending", None)
     \/ /\ attempts[a].status = "PENDING"
        /\ at' = [at EXCEPT ![r] = now]
        /\ Go(r, IF Due(a, now) THEN "expire" ELSE "write")
        /\ UNCHANGED answer
  /\ UNCHANGED <<tables, ctx, scan, now, wroteAt>>

\* _expire_if_due: the compare-and-swap, committed if it won.
ReportExpires(r) ==
  LET a == ctx[r].target IN
  /\ pc[r] = "expire"
  /\ IF attempts[a].status = "PENDING"
     THEN /\ attempts' = [attempts EXCEPT ![a] = Resolved(a, "EXPIRED", at[r])]
          /\ Tell(r, "not_pending", None)
     ELSE Go(r, "write") /\ UNCHANGED <<attempts, at, answer>>
  /\ UNCHANGED <<events, idem, ctx, scan, now, wroteAt>>

\* The compare-and-swap won: result, event and idempotency record together.
ReportCommits(r) ==
  LET a == ctx[r].target IN
  /\ r \in Reporter /\ pc[r] = "write"
  /\ attempts[a].status = "PENDING"
  /\ SaveAnswer(r)
  /\ attempts' = [attempts EXCEPT ![a] = Resolved(a, ctx[r].value, at[r])]
  /\ events' = events \cup {[attempt |-> a, result |-> ctx[r].value, reportedAt |-> at[r]]}
  /\ UNCHANGED <<ctx, scan, now>>

\* The compare-and-swap lost to another report or to an expiry.
ReportLoses(r) ==
  /\ r \in Reporter /\ pc[r] = "write"
  /\ attempts[ctx[r].target].status # "PENDING"
  /\ Tell(r, "not_pending", None)
  /\ UNCHANGED <<tables, ctx, scan, now, wroteAt>>

-----------------------------------------------------------------------------
(* timeline, purge_followups and purge_idempotency_records *)

\* The overdue attempts, read without a lock.
ScanReads(s) ==
  /\ scan[s].phase = "idle"
  /\ s = "sweeper" \/ \E a \in Creator : Due(a, now)
  /\ scan' = [scan EXCEPT ![s] =
                [phase |-> "expire", due |-> {a \in Creator : Due(a, now)}, at |-> now]]
  /\ UNCHANGED <<tables, ctx, pc, at, now, answer, wroteAt>>

\* The sweeper has followups to purge; the timeline is done with its clock.
ScanMovesOn(s) ==
  scan' = [scan EXCEPT ![s] =
             IF s = "sweeper" THEN [@ EXCEPT !.phase = "purge", !.due = {}] ELSE AtRest]

\* Mutants: expire what was read without looking again; forget to commit.
ScanExpiresBlindly(s) ==
  /\ scan[s].phase = "expire"
  /\ attempts' = [a \in Creator |->
       IF a \in scan[s].due THEN Resolved(a, "EXPIRED", scan[s].at) ELSE attempts[a]]
  /\ ScanMovesOn(s)
  /\ UNCHANGED <<events, idem, ctx, pc, at, now, answer, wroteAt>>
ScanRollsBack(s) ==
  /\ scan[s].phase = "expire"
  /\ ScanMovesOn(s)
  /\ UNCHANGED <<tables, ctx, pc, at, now, answer, wroteAt>>

\* Each is expired if it is still PENDING, and the session commits.
ScanExpires(s) ==
  /\ scan[s].phase = "expire"
  /\ attempts' = [a \in Creator |->
       IF a \in scan[s].due /\ attempts[a].status = "PENDING"
       THEN Resolved(a, "EXPIRED", scan[s].at) ELSE attempts[a]]
  /\ ScanMovesOn(s)
  /\ UNCHANGED <<events, idem, ctx, pc, at, now, answer, wroteAt>>

\* The followups that have been terminal for the retention, and their events.
SweepPurges ==
  LET old == {a \in Creator :
                attempts[a].status \in Terminal
                /\ attempts[a].terminalAt + Retention <= scan["sweeper"].at}
  IN
  /\ scan["sweeper"].phase = "purge"
  /\ attempts' = [a \in Creator |-> IF a \in old THEN Absent ELSE attempts[a]]
  /\ events' = {e \in events : e.attempt \notin old}
  /\ scan' = [scan EXCEPT !["sweeper"] = AtRest]
  /\ UNCHANGED <<idem, ctx, pc, at, now, answer, wroteAt>>

PurgeKeys ==
  /\ \E o \in Operation, k \in Key : idem[o][k] # Nothing /\ idem[o][k].at + KeyTTL <= now
  /\ idem' = [o \in Operation |-> [k \in Key |->
       IF idem[o][k].at + KeyTTL <= now THEN Nothing ELSE idem[o][k]]]
  /\ UNCHANGED <<attempts, events, ctx, pc, at, scan, now, answer, wroteAt>>

Tick ==
  /\ now < MaxTime
  /\ now' = now + 1
  /\ UNCHANGED <<tables, ctx, pc, at, scan, answer, wroteAt>>

Sweeper == ScanReads("sweeper") \/ ScanExpires("sweeper") \/ SweepPurges

Next ==
  \/ \E r \in Request : Arrive(r) \/ Lookup(r) \/ LosesKey(r) \/ Reread(r) \/ Abort(r)
  \/ \E c \in Creator : CreateCommits(c)
  \/ \E r \in Reporter :
       ReportReads(r) \/ ReportExpires(r) \/ ReportCommits(r) \/ ReportLoses(r)
  \/ ScanReads("timeline") \/ ScanExpires("timeline")
  \/ Sweeper
  \/ PurgeKeys \/ Tick

Spec == Init /\ [][Next]_vars

\* The retention loop survives a failed sweep and runs again; time passes.
FairSpec == Spec /\ WF_vars(Sweeper) /\ WF_vars(Tick)

-----------------------------------------------------------------------------
(* Properties *)

\* However reports, expiries and retries race, an attempt has one event exactly
\* when it was resolved by a report, and the two say the same.
OneResult ==
  \A a \in Creator :
    LET found == {e \in events : e.attempt = a} IN
    IF attempts[a].status \in Result
    THEN found = {[attempt |-> a, result |-> attempts[a].status,
                   reportedAt |-> attempts[a].terminalAt]}
    ELSE found = {}

\* A result was reported inside the attempt's window and an expiry after it, by
\* the clock each caller read before it wrote.
NoLateResult ==
  \A a \in Creator :
    /\ attempts[a].status \in Result => attempts[a].terminalAt <= attempts[a].expiresAt
    /\ attempts[a].status = "EXPIRED" => attempts[a].terminalAt > attempts[a].expiresAt

\* Who was answered from a record is answered with the write of a request just
\* like it, and two writes under one key are the key's lifetime apart.
AnswersAgree ==
  /\ \A r \in Request : answer[r].kind = "ok" =>
       LET b == answer[r].by IN
       /\ answer[b] = [kind |-> "ok", by |-> b]
       /\ ctx[b] = ctx[r] /\ OperationOf(b) = OperationOf(r)
  /\ \A r, s \in Request :
       /\ r # s /\ OperationOf(r) = OperationOf(s) /\ ctx[r].key = ctx[s].key
       /\ answer[r].by = r /\ answer[s].by = s
       => \/ wroteAt[r] + KeyTTL <= wroteAt[s]
          \/ wroteAt[s] + KeyTTL <= wroteAt[r]

\* What an idempotency record would replay is what the tables say, for as long
\* as they say anything.
RecordIsTrue ==
  \A k \in Key :
    LET saved == idem["event"][k] IN
    saved # Nothing => attempts[saved.target].status \in {saved.value, "absent"}

\* A resolved attempt is never resolved again; it only goes, once retention has
\* passed since it was resolved.
ResolvedOnce ==
  [][\A a \in Creator :
       attempts[a].status \in Terminal /\ attempts'[a] # attempts[a] =>
         attempts'[a] = Absent /\ attempts[a].terminalAt + Retention <= now]_vars

\* An attempt nobody reports on is resolved all the same: again and again there
\* is none left PENDING that time can still overtake, and each is PENDING once.
EveryAttemptResolves ==
  []<>(\A a \in Creator : attempts[a].status = "PENDING" => attempts[a].expiresAt >= MaxTime)

\* routes_challenge.py: "a retry with the same key replays it".
RetryReplays ==
  \A r, s \in Reporter :
    ctx[r] = ctx[s] /\ answer[s] = [kind |-> "ok", by |-> s] /\ SavedFor(s).by = s
      => answer[r].kind # "not_pending"

-----------------------------------------------------------------------------
(* The inductive invariant the proofs use *)

\* A request that is over stays so: an attempt is opened by it at most once.
AttemptsAreOpenedOnce ==
  \A a \in Creator : attempts[a].status # "absent" => pc[a] = "over"

\* What a report has read of its attempt, and the clock it read with it, still
\* decide whether the report is in time.
ReportersHaveRead ==
  \A r \in Reporter :
    LET a == attempts[ctx[r].target] IN
    /\ pc[r] # "idle" => ctx[r].target \in Creator /\ ctx[r].value \in Result
    /\ pc[r] \in {"expire", "write"} => pc[ctx[r].target] = "over"
    /\ pc[r] = "expire" /\ a.status = "PENDING" => at[r] > a.expiresAt
    /\ pc[r] = "write" /\ a.status = "PENDING" => at[r] <= a.expiresAt

ScannersHaveRead ==
  \A s \in Scanner :
    /\ scan[s].at <= now
    /\ \A a \in scan[s].due :
         pc[a] = "over" /\ (attempts[a].status = "PENDING" => scan[s].at > attempts[a].expiresAt)

\* A record is the write of a request that is over, and says what it asked.
RecordsAreWrites ==
  \A o \in Operation, k \in Key :
    LET saved == idem[o][k] IN
    saved # Nothing =>
      /\ saved.by \in Request /\ OperationOf(saved.by) = o
      /\ ctx[saved.by] = [key |-> k, target |-> saved.target, value |-> saved.value]
      /\ answer[saved.by] = [kind |-> "ok", by |-> saved.by]
      /\ saved.at = wroteAt[saved.by]
      /\ o = "event" => saved.target \in Creator /\ pc[saved.target] = "over"

\* A request is answered once, at its end; who wrote holds its key for its lifetime.
AnswersAreFinal ==
  \A r \in Request :
    /\ answer[r].kind # "none" => pc[r] = "over"
    /\ answer[r].by # None => answer[r].kind = "ok"
    /\ answer[r].kind = "ok" => answer[r].by \in Request
    /\ answer[r].by = r => SavedFor(r).by = r \/ wroteAt[r] + KeyTTL <= now

IInv ==
  /\ AttemptsAreOpenedOnce
  /\ ReportersHaveRead
  /\ ScannersHaveRead
  /\ RecordsAreWrites
  /\ AnswersAreFinal
  /\ OneResult
  /\ NoLateResult
  /\ AnswersAgree
  /\ RecordIsTrue
=============================================================================
