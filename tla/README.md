# Isnad in TLA+

Isnad is a FastAPI service that decides, with signed evidence, whether an
interaction with a phone number can be trusted.  It spends real money (operator
API calls) on a merchant's behalf, holds short-lived secrets (authorization
states, access tokens, raw phone numbers), and keeps its promises across
retries, cancelled requests, restarts and a retention sweeper.  These modules
model the parts of it where those promises are kept or broken by the order of
things.

The process is one worker on one event loop (README.md:493, Dockerfile:123).
Three kinds of concurrency meet in it: coroutines interleaving at their awaits,
worker threads (`asyncio.to_thread`) that keep running when the coroutine that
awaited them is cancelled, and one retention thread.  The database is SQLite in
WAL mode or PostgreSQL: a SELECT takes no lock, a transaction's writes are
atomic, and a read followed by a write is two steps.

## Inventory

| Part | State it keeps | Operations | Talks to | What is hard |
|---|---|---|---|---|
| Verification (`api/verification_service.py`, `db/operations.py`, `db/store.py`) | operation rows, chains, cache entries | reserve, investigate, save, mark uncertain, release, replay, remember, purge | investigator, vault, cache, sweeper | races for a key, cancellation, crash after spend, threads that outlive their request |
| Consent (`consent.py`, `api/routes_consent.py`) | records, states, tokens (in memory) | create, callback, verify, poll, sweep | operator's authorization server, investigator | late answers, replayed callbacks, expiry during an await, capacity |
| Challenge follow-ups (`db/challenges.py`) | attempts, events, idempotency records | create, report, timeline, purge | chains, sweeper | compare-and-swap races, retries, expiry at the limit |
| Trust sessions (`session/manager.py`) | sessions, monitor tasks, phone numbers | create, read, end, monitor, prune | provider, event stream | monitor racing end and TTL |
| Outcome labels (`db/outcomes.py`) | append-only labels with a supersede chain | record, correct, purge | chains | one head per dimension under concurrent corrections |
| Network conditions (`network_conditions.py`) | subscriptions, events | create, query, delete, accept event, expire, purge | operator subscriptions | the remote side and the local row disagree |
| Judge access (`judge/access.py`) | invitations, sessions, run reservations | mint, redeem, reserve, settle | verification | limits under concurrency, refunds |
| Investigator, planner, policy (`agent/*`, `policy/*`) | belief, budget, evidence chain of one run | plan, gather, gate, decide | providers, model | budget, gates that may only make a decision more careful |
| Event stream and journal (`events.py`, `db/run_events.py`) | subscriber queues, journal rows | emit, subscribe, replay, purge | console | sequence numbers, gaps, drops |
| Verified caller (`announce.py`, `screening.py`, `velocity.py`) | announcements, screening events | announce, consume, screen | registry | one consumption per announcement |
| Admission (`api/request_limits.py`, `api/rate_limit.py`, `api/deps.py`, `runtime_keys.py`, `model_budget.py`) | in-flight count, windows, credentials, model calls | admit, reserve | every route | limits, checked before and spent later |
| Operator providers (`providers/*`) | the thread pool | gather, enrich_timing, consent calls | operator SDK | time-outs that give up on a thread, not on its call |
| Merchant pilot (`demo/merchant_pilot/app.py`) | flows, their locks | create, poll, trust session, swap, release, report, sweep | Isnad over HTTP | lost answers, two tabs, a thread lock on an event loop |
| Sender registry (`registry/directory.py`) | entries, blocks | load, lookup, check a claim | screening | one number, two owners |
| Vault, presentation, shell, proof shares, privacy page, scripts | - | - | - | cryptography, wording, wiring: not modelled |

`PROJECT.json` lists every component with its status, and every hazard with its
line and the properties that cover it.

## The modules

| Module | Models | Run |
|---|---|---|
| `VerificationOperations`, `ChargeLedger`, `VerificationOperationsProofs` | the idempotent verification; what it promises; the proofs | `verification`, `verification_orphan` |
| `Consent`, `ConsentProofs` | number verification consents; the proofs | `consent` |
| `Challenges` | challenge attempts and their reports | `follow_ups` |
| `Sessions` | trust sessions and their monitors | `follow_ups` |
| `FollowUps`, `FollowUpsProofs` | the two of them, what follows a verification; the proofs | `follow_ups` |
| `Policy`, `Investigator` | one investigation | `investigator` |
| `OperatorLinks`, `OperatorCalls` | providers, pool, time-outs, dates | `operators` |
| `InvestigatorProofs` | proofs about these three | - |
| `NetworkConditions` | congestion subscriptions | `network_conditions` |
| `LabelLine`, `OutcomeLabels` | labels, corrections, the tab that reports them | `outcome_labels` |
| `Journal`, `Console` | journal, fan-out, streams, the judge page | `console` |
| `RouteProofs` | proofs about these three | - |
| `Screening`, `ScreeningProofs` | announcements, registry, velocity, both tiers; the proofs | `screening`, `screening_second_call` |
| `MerchantPilot` | the pilot harness's flow | `demonstrations` |
| `JudgeRuns` | a judge's real operator runs | `demonstrations` |
| `Admission` | what a request passes before it may do any of this | `demonstrations` |
| `Demonstrations`, `DemonstrationsProofs` | the three of them; the proofs | `demonstrations` |
| `SumLemmas` | lemmas about sums over finite sets, for the proofs | - |

`OperatorLinks`, `LabelLine` and `Journal` hold what a component shows and what is
promised of it; `OperatorCalls`, `OutcomeLabels` and `Console` extend them with the
steps.  A proof module extends the former and instantiates the latter, so a theorem
and a run speak of the same property.

`VerificationOperations` implements `ChargeLedger` (`INSTANCE ... WITH`, a property
of `verification` and a theorem).  `Investigator` extends `Policy`, which is pure.
`JudgeRuns` composes the judge's allowance, the paired provider and the bounded
transport below the SDK; `OutcomeLabels` composes the service with its client;
`Console` the journal, the bus and the page; `Screening` the announcements, the
registry and the velocity store.

`FollowUps` puts `Challenges` and `Sessions` side by side, and `Demonstrations`
`MerchantPilot`, `JudgeRuns` and `Admission`; `MCFollowUps` and `MCDemonstrations`
are their instances.  The parts share no state, so a behaviour is one of them from
its first state on (the variable `part`), and each part's fairness holds in its own
behaviours; nothing is lost but a product of independent interleavings.  Properties that pack several parts of one
question (`LinksAreHonest`, `VerdictIsSupported`) are conjunctions of named ones.

What is proved is proved for all values of the constants that satisfy the named
assumptions.  Liveness is left to TLC throughout: no theorem is about fairness.
Recursive definitions are mostly left to it too: the library's induction theorems
take an operator as a parameter, which the provers cannot instantiate.
`SumLemmas` goes round that for sums over finite sets: `PartsInduction` is
induction over the parts of a finite set with a set as its parameter, proved from
the well-foundedness of the numbers, and from it follow what a sum is, that it is
its terms in any order (`SumWithout`), what one more or one changed term does to it
(`SumMore`, `SumChanged`), and that sums grow with their terms and add up
(`SumAtMost`, `SumPlus`).

Every safety invariant and every action property of the passing runs is also a
theorem, with one exception: `WithinBudget`, proved for one check at a time and
not true of every policy with a parallel batch (see below).  A theorem about an
instanced module (`L!` is `OutcomeLabels`, `K!` `Console`, `O!` `OperatorCalls`, `A!`
`Admission`) has that module's named assumptions as its hypotheses; TLC evaluates
the same assumptions wherever the module is extended.

What could come next: the retention loop's order, in which one table's failure
starves those after it; proof shares; by how much a parallel batch can overdraw.

## VerificationOperations

One `Attempt` is one `POST /v1/verify` with an `Idempotency-Key`.  `pc` is where
its coroutine is, `saver` and `marker` its `store.save` and `mark_uncertain`
threads, `rows` the `verification_operations` table, `chains` the signed chains,
`cache` the response cache, `doomed` what the sweeper has selected and not yet
deleted.

| Code | Actions |
|---|---|
| `cache_get`, `idempotency_state_response` | `CacheHit`, `CacheMiss` |
| `operations.reserve` and the answer to a conflict | `Reserve`, `ReserveConflict`, `AnswerExisting`, `DetachedReserve` |
| the try block of `execute` | `StartWork`, `Investigated`, `Respond`, `BuildFails`, `Release`, `ReleaseFails`, `FailAfterWork` |
| cancellation outside it | `CancelOutsideTry` |
| `store.save` | `SaveRead`, `SaveCommit`, `SaveAborts` |
| `operations.mark_uncertain` | `MarkRead`, `MarkWrite`, `MarkAborts` |
| `operations.purge_expired` | `SweepSelect`, `SweepDelete` |
| `remember`, eviction | `Remember`, `CacheLose` |
| environment | `Crash`, `Tick` |

`ChargeLedger` states the promise without rows or threads: one claimant per key,
only the claimant charges, a charged claim is forgotten only after the window,
its result is its own chain.  The refinement reads a row as a claim.

Assumptions.  `FlightAssumption`: a request and the threads it leaves behind are
over within `MaxFlight`, no longer than the idempotency TTL (86400 s; every
provider call, model call and statement has a timeout), and the TTL is no longer
than the uncertain retention (604800 s).  `by` in a row and the variables named
as observed are history; no guard reads them.

Runs.

* `verification`: two attempts, one key, two bodies, every failure; the safety
  properties, the refinement and liveness.  An original and a retry, before or
  after the purge: the clock (5) reaches past both retentions (TTL 1, uncertain
  retention 2).  One key, because no step reads the row of another; the theorems
  are for any number of attempts and keys.  Fairness, for `EveryRequestEnds`: a
  runnable coroutine and a running thread make progress (the event loop and the
  operating system schedule them) and a save that raised is handled.
* `verification_orphan` shows where the code and its documentation part; see
  Findings.

Proved (`VerificationOperationsProofs`), for every set of attempts, keys and
bodies and all windows that satisfy the assumptions:

* `TypeCorrect`; `Invariance` of `TypeOK /\ IInv`;
* `ChargedOncePerWindow`, `MappingHolds`, `LedgerImplemented`;
* `ObservedInvariance` of `ObservedInv`, `ReplaysAreOriginal`, `UncertainStays`.

The argument.  That no key is charged twice is not inductive: a second charge is
excluded by the row, and the row is excluded from disappearing by how long ago
it was written.  `IInv` adds the missing links.  `RowsAreOwned`: a row belongs
to the attempt that inserted it and holds no chain but that attempt's.
`FlightHolds`: an attempt in flight still holds its row, and is within
`MaxFlight` of reserving it, so the sweeper, which only takes rows older than
the TTL (`DoomedIsStale`), cannot have taken it.  `SpentIsHeld`: an attempt that
spent holds its key for the window.  `Progress` ties threads to coroutines.
`ClaimsAreSpaced` then follows when a row is inserted: the key was free, so
every earlier claimant is out of its window.

`ReplayIsTheOriginal` and `UncertainIsKept` are about what clients observed, which
`IInv` says nothing of.  A replay comes from a row, where `RowsAreOwned` decides,
or from the cache, of which `CacheIsTrue` says that an entry is a committed chain
of its key and body, also one that `remember` writes after the row is gone.
`AnswersAreLast`: what an answered request carries no longer changes.
`MarkIsFirst`: who is about to mark a row has not seen it marked, which makes the
uncertain state one that is entered once.

Only model-checked: `EveryRequestEnds`.

## Consent

`rec` is every `ConsentRecord` object, `records` and `states` the two maps of
`ConsentStore`.  A handler keeps its reference to a record the store has
dropped, so `rec` outlives `records`.  Every store method takes one lock and is
atomic here; a lookup and the call after it run without an await in between, and
only the retention thread could come between them, to do what the second call
does again by itself, so they are one action.  `Read` is also every call that
names somebody else's record or is not ready.  A restart loses every record and
is `Init` with other ids.

Assumption: an awaited operator call is shorter than the terminal retention
(300 s).

Runs.

* `consent`: three consents, two merchants, capacity two, three requests that
  may each be a callback or a verify.  The clock (8) passes the longest a record
  may stay (6); part of `RecordsStandTheirTime` is that every record, whatever became of it,
  has left the store by then.  `Tick` waits for the sweep that is due, which is
  the timer, and `retention.run_forever` survives a failed sweep.

Proved (`ConsentProofs`), for any consents, owners, requests, capacity and times:
`TypeCorrect`, `Invariance` of `IInv`, `OneCodeOneTokenHolds`, `RecordsStand` and the
action property `ExpiryAloneIsRevised`.  The argument is about who waits.  A
request that awaits the operator is alone with its record (`OneWaits`), which the
callback cannot reach any more and the store still has (`WaitingHoldsRecord`); it has
waited for less than `MaxFlight` (`WaitIsShort`), so a record that expired under it
is not past its terminal retention: here the assumption above is used.  With
`StatusTells` no second request can claim the code or the token.  That no record
outstays its time needs `SweptInTime`: each sweep leaves nothing for the one before
the next.  All the run's properties are theorems.

## Challenges

Attempts, events and idempotency records are the three tables.  Each call is its
reads, one step each, and one atomic write: the first UPDATE or INSERT takes the
write lock and the commit ends it.  `scan` is what the sweeper and a timeline
have read and not yet acted on.  `at` is the `now` a call read before it wrote;
both are put back when the session that read them ends, so that a finished call
leaves no clock behind.  `Asks` bounds what TLC's requests ask: each member is what
the requests of one behaviour may carry, and the theorems hold for any `Asks`.

Runs.

* `follow_ups`: two creates, two reports, two keys, two results, the timeline and
  the sweeper, past expiry, purge of the attempts and of the keys.  `MCAsks` has the
  four cases the code tells apart: two creates under one key; two reports of one
  attempt under one key, with the same result or with another; and two reports
  under one key on two attempts.  In the first and the last a request finds its key
  free, writes, and loses the INSERT (`LosesKey`); it is then told the winner's
  response, that the key was reused, or, when the record was purged before the
  second look, the error (`Reread`).  Two reports of one attempt cannot meet at the
  INSERT, because the loser's UPDATE finds the attempt resolved.  A key is written
  twice, by creates and by reports, once the first record is past its lifetime.  An
  overdue attempt is resolved by the sweeper alone.  Fairness: the retention loop
  keeps sweeping and time passes.  `EveryAttemptResolves` says that again and again
  no attempt is left pending that the clock's bound would still let expire; an
  attempt is pending once, so each is resolved.

Proved (`FollowUpsProofs`), for any attempts, reporters, keys and retentions:
`ChallengeInvariance`, `OneResult`, `KeysAgree` and the action property
`ResolutionsStand`.  The reads of a call are steps of their own, so its write acts
on what it read earlier; `ReportersHaveRead` and `ScannersHaveRead` say why that is
sound: if the attempt is still pending, the clock read with it still decides the
same way.  `RecordsAreWrites` and `AnswersAreFinal` tie an idempotency record to the
one request that wrote it and to what that request was answered.

Only model-checked: `EveryAttemptResolves`.

## Sessions

`sess` is every `SessionRecord`, `kept` the manager's dict, `monitor[s]` the place
where a session's task waits: its sleep, or one of its two operator calls.  The
event loop interleaves only there.  Session events carry no run id, so `emit`
does not suspend, and a transition, its event and the forgetting of the number
are one step.  The retention thread shares the dict without a lock: it lists,
then looks at one record at a time, and a create's own prune falls in between
(`SweepLooks` raises, `CreateCollides`).

`log` and `calls` observe the events and the operator calls.

In `follow_ups`: two sessions of one merchant,
TTLs of one to three ticks, a poll of two, calls of up to one; every order of
read, end, expiry, answer and failure, and that a session nobody touches ends.
Fairness: the monitor's sleeps and calls end (operator calls have a timeout), the
retention loop survives a failed sweep, time passes.

Proved (`FollowUpsProofs`), for any sessions, owners and times: `SessionInvariance`,
`TrustEnds`, `EndingsAreToldOnce` and the action property `CallsEndWithTrust`.
`TrustIsWatched` is what makes the deadline hold without a reader: an active
session has a task whose next look, or whose call in flight, began before the
deadline, and a call lasts at most `MaxCall`.

Only model-checked: `EverySessionIsReclaimed`.

## Policy and Investigator

`Policy` is `policy.yaml` and the pure code over it: prior, budget, thresholds,
hypothesis, corroboration, grade, and the deterministic planner's choices.
Scores are log-odds in thousandths, rounded from the file, and a planner's score
is compared by cross-multiplication, so no division is needed.

One behaviour of `Investigator` is one `investigate()`.  `belief`, `budget`, `cost`,
`chain` and `used` are its locals; `phase` is how far it has come; `batch` is the
parallel calls still out, `asks` the model planner's calls, `hole` whether a
signal stayed unresolved.

| Code (`agent/investigator.py`) | Actions |
|---|---|
| local evidence, 123-140 | `ApplyLocal` |
| continuity, 142-184 | `CheckContinuity` |
| held authorization, 186-235 | `UseAuthorization`, `NoAuthorization` |
| `_gather_parallel`, 518-590 | `SkipBatch`, `PickForBatch`, `BatchAnswer`, `SettleBatch`, `BatchDone` |
| the loop's choreography, 267-316 | `Corroborate`, `Attest`, `Enough`, `NothingAffordable`, `BudgetExhausted` |
| the planner's turn, 317-368 | `Investigate`, `PlannerStops` |
| step-up, 370-406 | `StepUp` |
| `_settle_deferred_enrichment`, 783-798 | `SettleDeferred` |
| the gates and the verdict, 408-516 | `Conclude` (`Final`, `Gaps`, `Grade`) |

`Purchase` is the one way all but the batch buy: the call, its answer, the date
call when it fits, and the accounting of both.  The operator may give each check
any of its answers; a model planner may name anything affordable, stop, or not
answer, in which case the deterministic planner chooses.

Run `investigator`: the shipped numbers; requests of each route (sensitive
events, new accounts, cash on delivery, a reverse check with registry evidence, a
returning customer, a held authorization, checks the caller has not subscribed
to), one call at a time and in batches of three, with all three planners;
`MaxAsks` is 6, the setting's default.  Nothing is scaled down but the list of
requests and of answers per check.  Fairness, for `EveryRunEnds`: every awaited
call returns or times out.

Proved (`InvestigatorProofs`), for every policy, set of checks, set of answers
and request that satisfy the assumptions: `TypeCorrect`, `SequentialBudget` (of
`WithinBudget`, one check at a time), `NoCheckTwice`, `AllowsAreSupported`,
`DeclinesAreCorroborated`, `GradesAgree`, `VerdictsAreSupported`, which is the three
before it as the run checks them, and the `Invariance` of `TypeOK /\ IInv` they
follow from; `CorroborationBought` with `BoughtInvariance`; `ReceiptsAddUp`.

The argument.  `Accounts`: what was spent and what is left are the budget, and one
call at a time never overdraws, which needs every path that buys to have looked
at the same balance.  `Standing`: a check is still out, or in the chain and not
paid for, or used, and never two of these; with `Opening` (before the batch only
the continuity check can have been bought) it gives `ChecksAreDistinct`.  `Holes`:
what could not be checked is remembered in `hole`, also for batch answers once
they are settled, which is what the allow gate reads.  The three properties of a
verdict then hold when `Conclude` computes it, and nothing steps after.

`CorroborationIsBought` looks back from a verdict to what its run could have
bought, so `BoughtInv` carries that forward.  `NothingLeftToTry`: a loop left on a
decline left no required check it could afford, and none comes within reach, for
the balance only falls and what was attempted stays attempted.  `DateLeavesRoom`:
after the date of a signal was bought, a check required to corroborate it still
fits, or would not have fitted without the date either.  `ReceiptsAddUp` is a sum over a chain that grows by one row or
by a row and its date; each way to buy adds one term (`SumMore`) or changes one
(`SumChanged`), by what it takes from the balance.

Only model-checked: `EveryRunEnds`, and `WithinBudget` with a batch, which
depends on the numbers: with the shipped prices a batch of three fits, a
`parallel_batch` of four would not, because dates are bought after the whole batch
was priced without them (567-590).

Also seen, and left to the policy's owners: policy.yaml:104-105 says an
unaffordable corroboration lets the decline stand with a gap; the gate
(732-756) turns it into a challenge.

An operator that refuses the continuity date answers `RECYCLING_REFERENCE_INVALID`
(providers/nac.py:466), which no list of unresolved signals names, so a returning
customer can be allowed with continuity never established.  The model's operators
do not give this answer: nothing says what the policy makes of it.

## OperatorCalls

`call` is the awaiting side of a provider call, `job` its SDK thread in the pool of
`nac.py`, `replied` (observed) what the operator answered.  `wait_for` gives up on the wait: a queued
job is cancelled, a running one keeps its worker until the SDK's time-out.
`Reading` is what `_gather_sync` makes of each answer, `Lacking` and `Precondition`
the inputs it refuses to ask without, `Availability` how a date is normalized.
The provider is any a build may deploy.

`operators`: one worker, so that one silent operator fills the pool, and three
calls: a judge's paired check, a swap that buys its date, and any other operation.
`LinksAreHonest`: only an answer to this very check makes a fact, and a date that
was asked for is charged.  Time is left out; either end of a call may come first.
Fairness, for `EveryCallEnds`: callbacks run and `wait_for`'s timers fire; nothing is
assumed of the operator.

Proved (`InvestigatorProofs`), for any calls, pool size, deployments and judged
operations, from `OperatorAssumption` and `OperationsAssumption` (an operation is one
the modules know how to read): `CallsInvariance` and `HonestLinks`.
`LinksAreHonest` is not inductive: that a done call's date was charged says nothing
of a call that waits, and a fact could be taken back by a second answer.
`CheckIsOver` says that a link that states a fact has no check left that could
still answer, and that a job is queued only for the call that waits for it;
`DateIsCharged` that from the moment a date is asked for, its call waits for it or
has been charged.

Only model-checked: `EveryCallEnds`.

## NetworkConditions

`row` is the table, `remote` the operator's subscriptions (external: as
`reconcile`'s listing and `delete`'s 404 see them), `creator` and `task` the threads, cut at
each database session and operator call; the quota count and the query's pacing
are under one lock, as in the code.  A create may land after the caller gave up.

`network_conditions`: two subscriptions of a number that may have one, two other
handlers, two callbacks, expiry and purge.  `RemoteIsAccountedFor`: whatever runs
at the operator has a row that owns up to it, and the limit holds there, not only
in the table.  `QueriesArePaced`, `LatestReadingStands`: on the clocks handlers read
before they got the lock.  `Lag` bounds how old such a clock may be.

Proved (`RouteProofs`), for any subscriptions, numbers, handlers, callbacks, limits
and retentions, from `ConditionsAssumption` and `RowAssumption` (the absent value is
no id, time or row): `ConditionsInvariance`, `RemoteAccounted` and the action
properties `QueriesPaced` and `LatestStands`.  What the table says and what the
operator runs are changed by different steps, so `IInv` speaks of what may still
come to run: `MayRun` holds of a create whose answer is out, or given up on, as it
does of a subscription that runs, `DeviceLimitHolds` counts those, and
`RowFollowsCreate` gives the row's status for each stage of its create, never a
terminal one while it may run.  `TaskFollowsRow` says what a handler that let go of
the database may still rely on.  For the pacing, `QueryFollowsRow` relates queries
on their way to each other and to the row's clock, and `AskedFollowsRow` those that
arrived, whose row may be gone.

## OutcomeLabels

`event` is the table of labels, `record` the idempotency records, `call` each
caller's request between its read and its commit.  The pilot's tab freezes an
operation before it sends it and sends it again until it hears an answer; a
merchant repeats calls and reuses keys.

`outcome_labels`: a tab, two merchants' requests, three labels, two values.
`LabelsFormALine` is the compare-and-swap with the unique index behind it;
`AnswersAreHonest` that a replay is of the same body.  Three labels are the fewest
with two corrections of one.

Proved (`RouteProofs`), for any callers, events, keys and retentions:
`LabelTypes`, `LabelInvariance` of `IInv`, `OneLine` and `HonestAnswers`.  Labels may be
purged out of the middle of a line, so the line is not inductive by itself:
`LinksMatch` says the two ends of a correction name each other for as long as both
are kept, and `NamedWereStored` that nothing names an event id before its label
exists, so that a new label cannot complete a link that was dangling.
`RecordsMatch` is the same for the idempotency records a replay reads.

## Console

`journal` is the event table, `subscribers` and `queue` the bus, `page` what the judge
page has drawn and which run it shows, `replay` its read of the journal.  `persist_event` reads the maximum and
writes in two steps on its own thread.  A replay's rows are read at one moment and
drawn at another.

`console`: a page with two runs, two requests of the first racing for numbers,
another owner listening; queues of one, one subscriber, so that drops and
displacements happen.  `NumbersNameOneEvent`: live and replayed copies of an event
are matched by number alone.  `TraceIsOfItsRun`: no row of another run or owner is
drawn.

Proved (`RouteProofs`), for any pages, owners, requests and sizes, from
`ConsoleAssumption`: `ConsoleInvariance`, `NumbersNameOne`, `TraceOfItsRun`.  A number is
safe to take because the journal has none like it, so every number that is
somewhere else must have a row: `NumbersAreRows` collects the places (`Facts`:
queues, pages, rows on their way to a page, the request about to fan out), has them
agree with each other and, while a request may still take a number, be rows.  The
last clause is needed because retention empties the journal under pages that still
show what was in it; it comes after every run, and a module in which it could come
earlier would not satisfy the property (see the last findings).  `RowsAreFiled`
carries the run and the owner from the request through journal and bus to a page
that reads them later.

## Screening

`registry` is one of the files an operator may configure, `announcements` and `uses`
the two tables, `screens` the velocity store, `check` a tenant's question on either tier,
cut between the read of an announcement and the commit of its use.

`screening`: three checks by two tenants, two announcements that expire and are
swept, the stage's reset, and four files of which three give a number two owners
and must not load.  `AnnouncementsAreUsedOnce`: once per tenant, and refused to
nobody who did not use it.  It speaks of uses whose announcement still stood when
they were committed: a `find` that commits after the sweep inserts a use of a row
that is gone, and a second such commit finds no conflict.
`NobodySpeaksForAnother`: no institution for another's number, no tenant's screens
in another's velocity.  Velocity rows are assumed to be retained for at least the
window.  The file that loads lists a short number of the rival's that the announced
line begins with: an entry for a number says nothing of the longer numbers that
begin alike, a block does, and the property is about the entries that are `About`
the number.

Proved in `ScreeningProofs`, for every set of tenants, calls and concurrent checks,
every window and every registry file that loads:

* `OneNumberOneOwner`, a lemma on the registry alone: whichever entry `Lookup`
  answers with, every other entry about the number names the same institution, and
  none but the answer is the number itself.  It rests on what `Loads` refuses and on
  three lemmas about prefixes.
* `UsedOnce` and `NobodySpeaks`: both properties of the run, from `IInv`
  (`Invariance`).  The run's properties are not inductive: a credit says nothing of
  the table.  `UsesAreCredits` ties the two in both directions, a use on record
  belongs to a reader that was credited, and a credit whose announcement stands has
  its use on record; `IdsAreUnique` speaks of every announcement anybody still
  knows of, so that a row the sweep has dropped is not mistaken for a later one;
  `StepsInOrder` says what a check holds at each point; `OwnersAnnounce` carries the
  registry's verdict from the announcement to the credit; `ScreensWereAsked` and
  `CampaignsAreOwn` carry a count of rows, which age and are reset, over to the
  questions that were asked, which are not.
* The assumptions are `ScreeningAssumption`: there are finitely many checks, requests
  and files are well formed, and the console's institution is none of the registry's.

## The demonstrations

`MerchantPilot`: one flow, its requests as coroutines that interleave only where
they await Isnad, the cleanup task, and answers lost before or after Isnad acted.
`frozen` is a coroutine that met `flow.lock` held by a suspended one: a
`threading.Lock` blocks the thread both run on.  `OneVerifyAtATime`,
`SessionStaysBound`.

`JudgeRuns`: sessions that expire or are evicted mid-run, reservations against
three allowances, SDK threads that reach the transport after their wait was given
up, and the settlement of every outcome.  `SpendIsBounded`: each attempt is paid for
and no rolling hour holds more than its allowance.  `SignedCountIsFinal`: the number
inside the signed bytes stays true.  The sizes keep their order (2 checks, 2 per
run, 3 per session and hour), so that the second run meets those limits.  Two open
runs would hold four of the hour's three, so the limit on concurrent runs is never
the one that refuses here; `SpendBounded` holds for every choice of the limits.

`Admission`: the in-flight ceiling around the limiters, the credential, the Lab's
slots and the key a request brings, names or borrows; a model call leaves in a
step of its own, from a planner whose client was built earlier.  `LimiterHolds`
counts what passed in any window and excuses the limiter only when more callers
than it has buckets were live in it; it also says nobody is refused below the
limit.  `BudgetHolds`: no hour sees more calls on the deployment's key, whoever
presented it.  Each mix of requests is small (at most five) and chosen to meet one
limit: a full bucket map, a personal key, a console token that expires, demo mode
off, where judges' sessions and keys are honoured and console tokens are not.  The
clock stops before the budget's hour is over, so a call counted at its start still
counts at the end; `BudgetStands` covers the hour that rolls.

`demonstrations` checks all three (`Demonstrations`): three pilot requests, two runs of two sessions,
seven mixes.  No liveness is claimed: the harness can freeze.

Proved (`DemonstrationsProofs`), for all sizes, from each part's named assumption
(the judge's adds that there are finitely many runs, since a sum is over a finite
set, and that `None` is neither a session nor the record of one):

* `SpendBounded`, `SignedCountStands`.  What a session was charged says nothing of
  what its runs did, so `JudgeRuns!IInv` relates them run by run: `RunsAreReserved`
  (a run has calls and unsettled attempts only while its reservation is open, and
  its log is sealed from its signature or its settlement on), `ChargesAddUp` (what
  is reserved is what the open runs hold, what is used what the settled ones
  spent, both as sums), `SlotsAreHeld` (an open run holds its slots whatever ages)
  and `AttemptsHoldSlots`: the attempts of any hour that reaches to now or later
  are at most what its runs still hold slots for.  The last is the one the code
  keeps by restamping a run's slots when it settles: with the time of the
  reservation, slots would age out before the attempts made under them.
* `VerifiesOnce`, `SessionBound`.  `MerchantPilot!IInv` says which request each
  flag stands for, not only that there is one, and only while the loop runs: a
  request that meets the held lock leaves the flag and its `awaits` apart, and
  after that no handler runs to make it worse.

* `LimitersHold`, `BudgetStands`, from `GateInvariance`, and from
  `AdmissionAssumption` alone: mixes of requests are not bounded.  A limiter's map
  forgets, so what it holds proves nothing of what passed, and `Admission!IInv` says
  it in both directions.  `HitsArePasses`: a bucket's hits are passes of that
  caller, no two the same one and no more than the limit; a refusal then stands for
  as many passes (`RefusedAtTheLimit`).  `PassesAreHits`: a caller's passes of this
  window, since the last moment at which more callers were live than there are
  buckets, are hits of a bucket that is still kept; the step that needs care is
  `Evict`, which drops a live bucket only if the buckets alive are as many as the
  map may hold, and these, with the caller that came, are then such a crowd.  Both
  are stated with injections, because requests of one moment are equal hits.
  `PostsAreCounted` is the same for the calls on the deployment's key, in which
  nothing is evicted early.  The places `inFlight` counts are those of the requests
  inside (`PlacesAreTaken`).

Nothing of the three is left to TLC alone.

## Findings

Two are runs, in which TLC finds the disagreement:

* `verification_orphan`: a crash after work began leaves a `pending` row that
  the sweeper drops at the short TTL; only `uncertain` rows get the long
  retention the documentation promises for unresolved spend.
* `screening_second_call`: `find` looks at the live announcement that expires last
  and gives up when this tenant has used it, so a bank that announces two calls has
  the second refused.

The following are stated in the modules as the documentation has them.  No run
keeps them; each is refuted when its definition is added to the module's run
(`LoopNeverBlocks`, `RetryReplays` through the instance in the MC module):

* `UncertainMeansUnproven`: `mark_uncertain` reads, a save thread left behind by
  cancellation commits `done`, `mark_uncertain` overwrites it (operations.py:132);
  the row then names the chain it says cannot be proved.
* `TerminalIsFinal`: a call in flight at expiry turns `EXPIRED` into `COMPLETED`
  or `FAILED` (consent.py:246), although `_TERMINAL` is documented as final.
* `RetryReplays`: a retry concurrent with its original is answered 409 instead of
  the replay the route documents (challenges.py:194).
* `OperationsAreBillable`: the caller's own registry evidence is counted among the
  billable operations of a verdict (investigator.py:811).
* `WholeTraceIsWhole`: `persist_event` numbers max+1, so a write that failed leaves no
  gap, and the page proves complete a trace that lacks an event (run_events.py:127;
  events.py:57-59 says otherwise).
* `ChargedWasAsked`: `HybridProvider.enrich_timing` reads `self._mock`, which does not
  exist (hybrid.py:70), and a date cancelled in the pool's queue is charged, though
  "the operator was asked either way" (investigator.py:897).
* `LoopNeverBlocks`: `release_order` holds `flow.lock` across its await
  (merchant_pilot/app.py:846); a second release, a poll or the cleanup task then
  blocks the harness for good.

Seen while modelling, and reached by the models without a property of their own:

* A keepalive ends its stream: `wait_for` cancels the subscription's generator
  (routes_console.py:222-232), so after the first idle interval a page hears nothing
  until it reconnects.  The journal covers for it.
* A pilot poll answered before the verdict and delivered after it sets the status
  back (merchant_pilot/app.py:674); the flow is then never minimized.
* A different click replaces the frozen outcome operation, and going back to the
  first sends a new `occurred_at` under the old key: 409 for ever
  (merchant_pilot/app.py:943).
* `_evict` drops live windows when every bucket is live, which its docstring does
  not say (rate_limit.py:52-61); this is the excuse in `LimiterHolds`.
* Journal numbers restart at 1 once a run's rows have been purged (run_events.py:127).
* The hybrid provider's fallback is never used: `NacProvider.gather` answers every
  failure itself.
* policy.yaml's unaffordable corroboration, above.

## Bounds

`Asks` bounds what follows a challenge, as above.  Every `MaxTime` (`ChallengeTime`, `SessionTime`, `PilotTime`, `JudgeTime`,
`AdmissionTime` in the packed runs) bounds the clock in `Tick`.  `MaxFlight`, TTL,
window and retention constants are the code's settings scaled to a few ticks that
keep their order.  `Attempts`, `QueueMax`, `MaxKeys`, `MaxBuckets`, `MaxInFlight` and the
other limits are small enough to be reached.  `MaxAnnouncements`, `PilotSessions` and
`MaxAsks` bound what clients do.  `Consent.Create` stops early enough (`Horizon`) that
the clock does not end before a record's life does.  Runs stop when the clock and
the requests are used up, so deadlock is not checked; that nobody waits for ever is
what the liveness properties say.  Symmetry is used only where no property is about
liveness and no definition chooses among the permuted values.

## Not modelled

Cryptography, serialization, HTTP, wording, the operator's side of a call, pages
other than the judge's, settings and start-up, and offline scripts; they either
change no state or are external.  Proof shares are one row with an expiry, created
under the idempotency table that `Challenges` models.  The retention loop's order is
not modelled; each purge is an action of the module that owns the table.  No
module models two processes: the service is one worker by its own documentation,
and consents, sessions, judge access and limiters are in that process's memory.
The list of components in `PROJECT.json` says why for each.
