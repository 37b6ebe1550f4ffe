--------------------------- MODULE NetworkConditions ---------------------------
(***************************************************************************)
(* Congestion subscriptions (app/network_conditions.py and its routes):    *)
(* one merchant's rows, and the subscriptions they stand for at the        *)
(* operator.                                                               *)
(*                                                                         *)
(* Every handler runs in a worker thread (asyncio.to_thread), so handlers  *)
(* interleave at each database session and operator call; only the quota   *)
(* count and the query's pacing are under the _reservation lock.  A row's  *)
(* owner scoping, provider_kind and callback token are checked by the code *)
(* before anything below and are fixed here: one owner, one provider, and  *)
(* callers that present the right token.                                   *)
(***************************************************************************)
EXTENDS Naturals, FiniteSets, FiniteSetsExt

CONSTANTS
  Sub,          \* subscription ids; each is asked for at most once
  Device,       \* hashed numbers
  Task,         \* worker threads busy with the other operations
  Event,        \* operator notifications: an event is the time it occurred at
  None,
  TTL,          \* settings.nac_congestion_subscription_ttl_seconds
  Retention,    \* settings.network_condition_retention_seconds
  MaxPerOwner,  \* settings.network_conditions_max_active_per_owner
  MaxPerDevice, \* settings.network_conditions_max_active_per_device
  QueryGap,     \* settings.network_conditions_min_query_interval_seconds
  EventAge,     \* settings.network_conditions_max_event_age_seconds
  MaxEvents,    \* settings.network_conditions_max_events_per_subscription
  Batch,        \* settings.purge_batch_size
  Lag,          \* longest a query waits for the lock after reading the clock
  MaxTime       \* bound on the clock, for model checking

ASSUME ConditionsAssumption ==
  /\ None \notin Sub \cup Device \cup Nat
  /\ Event \subseteq Nat
  /\ {TTL, Retention, MaxPerOwner, MaxPerDevice, QueryGap, EventAge, MaxEvents,
      Batch, Lag, MaxTime} \subseteq Nat

VARIABLES
  row,      \* the NetworkConditionSubscriptionRow of each id, or None
  remote,   \* when the operator ends its subscription for the id, or None
  creator,  \* where the create request for each id is
  events,   \* stored NetworkConditionEventRows of each id
  task,     \* what each worker thread is in the middle of
  now,
  asked     \* observed: the clock of the last query that reached the operator

vars == <<row, remote, creator, events, task, now, asked>>

-----------------------------------------------------------------------------
TERMINAL == {"deleted", "expired", "failed"}
Status == TERMINAL \cup {"pending", "active", "unknown"}
Row == [device : Device, status : Status, providerId : BOOLEAN,
        expiresAt : Nat, lastQuery : Nat \cup {None}]
ASSUME RowAssumption == None \notin Row

Idle == [op |-> "idle"]
Busy == [op : {"remove", "removed", "unremoved", "lookup", "found"}, sub : Sub]
        \cup [op : {"ask"}, sub : Sub, at : Nat]
        \cup [op : {"store"}, sub : Sub, event : Event, victim : Event \cup {None}]

TypeOK ==
  /\ row \in [Sub -> Row \cup {None}]
  /\ remote \in [Sub -> Nat \cup {None}]
  /\ creator \in [Sub -> {"none", "calling", "landed", "late", "done"}]
  /\ events \in [Sub -> SUBSET Event]
  /\ task \in [Task -> {Idle} \cup Busy]
  /\ now \in Nat
  /\ asked \in [Sub -> Nat \cup {None}]

Init ==
  /\ row = [s \in Sub |-> None]
  /\ remote = [s \in Sub |-> None]
  /\ creator = [s \in Sub |-> "none"]
  /\ events = [s \in Sub |-> {}]
  /\ task = [t \in Task |-> Idle]
  /\ now = 0
  /\ asked = [s \in Sub |-> None]

-----------------------------------------------------------------------------
Exists(s) == row[s] # None

\* Expiry is a fact about the clock, except for `unknown`.
EffectiveStatus(s, at) ==
  IF row[s].status \notin TERMINAL \cup {"unknown"} /\ row[s].expiresAt <= at
  THEN "expired" ELSE row[s].status

\* The rows _active_counts counts.
LiveRows(at) ==
  {s \in Sub : Exists(s) /\ (row[s].status = "unknown" \/ EffectiveStatus(s, at) \notin TERMINAL)}

\* The operator still runs the subscription it has for s.
Running(s) == remote[s] # None /\ remote[s] > now

\* A query reads the clock when it starts, and may then wait for the lock; a
\* create that waits only gets a subscription shorter by its wait.
Clock == {at \in 0..now : at + Lag >= now}

\* _mark: whatever the row says now is overwritten, and a missing row is left alone.
Mark(s, status) ==
  row' = IF Exists(s) THEN [row EXCEPT ![s].status = status] ELSE row

\* The row once the operator's id for it is known.
Named(r) == [device |-> r.device, status |-> "active", providerId |-> TRUE,
             expiresAt |-> r.expiresAt, lastQuery |-> r.lastQuery]

-----------------------------------------------------------------------------
(* create                                                                  *)

HasRoom(d, at) ==
  /\ Cardinality(LiveRows(at)) < MaxPerOwner
  /\ Cardinality({s \in LiveRows(at) : row[s].device = d}) < MaxPerDevice

CreateReserves(s, d) ==
  /\ creator[s] = "none"
  /\ HasRoom(d, now)
  /\ row' = [row EXCEPT ![s] = [device |-> d, status |-> "pending", providerId |-> FALSE,
                                expiresAt |-> now + TTL, lastQuery |-> None]]
  /\ creator' = [creator EXCEPT ![s] = "calling"]
  /\ UNCHANGED <<remote, events, task, now, asked>>

\* The operator creates the subscription: while we wait, or after we gave up.
CreateLands(s) ==
  /\ creator[s] \in {"calling", "late"}
  /\ Exists(s)
  /\ remote' = [remote EXCEPT ![s] = row[s].expiresAt]
  /\ creator' = [creator EXCEPT ![s] = IF @ = "calling" THEN "landed" ELSE "done"]
  /\ UNCHANGED <<row, events, task, now, asked>>

\* NotImplementedError: no operator was called, and the reservation is removed.
CreateUnsupported(s) ==
  /\ creator[s] = "calling"
  /\ row' = [row EXCEPT ![s] = None]
  /\ creator' = [creator EXCEPT ![s] = "done"]
  /\ UNCHANGED <<remote, events, task, now, asked>>

\* A definite 4xx: nothing was created.
CreateRejected(s) ==
  /\ creator[s] = "calling"
  /\ Mark(s, "failed")
  /\ creator' = [creator EXCEPT ![s] = "done"]
  /\ UNCHANGED <<remote, events, task, now, asked>>

\* Mutant: a lost answer is treated as a clean failure.
CreateUnansweredFails(s) ==
  /\ creator[s] \in {"calling", "landed"}
  /\ Mark(s, "failed")
  /\ creator' = [creator EXCEPT ![s] = IF @ = "calling" THEN "late" ELSE "done"]
  /\ UNCHANGED <<remote, events, task, now, asked>>

\* A timeout, a 5xx, or an answer without an id: the subscription may exist.
CreateUnanswered(s) ==
  /\ creator[s] \in {"calling", "landed"}
  /\ Mark(s, "unknown")
  /\ creator' = [creator EXCEPT ![s] = IF @ = "calling" THEN "late" ELSE "done"]
  /\ UNCHANGED <<remote, events, task, now, asked>>

CreateAnswered(s) ==
  /\ creator[s] = "landed"
  /\ row' = IF Exists(s) THEN [row EXCEPT ![s] = Named(@)] ELSE row
  /\ creator' = [creator EXCEPT ![s] = "done"]
  /\ UNCHANGED <<remote, events, task, now, asked>>

-----------------------------------------------------------------------------
(* delete                                                                  *)

Begin(t, step) == task[t] = Idle /\ task' = [task EXCEPT ![t] = step]
End(t) == task' = [task EXCEPT ![t] = Idle]
Doing(t, op) == task[t].op = op

\* A deleted row is answered as it is; one that may exist at the operator
\* under an id nobody knows is refused.
DeleteReads(t, s) ==
  /\ Exists(s)
  /\ row[s].status # "deleted"
  /\ row[s].providerId \/ row[s].status \notin {"pending", "unknown"}
  /\ Begin(t, [op |-> IF row[s].providerId THEN "remove" ELSE "removed", sub |-> s])
  /\ UNCHANGED <<row, remote, creator, events, now, asked>>

\* The operator's answer: gone (its 404 and 410 too), or no confirmation,
\* whether or not the deletion happened.
DeleteCalls(t, happened, confirmed) ==
  /\ Doing(t, "remove")
  /\ confirmed => happened
  /\ LET s == task[t].sub IN
     /\ task' = [task EXCEPT ![t].op = IF confirmed THEN "removed" ELSE "unremoved"]
     /\ remote' = IF happened THEN [remote EXCEPT ![s] = None] ELSE remote
  /\ UNCHANGED <<row, creator, events, now, asked>>

DeleteMarks(t) ==
  /\ \/ Doing(t, "removed") /\ Mark(task[t].sub, "deleted")
     \/ Doing(t, "unremoved") /\ Mark(task[t].sub, "unknown")
  /\ End(t)
  /\ UNCHANGED <<remote, creator, events, now, asked>>

-----------------------------------------------------------------------------
(* reconcile                                                               *)

Unreconciled(s) == Exists(s) /\ row[s].status = "unknown" /\ ~row[s].providerId

ReconcileReads(t, s) ==
  /\ Unreconciled(s)
  /\ Begin(t, [op |-> "lookup", sub |-> s])
  /\ UNCHANGED <<row, remote, creator, events, now, asked>>

\* find_congestion_subscription: the listing shows what runs now; it may also fail.
ReconcileLooks(t, answers) ==
  /\ Doing(t, "lookup")
  /\ task' = [task EXCEPT ![t] = IF answers /\ Running(task[t].sub) THEN [@ EXCEPT !.op = "found"]
                                 ELSE Idle]
  /\ UNCHANGED <<row, remote, creator, events, now, asked>>

ReconcileWrites(t) ==
  /\ Doing(t, "found")
  /\ LET s == task[t].sub IN
     row' = IF Unreconciled(s) THEN [row EXCEPT ![s] = Named(@)] ELSE row
  /\ End(t)
  /\ UNCHANGED <<remote, creator, events, now, asked>>

-----------------------------------------------------------------------------
(* query                                                                   *)

Paced(s, at) == row[s].lastQuery # None => at >= row[s].lastQuery + QueryGap

\* Mutant: the pacing clock is checked and not written before the call.
QueryReservesNothing(t, s, at) ==
  /\ Exists(s) /\ EffectiveStatus(s, at) = "active"
  /\ Paced(s, at)
  /\ Begin(t, [op |-> "ask", sub |-> s, at |-> at])
  /\ UNCHANGED <<row, remote, creator, events, now, asked>>

QueryReserves(t, s, at) ==
  /\ Exists(s) /\ EffectiveStatus(s, at) = "active"
  /\ Paced(s, at)
  /\ row' = [row EXCEPT ![s].lastQuery = at]
  /\ Begin(t, [op |-> "ask", sub |-> s, at |-> at])
  /\ UNCHANGED <<remote, creator, events, now, asked>>

QueryCalls(t) ==
  /\ Doing(t, "ask")
  /\ asked' = [asked EXCEPT ![task[t].sub] = task[t].at]
  /\ End(t)
  /\ UNCHANGED <<row, remote, creator, events, now>>

-----------------------------------------------------------------------------
(* accept_event, latest_event                                              *)

NewestEvent(stored) == IF stored = {} THEN 0 ELSE Max(stored)

Fresh(e) == e + EventAge >= now /\ e <= now + EventAge

\* Mutant: a late reading is stored and left to be sorted out.
InOrderUnchecked(s, e) == TRUE

InOrder(s, e) == e >= NewestEvent(events[s])

\* The callback token was handed out by the create call alone.
OperatorKnows(s) == remote[s] # None \/ row[s].providerId

\* A duplicate is answered without a write.
EventReads(t, s, e) ==
  /\ Exists(s) /\ EffectiveStatus(s, now) \notin TERMINAL
  /\ OperatorKnows(s)
  /\ Fresh(e)
  /\ e \notin events[s]
  /\ InOrder(s, e)
  /\ Begin(t, [op |-> "store", sub |-> s, event |-> e,
               victim |-> IF Cardinality(events[s]) >= MaxEvents /\ events[s] # {}
                          THEN Min(events[s]) ELSE None])
  /\ UNCHANGED <<row, remote, creator, events, now, asked>>

\* The commit; the primary key refuses a second row for the same event, and
\* its transaction is rolled back whole.
EventCommits(t) ==
  /\ Doing(t, "store")
  /\ LET s == task[t].sub IN
     events' = IF task[t].event \in events[s] THEN events
               ELSE [events EXCEPT ![s] = (@ \ {task[t].victim}) \cup {task[t].event}]
  /\ End(t)
  /\ UNCHANGED <<row, remote, creator, now, asked>>

-----------------------------------------------------------------------------
(* The retention sweep (retention.purge_once): expire_due, which settles   *)
(* what the clock has already ended, then purge_terminal.  Each reads and  *)
(* writes a batch in one database session, taken as one step.              *)

ABatchOf(S) == {T \in SUBSET S : Cardinality(T) = IF Cardinality(S) <= Batch THEN Cardinality(S) ELSE Batch}

Swept(due) == [s \in Sub |-> IF s \in due THEN [row[s] EXCEPT !.status = "expired"] ELSE row[s]]

Sweep ==
  \E due \in ABatchOf({s \in Sub : Exists(s) /\ EffectiveStatus(s, now) = "expired"}) :
  \E gone \in ABatchOf({s \in Sub : Exists(s) /\ Swept(due)[s].status \in TERMINAL
                                    /\ row[s].expiresAt + Retention < now}) :
    /\ row' = [s \in Sub |-> IF s \in gone THEN None ELSE Swept(due)[s]]
    /\ events' = [s \in Sub |-> IF s \in gone THEN {} ELSE events[s]]
    /\ UNCHANGED <<remote, creator, task, now, asked>>

Tick ==
  /\ now < MaxTime
  /\ now' = now + 1
  /\ UNCHANGED <<row, remote, creator, events, task, asked>>

Next ==
  \/ \E s \in Sub :
       \/ \E d \in Device : CreateReserves(s, d)
       \/ CreateLands(s) \/ CreateUnsupported(s) \/ CreateRejected(s)
       \/ CreateUnanswered(s) \/ CreateAnswered(s)
  \/ \E t \in Task, s \in Sub :
       \/ DeleteReads(t, s) \/ ReconcileReads(t, s)
       \/ \E at \in Clock : QueryReserves(t, s, at)
       \/ \E e \in Event : EventReads(t, s, e)
  \/ \E t \in Task :
       \/ \E happened, confirmed \in BOOLEAN : DeleteCalls(t, happened, confirmed)
       \/ DeleteMarks(t)
       \/ \E answers \in BOOLEAN : ReconcileLooks(t, answers)
       \/ ReconcileWrites(t) \/ QueryCalls(t) \/ EventCommits(t)
  \/ Sweep \/ Tick

Spec == Init /\ [][Next]_vars

-----------------------------------------------------------------------------
\* A subscription that runs at the operator is one our table still owns up to:
\* its row is there and does not say it was deleted or never created
\* (network_conditions.py: a leak is a subscription nobody will ever cancel).
NoLeakedSubscription ==
  \A s \in Sub : Running(s) => Exists(s) /\ row[s].status \notin {"deleted", "failed"}

\* However creates, lost answers, reconciliations and deletes interleave, the
\* operator never runs more subscriptions for one number than the limit: a
\* timeout is not an invitation to create a second one (create, _active_counts).
DeviceLimitHoldsAtOperator ==
  \A d \in Device :
    Cardinality({s \in Sub : Running(s) /\ Exists(s) /\ row[s].device = d}) <= MaxPerDevice

\* What every reachable state keeps, retention included: rows are well formed,
\* account for everything that runs at the operator, and hold it to the limit.
RemoteIsAccountedFor == TypeOK /\ NoLeakedSubscription /\ DeviceLimitHoldsAtOperator

\* A query reaches the operator only QueryGap away, on the clocks their handlers
\* read, from the last one that did, in whatever order the two got the lock.
QueriesArePaced ==
  [][\A t \in Task : Doing(t, "ask") /\ task'[t] = Idle =>
       LET last == asked[task[t].sub] IN
       last # None => \/ task[t].at >= last + QueryGap
                      \/ last >= task[t].at + QueryGap]_vars

\* While a subscription's row exists, the newest stored notification is never
\* replaced by an older one: not by late or concurrent callbacks, and not by
\* the eviction that keeps the table bounded.
LatestReadingStands ==
  [][\A s \in Sub : Exists(s) /\ row'[s] # None
                    => NewestEvent(events'[s]) >= NewestEvent(events[s])]_vars

-----------------------------------------------------------------------------
(* What makes the properties inductive                                     *)

\* The operator runs, or may come to run, a subscription for s.
MayRun(s) ==
  /\ Exists(s) /\ row[s].expiresAt > now
  /\ creator[s] \in {"calling", "late"} \/ remote[s] # None

\* A row says no less than its create has come to.
RowFollowsCreate(s) ==
  /\ creator[s] = "none" => row[s] = None
  /\ creator[s] \in {"none", "calling", "late"} => remote[s] = None
  /\ Running(s) => Exists(s)
  /\ Exists(s) =>
       /\ remote[s] # None => remote[s] = row[s].expiresAt
       /\ row[s].status = "active" => row[s].providerId
       /\ row[s].expiresAt > now =>
            /\ creator[s] \in {"calling", "landed"} => row[s].status = "pending"
            /\ creator[s] = "late" => row[s].status = "unknown"
            /\ row[s].providerId => creator[s] = "done"
       /\ MayRun(s) => row[s].status \notin TERMINAL

\* What a worker read of its row before it let go of the database still holds
\* in so far as its next write relies on it.
TaskFollowsRow(t) ==
  LET s == task[t].sub IN
  task[t] # Idle =>
    /\ creator[s] # "none"
    /\ task[t].op \in {"remove", "removed", "unremoved"} /\ Exists(s) /\ row[s].expiresAt > now
         => creator[s] = "done"
    /\ task[t].op = "removed" => ~MayRun(s)
    /\ task[t].op = "found" => creator[s] \in {"landed", "done"}
    /\ task[t].op = "store" /\ task[t].victim # None => task[t].victim <= task[t].event

\* Everything that may run is counted, while its row is there to count.
DeviceLimitHolds ==
  \A d \in Device : Cardinality({s \in Sub : MayRun(s) /\ row[s].device = d}) <= MaxPerDevice

Apart(m, n) == m >= n + QueryGap \/ n >= m + QueryGap

\* The queries of a subscription, on their way or asked, are apart, and none is
\* later than the pacing clock of its row.
QueryFollowsRow(t) ==
  LET s == task[t].sub IN
  task[t].op = "ask" =>
    /\ asked[s] # None => Apart(task[t].at, asked[s])
    /\ Exists(s) => row[s].lastQuery # None /\ task[t].at <= row[s].lastQuery
    /\ \A u \in Task \ {t} : task[u].op = "ask" /\ task[u].sub = s => Apart(task[t].at, task[u].at)

AskedFollowsRow(s) ==
  asked[s] # None =>
    /\ creator[s] # "none"
    /\ Exists(s) => row[s].lastQuery # None /\ asked[s] <= row[s].lastQuery

Bounded ==
  /\ IsFiniteSet({s \in Sub : Exists(s)})
  /\ \A s \in Sub : IsFiniteSet(events[s])

IInv ==
  /\ \A s \in Sub : RowFollowsCreate(s) /\ AskedFollowsRow(s)
  /\ \A t \in Task : TaskFollowsRow(t) /\ QueryFollowsRow(t)
  /\ DeviceLimitHolds /\ Bounded
=============================================================================
