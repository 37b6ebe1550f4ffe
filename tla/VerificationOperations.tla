------------------------ MODULE VerificationOperations ------------------------
(***************************************************************************)
(* POST /v1/verify under an Idempotency-Key: the durable operation row     *)
(* (app/db/operations.py), the chain committed with it (app/db/store.py),  *)
(* the handler that reserves, investigates, saves and answers              *)
(* (app/api/verification_service.py), the cache in front of it, and the    *)
(* retention sweeper behind it.                                            *)
(*                                                                         *)
(* An attempt is one HTTP request.  Its handler is a coroutine; reserve,   *)
(* save, mark_uncertain and release run on worker threads, and a thread    *)
(* keeps running when the coroutine that awaits it is cancelled.  `saver`  *)
(* and `marker` are those threads.  A Key is an (owner, key digest) pair,  *)
(* a Body a request commitment, and a chain is named by the attempt that   *)
(* produced it, since chain ids are fresh.                                 *)
(***************************************************************************)
EXTENDS Naturals, FiniteSets

CONSTANTS
  Attempt,             \* requests that may arrive
  Key,                 \* (owner_hash, key_hash) pairs
  Body,                \* request commitments (request_hash)
  None,                \* no attempt, no key, no body
  IdempotencyTTL,      \* settings.idempotency_ttl_seconds
  Lease,               \* settings.idempotency_lease_seconds
  UncertainRetention,  \* settings.idempotency_uncertain_retention_seconds
  BatchSize,           \* settings.purge_batch_size
  MaxFlight,           \* longest a reserved request and its threads live
  MaxTime,             \* bound on the clock, for model checking
  CacheDurable         \* TRUE for Redis, FALSE for the in-process cache

ASSUME NoneAssumption == None \notin Attempt \cup Key \cup Body
ASSUME ClockAssumption ==
  /\ {IdempotencyTTL, Lease, UncertainRetention, MaxFlight, MaxTime} \subseteq Nat
  /\ BatchSize \in Nat \ {0}
  /\ CacheDurable \in BOOLEAN
\* Provider calls, model calls and database statements all have timeouts, so a
\* request is over long before the day-long idempotency window is.
ASSUME FlightAssumption ==
  /\ MaxFlight <= IdempotencyTTL
  /\ IdempotencyTTL <= UncertainRetention

VARIABLES
  rows,        \* the verification_operations table, one slot per key
  chains,      \* the signed chains committed to the chains table
  cache,       \* app.cache, one slot per key
  req,         \* the key and body each attempt carries
  pc,          \* where each attempt's coroutine is
  saver,       \* the store.save thread of each attempt
  marker,      \* the operations.mark_uncertain thread of each attempt
  doomed,      \* keys the sweeper has selected and not yet deleted
  now,         \* the clock
  \* What is observed of a run; no action is guarded by these.
  spent,       \* attempts whose investigation began
  reservedAt,  \* when each attempt's reservation committed
  answer       \* what each attempt's caller was told

storeVars == <<rows, chains, cache>>
threadVars == <<pc, saver, marker>>
ghostVars == <<spent, reservedAt, answer>>
vars == <<rows, chains, cache, req, pc, saver, marker, doomed, now,
          spent, reservedAt, answer>>

-----------------------------------------------------------------------------
(* Types *)

RowState == {"absent", "pending", "done", "uncertain"}

\* `by` is the attempt whose INSERT made the row; the code does not store it.
Row == [state : RowState, body : Body \cup {None}, chain : Attempt \cup {None},
        updatedAt : Nat, by : Attempt \cup {None}]
Absent == [state |-> "absent", body |-> None, chain |-> None,
           updatedAt |-> 0, by |-> None]

Entry == [chain : Attempt \cup {None}, body : Body \cup {None}, expires : Nat]
NoEntry == [chain |-> None, body |-> None, expires |-> 0]

Ended == {"answered", "failed", "cancelled", "crashed"}
Control == {"idle", "lookup", "reserve", "detached", "reread", "reserved",
            "releasing", "working", "saving", "remember"} \cup Ended
SaverState == {"none", "begin", "update", "insert", "done", "failed"}
MarkerState == {"none", "begin", "write"}

AnswerKind == {"none", "fresh", "replay", "key_reused", "in_progress",
               "reconciliation_required"}
Answer == [kind : AnswerKind, chain : Attempt \cup {None}]
Silence == [kind |-> "none", chain |-> None]

TypeOK ==
  /\ rows \in [Key -> Row]
  /\ chains \subseteq Attempt
  /\ cache \in [Key -> Entry]
  /\ req \in [Attempt -> [key : Key \cup {None}, body : Body \cup {None}]]
  /\ pc \in [Attempt -> Control]
  /\ \A a \in Attempt : pc[a] # "idle" => req[a].key \in Key /\ req[a].body \in Body
  /\ saver \in [Attempt -> SaverState]
  /\ marker \in [Attempt -> MarkerState]
  /\ \A a \in Attempt : saver[a] # "none" \/ marker[a] # "none" => pc[a] # "idle"
  /\ doomed \subseteq Key
  /\ now \in Nat
  /\ spent \subseteq Attempt
  /\ reservedAt \in [Attempt -> Nat]
  /\ answer \in [Attempt -> Answer]

Init ==
  /\ rows = [k \in Key |-> Absent]
  /\ chains = {}
  /\ cache = [k \in Key |-> NoEntry]
  /\ req = [a \in Attempt |-> [key |-> None, body |-> None]]
  /\ pc = [a \in Attempt |-> "idle"]
  /\ saver = [a \in Attempt |-> "none"]
  /\ marker = [a \in Attempt |-> "none"]
  /\ doomed = {}
  /\ now = 0
  /\ spent = {}
  /\ reservedAt = [a \in Attempt |-> 0]
  /\ answer = [a \in Attempt |-> Silence]

-----------------------------------------------------------------------------
(* Helpers *)

KeyOf(a) == req[a].key
Present(k) == rows[k].state # "absent"

\* Operation.is_orphaned: pending for longer than the lease.
IsOrphaned(r) == r.state = "pending" /\ now > r.updatedAt + Lease

\* Mutant: replay whatever chain the key names, whoever's request it answers.
ReplayAnyBody(r, body) ==
  IF r.state = "done" /\ r.chain \in chains
  THEN [kind |-> "replay", chain |-> r.chain]
  ELSE [kind |-> "in_progress", chain |-> None]

\* replay_or_refuse, over the row reserve() read back.
ReplayOrRefuse(r, body) ==
  IF r.body # body THEN [kind |-> "key_reused", chain |-> None]
  ELSE IF r.state = "done" /\ r.chain \in chains
       THEN [kind |-> "replay", chain |-> r.chain]
  ELSE IF IsOrphaned(r) \/ r.state = "uncertain"
       THEN [kind |-> "reconciliation_required", chain |-> None]
  ELSE [kind |-> "in_progress", chain |-> None]

Go(a, place) == pc' = [pc EXCEPT ![a] = place]
Tell(a, reply) ==
  /\ answer' = [answer EXCEPT ![a] = reply]
  /\ Go(a, "answered")

PendingRow(a) == [state |-> "pending", body |-> req[a].body, chain |-> None,
                  updatedAt |-> now, by |-> a]
InsertRow(a) ==
  /\ rows' = [rows EXCEPT ![KeyOf(a)] = PendingRow(a)]
  /\ reservedAt' = [reservedAt EXCEPT ![a] = now]

\* The request, or a thread it left behind, can still touch the row it reserved.
InFlight(a) ==
  \/ pc[a] \in {"reserved", "releasing", "working", "saving", "remember"}
  \/ saver[a] \in {"begin", "update", "insert"}
  \/ marker[a] # "none"

-----------------------------------------------------------------------------
(* The handler up to the reservation *)

\* Mutant: the key and the body never reach the handler.
ArriveUnbound(a, k, b) ==
  /\ pc[a] = "idle"
  /\ Go(a, "lookup")
  /\ UNCHANGED <<storeVars, req, saver, marker, doomed, now, ghostVars>>

Arrive(a, k, b) ==
  /\ pc[a] = "idle"
  /\ req' = [req EXCEPT ![a] = [key |-> k, body |-> b]]
  /\ Go(a, "lookup")
  /\ UNCHANGED <<storeVars, saver, marker, doomed, now, ghostVars>>

CacheHit(a) ==
  LET entry == cache[KeyOf(a)] IN
  /\ pc[a] = "lookup"
  /\ entry.chain # None
  /\ now <= entry.expires
  /\ Tell(a, IF entry.body = req[a].body
             THEN [kind |-> "replay", chain |-> entry.chain]
             ELSE [kind |-> "key_reused", chain |-> None])
  /\ UNCHANGED <<storeVars, req, saver, marker, doomed, now, spent, reservedAt>>

\* Nothing cached, or the backend raised CacheUnavailable: the row decides.
CacheMiss(a) ==
  /\ pc[a] = "lookup"
  /\ Go(a, "reserve")
  /\ UNCHANGED <<storeVars, req, saver, marker, doomed, now, ghostVars>>

\* Mutant: INSERT OR REPLACE.
ReserveOver(a) ==
  /\ pc[a] = "reserve"
  /\ InsertRow(a)
  /\ Go(a, "reserved")
  /\ UNCHANGED <<chains, cache, req, saver, marker, doomed, now, spent, answer>>

\* The INSERT goes in only where there is no row.
Reserve(a) ==
  /\ pc[a] = "reserve"
  /\ ~Present(KeyOf(a))
  /\ InsertRow(a)
  /\ Go(a, "reserved")
  /\ UNCHANGED <<chains, cache, req, saver, marker, doomed, now, spent, answer>>

\* The INSERT hit the primary key; the row is read back by a second statement.
ReserveConflict(a) ==
  /\ pc[a] = "reserve"
  /\ Present(KeyOf(a))
  /\ Go(a, "reread")
  /\ UNCHANGED <<storeVars, req, saver, marker, doomed, now, ghostVars>>

\* Mutant: wait for the row to come back.
AnswerOnlyPresent(a) ==
  /\ pc[a] = "reread"
  /\ Present(KeyOf(a))
  /\ Tell(a, ReplayOrRefuse(rows[KeyOf(a)], req[a].body))
  /\ UNCHANGED <<storeVars, req, saver, marker, doomed, now, spent, reservedAt>>

\* A row that is gone again is answered as a fresh pending one.
AnswerExisting(a) ==
  /\ pc[a] = "reread"
  /\ Tell(a, ReplayOrRefuse(IF Present(KeyOf(a)) THEN rows[KeyOf(a)] ELSE PendingRow(a),
                            req[a].body))
  /\ UNCHANGED <<storeVars, req, saver, marker, doomed, now, spent, reservedAt>>

\* Cancelled at an await outside the try block: no handler runs, and a
\* reservation that was already made stays behind.  A reserve() thread that has
\* not committed yet carries on by itself.
CancelOutsideTry(a) ==
  /\ pc[a] \in {"lookup", "reserve", "reread", "reserved"}
  /\ Go(a, IF pc[a] = "reserve" THEN "detached" ELSE "cancelled")
  /\ UNCHANGED <<storeVars, req, saver, marker, doomed, now, ghostVars>>

DetachedReserve(a) ==
  /\ pc[a] = "detached"
  /\ Go(a, "cancelled")
  /\ \/ ~Present(KeyOf(a)) /\ InsertRow(a)
     \/ UNCHANGED <<rows, reservedAt>>
  /\ UNCHANGED <<chains, cache, req, saver, marker, doomed, now, spent, answer>>

-----------------------------------------------------------------------------
(* The handler inside the try block *)

BuildFails(a) ==
  /\ pc[a] = "reserved"
  /\ Go(a, "releasing")
  /\ UNCHANGED <<storeVars, req, saver, marker, doomed, now, ghostVars>>

Release(a) ==
  /\ pc[a] = "releasing"
  /\ rows' = IF rows[KeyOf(a)].state = "pending"
             THEN [rows EXCEPT ![KeyOf(a)] = Absent] ELSE rows
  /\ Go(a, "failed")
  /\ UNCHANGED <<chains, cache, req, saver, marker, doomed, now, ghostVars>>

\* The DELETE raised: the reservation stays behind.
ReleaseFails(a) ==
  /\ pc[a] = "releasing"
  /\ Go(a, "failed")
  /\ UNCHANGED <<storeVars, req, saver, marker, doomed, now, ghostVars>>

\* work_started: from here a provider call may have been made.
StartWork(a) ==
  /\ pc[a] = "reserved"
  /\ Go(a, "working")
  /\ spent' = spent \cup {a}
  /\ UNCHANGED <<storeVars, req, saver, marker, doomed, now, reservedAt, answer>>

Investigated(a) ==
  /\ pc[a] = "working"
  /\ Go(a, "saving")
  /\ saver' = [saver EXCEPT ![a] = "begin"]
  /\ UNCHANGED <<storeVars, req, marker, doomed, now, ghostVars>>

\* Mutant: release on every exception, whether or not work has begun.
ReleaseAfterWork(a) ==
  /\ pc[a] \in {"working", "saving"}
  /\ Go(a, "releasing")
  /\ UNCHANGED <<storeVars, req, saver, marker, doomed, now, ghostVars>>

\* `except BaseException` once work has begun: the investigation raised, the
\* save raised, the response could not be built, or the request was cancelled
\* while its save thread was at any point of its transaction.
FailAfterWork(a) ==
  /\ pc[a] \in {"working", "saving"}
  /\ Go(a, "failed")
  /\ marker' = [marker EXCEPT ![a] = "begin"]
  /\ UNCHANGED <<storeVars, req, saver, doomed, now, ghostVars>>

Respond(a) ==
  /\ pc[a] = "saving"
  /\ saver[a] = "done"
  /\ Go(a, "remember")
  /\ UNCHANGED <<storeVars, req, saver, marker, doomed, now, ghostVars>>

\* remember(), then the 200: an unavailable cache is only logged.
Remember(a) ==
  /\ pc[a] = "remember"
  /\ Tell(a, [kind |-> "fresh", chain |-> a])
  /\ \/ cache' = [cache EXCEPT ![KeyOf(a)] =
                    [chain |-> a, body |-> req[a].body, expires |-> now + IdempotencyTTL]]
     \/ UNCHANGED cache
  /\ UNCHANGED <<rows, chains, req, saver, marker, doomed, now, spent, reservedAt>>

-----------------------------------------------------------------------------
(* store.save and operations.mark_uncertain, each a read and then a write:  *)
(* a SELECT takes no lock, and the UPDATE that follows names only the key.  *)

Rewritten(r, state, chain) ==
  [state |-> state, body |-> r.body, chain |-> chain, updatedAt |-> now, by |-> r.by]

SaveRead(a) ==
  /\ saver[a] = "begin"
  /\ saver' = [saver EXCEPT ![a] = IF Present(KeyOf(a)) THEN "update" ELSE "insert"]
  /\ UNCHANGED <<storeVars, req, pc, marker, doomed, now, ghostVars>>

\* Mutant: the chain is committed and the mapping left for later.
SaveChainOnly(a) ==
  /\ saver[a] \in {"update", "insert"}
  /\ chains' = chains \cup {a}
  /\ saver' = [saver EXCEPT ![a] = "done"]
  /\ UNCHANGED <<rows, cache, req, pc, marker, doomed, now, ghostVars>>

\* The chain and the key->chain mapping, in one transaction.
SaveCommit(a) ==
  /\ saver[a] \in {"update", "insert"}
  /\ saver[a] = "update" => Present(KeyOf(a))
  /\ chains' = chains \cup {a}
  /\ rows' = IF saver[a] = "update"
             THEN [rows EXCEPT ![KeyOf(a)] = Rewritten(@, "done", a)]
             ELSE rows
  /\ saver' = [saver EXCEPT ![a] = "done"]
  /\ UNCHANGED <<cache, req, pc, marker, doomed, now, ghostVars>>

\* A locked database, a signing error, or an UPDATE that matched no row.
SaveAborts(a) ==
  /\ saver[a] \in {"begin", "update", "insert"}
  /\ saver' = [saver EXCEPT ![a] = "failed"]
  /\ UNCHANGED <<storeVars, req, pc, marker, doomed, now, ghostVars>>

MarkRead(a) ==
  /\ marker[a] = "begin"
  /\ marker' = [marker EXCEPT ![a] =
                  IF rows[KeyOf(a)].state = "pending" THEN "write" ELSE "none"]
  /\ UNCHANGED <<storeVars, req, pc, saver, doomed, now, ghostVars>>

MarkWrite(a) ==
  /\ marker[a] = "write"
  /\ Present(KeyOf(a))
  /\ rows' = [rows EXCEPT ![KeyOf(a)] = Rewritten(@, "uncertain", @.chain)]
  /\ marker' = [marker EXCEPT ![a] = "none"]
  /\ UNCHANGED <<chains, cache, req, pc, saver, doomed, now, ghostVars>>

MarkAborts(a) ==
  /\ marker[a] # "none"
  /\ marker' = [marker EXCEPT ![a] = "none"]
  /\ UNCHANGED <<storeVars, req, pc, saver, doomed, now, ghostVars>>

-----------------------------------------------------------------------------
(* Retention, cache loss, restart and time *)

\* Mutant: one retention for every state.
PurgeableAlike(r) ==
  r.state # "absent" /\ r.updatedAt + IdempotencyTTL < now

Purgeable(r) ==
  \/ r.state \in {"pending", "done"} /\ r.updatedAt + IdempotencyTTL < now
  \/ r.state = "uncertain" /\ r.updatedAt + UncertainRetention < now

SweepSelect ==
  /\ doomed = {}
  /\ \E S \in SUBSET {k \in Key : Purgeable(rows[k])} :
       /\ S # {}
       /\ Cardinality(S) <= BatchSize
       /\ doomed' = S
  /\ UNCHANGED <<storeVars, req, threadVars, now, ghostVars>>

SweepDelete ==
  /\ doomed # {}
  /\ rows' = [k \in Key |-> IF k \in doomed THEN Absent ELSE rows[k]]
  /\ doomed' = {}
  /\ UNCHANGED <<chains, cache, req, threadVars, now, ghostVars>>

\* Eviction at capacity, an expired entry swept, a Redis flush.
CacheLose(k) ==
  /\ cache[k] # NoEntry
  /\ cache' = [cache EXCEPT ![k] = NoEntry]
  /\ UNCHANGED <<rows, chains, req, threadVars, doomed, now, ghostVars>>

\* The process dies and is started again: coroutines and threads are gone,
\* committed rows are not.
Crash ==
  /\ \E a \in Attempt : pc[a] \notin Ended \cup {"idle"} \/ InFlight(a)
  /\ pc' = [a \in Attempt |-> IF pc[a] \in Ended \cup {"idle"} THEN pc[a] ELSE "crashed"]
  /\ saver' = [a \in Attempt |-> "none"]
  /\ marker' = [a \in Attempt |-> "none"]
  /\ doomed' = {}
  /\ cache' = IF CacheDurable THEN cache ELSE [k \in Key |-> NoEntry]
  /\ UNCHANGED <<rows, chains, req, now, ghostVars>>

Tick ==
  /\ now < MaxTime
  /\ \A a \in Attempt : InFlight(a) => now < reservedAt[a] + MaxFlight
  /\ now' = now + 1
  /\ UNCHANGED <<storeVars, req, threadVars, doomed, ghostVars>>

-----------------------------------------------------------------------------
Handler(a) ==
  \/ CacheHit(a) \/ CacheMiss(a)
  \/ Reserve(a) \/ ReserveConflict(a) \/ AnswerExisting(a) \/ DetachedReserve(a)
  \/ Release(a) \/ StartWork(a) \/ Investigated(a) \/ Respond(a) \/ Remember(a)
SaveThread(a) == SaveRead(a) \/ SaveCommit(a) \/ SaveAborts(a)
MarkThread(a) == MarkRead(a) \/ MarkWrite(a) \/ MarkAborts(a)
Failure(a) ==
  CancelOutsideTry(a) \/ BuildFails(a) \/ ReleaseFails(a) \/ FailAfterWork(a)
Sweeper == SweepSelect \/ SweepDelete

Next ==
  \/ \E a \in Attempt, k \in Key, b \in Body : Arrive(a, k, b)
  \/ \E a \in Attempt : Handler(a) \/ SaveThread(a) \/ MarkThread(a) \/ Failure(a)
  \/ \E k \in Key : CacheLose(k)
  \/ Sweeper
  \/ Crash
  \/ Tick

Spec == Init /\ [][Next]_vars

\* A coroutine that can run is scheduled, and a save that raised is handled.
Fairness ==
  \A a \in Attempt :
    /\ WF_vars(Handler(a))
    /\ WF_vars(SaveThread(a))
    /\ WF_vars(saver[a] = "failed" /\ FailAfterWork(a))
FairSpec == Spec /\ Fairness

-----------------------------------------------------------------------------
(* Properties *)

\* Two investigations under one key were reserved more than the idempotency
\* window apart: concurrent retries, cancellations, crashes, a lost cache and
\* the sweeper never let one question be charged twice inside it.
OneChargePerWindow ==
  \A a, b \in spent :
    a # b /\ KeyOf(a) = KeyOf(b)
      => \/ reservedAt[a] + IdempotencyTTL < reservedAt[b]
         \/ reservedAt[b] + IdempotencyTTL < reservedAt[a]

\* A replayed answer is a committed chain for the same key and the same body,
\* whether it came from the cache or from the row.
ReplayIsTheOriginal ==
  \A a \in Attempt :
    answer[a].kind \in {"fresh", "replay"} =>
      LET c == answer[a].chain IN c \in chains /\ req[c] = req[a]

\* A row that says `done` names a committed chain, and a committed chain is
\* named by its key's row for as long as the window lasts.
MappingIffChain ==
  /\ \A k \in Key : rows[k].state = "done" => rows[k].chain \in chains
  /\ \A c \in chains :
       now <= reservedAt[c] + IdempotencyTTL =>
         /\ rows[KeyOf(c)].chain = c
         /\ rows[KeyOf(c)].body = req[c].body

\* An `uncertain` row changes only by its own save completing, or by being
\* purged once its longer retention is over.
UncertainIsKept ==
  [][\A k \in Key :
       rows[k].state = "uncertain" /\ rows'[k] # rows[k] =>
         \/ rows'[k].state = "done" /\ rows'[k].by = rows[k].by
         \/ rows[k].updatedAt + UncertainRetention < now]_vars

\* Every request that arrives ends, even when the row it lost the race to has
\* been released before it can be read back.
EveryRequestEnds ==
  \A a \in Attempt : pc[a] = "lookup" ~> pc[a] \in Ended

\* The rows, read as the claims of ChargeLedger.
ClaimOn(k) ==
  LET a == rows[k].by IN
  IF Present(k)
  THEN [holder |-> a, at |-> reservedAt[a], charged |-> a \in spent, result |-> rows[k].chain]
  ELSE [holder |-> None, at |-> 0, charged |-> FALSE, result |-> None]
Ledger == INSTANCE ChargeLedger
            WITH Window <- IdempotencyTTL, claim <- [k \in Key |-> ClaimOn(k)]

\* The handler, its threads, the sweeper and crashes together implement the
\* promise an Idempotency-Key makes.
ImplementsLedger == Ledger!Spec

\* operations.py: a crash "resolves to `uncertain`", and an unresolved row is
\* kept for the longer retention.  Not so for the pending row a crash leaves.
UnresolvedSpendIsKept ==
  \A a \in spent :
    (a \notin chains /\ now <= reservedAt[a] + UncertainRetention)
      => Present(KeyOf(a))

\* models.py: `uncertain` means the service cannot prove what happened.  A
\* signed chain named by the same row proves it.
UncertainMeansUnproven ==
  \A k \in Key : rows[k].state = "uncertain" => rows[k].chain = None

-----------------------------------------------------------------------------
(* The inductive invariant behind OneChargePerWindow and ImplementsLedger *)

Early == {"idle", "lookup", "reserve", "detached", "reread"}
Fresh(a) == now <= reservedAt[a] + IdempotencyTTL

\* The row of a's key is the one a inserted.
Holds(a) == Present(KeyOf(a)) /\ rows[KeyOf(a)].by = a

\* A row was inserted by an attempt for that key and body, and was last
\* written no earlier than that; only its own chain is ever put in it.
RowsAreOwned ==
  \A k \in Key : Present(k) =>
    LET a == rows[k].by IN
    /\ a \in Attempt /\ pc[a] \notin Early
    /\ req[a] = [key |-> k, body |-> rows[k].body]
    /\ reservedAt[a] <= rows[k].updatedAt
    /\ rows[k].chain = IF a \in chains THEN a ELSE None
    /\ rows[k].state = "done" => a \in chains
    /\ rows[k].state = "pending" => a \notin chains

\* A request in flight still holds its row, within MaxFlight of reserving it.
FlightHolds ==
  \A a \in Attempt : InFlight(a) => Holds(a) /\ now <= reservedAt[a] + MaxFlight

\* Where the coroutine is, and what its threads and observations may be.
Progress ==
  \A a \in Attempt :
    /\ reservedAt[a] <= now
    /\ pc[a] \in {"working", "saving", "remember"} => a \in spent
    /\ saver[a] # "none" \/ marker[a] # "none" => a \in spent
    /\ a \in spent => pc[a] \notin Early \cup {"reserved", "releasing"}
    /\ pc[a] = "working" => saver[a] = "none"
    /\ saver[a] # "insert"
    /\ saver[a] \in {"begin", "update"} => a \notin chains
    /\ saver[a] = "done" \/ pc[a] = "remember" => a \in chains
    /\ pc[a] = "working" => a \notin chains

\* An investigation stays on record, under its own row, for the whole window.
SpentIsHeld ==
  /\ chains \subseteq spent
  /\ \A a \in spent : Fresh(a) => Holds(a)

\* What the sweeper has selected is still there and still out of its window.
DoomedIsStale ==
  \A k \in doomed : Present(k) /\ Purgeable(rows[k])

\* Spent or about to be, two claims on one key are a window apart.
Claimants == spent \cup {a \in Attempt : pc[a] = "reserved"}
ClaimsAreSpaced ==
  \A a, b \in Claimants :
    a # b /\ KeyOf(a) = KeyOf(b)
      => \/ reservedAt[a] + IdempotencyTTL < reservedAt[b]
         \/ reservedAt[b] + IdempotencyTTL < reservedAt[a]

IInv ==
  /\ RowsAreOwned
  /\ FlightHolds
  /\ Progress
  /\ SpentIsHeld
  /\ DoomedIsStale
  /\ ClaimsAreSpaced

(* What ReplayIsTheOriginal and UncertainIsKept need beside it *)

\* The cache holds committed chains, under their own key and body.
CacheIsTrue ==
  \A k \in Key : cache[k].chain # None =>
    /\ cache[k].chain \in chains
    /\ req[cache[k].chain] = [key |-> k, body |-> cache[k].body]

\* A request is answered at its end, when what it carries no longer changes.
AnswersAreLast == \A a \in Attempt : answer[a].kind # "none" => pc[a] = "answered"

\* A row is marked uncertain once: who is about to has not seen it so.
MarkIsFirst ==
  \A a \in Attempt : marker[a] = "write" => rows[KeyOf(a)].state # "uncertain"

ObservedInv ==
  /\ CacheIsTrue
  /\ AnswersAreLast
  /\ MarkIsFirst
  /\ ReplayIsTheOriginal
=============================================================================
