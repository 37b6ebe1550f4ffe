------------------------------- MODULE Admission -------------------------------
(***************************************************************************)
(* What stands between a request and the work it asks for: the in-flight   *)
(* ceiling (api/request_limits.py), the sliding windows                    *)
(* (api/rate_limit.py), the credential (api/deps.py), the Lab's model      *)
(* slots (api/routes_lab.py), and the ceiling on the deployment's own      *)
(* Gemini key (runtime_keys.py, model_budget.py, agent/gemini.py).         *)
(*                                                                         *)
(* A dependency runs without an await once the body is read, so admission  *)
(* is one step.  Model calls leave from worker threads, one step each: a   *)
(* planner keeps the client it was built with, whatever the budget does    *)
(* in the meantime.  Credentials are opaque; the clock counts windows.     *)
(***************************************************************************)
EXTENDS Naturals, FiniteSets, SequencesExt

CONSTANTS
  Request,
  Mixes,        \* what meets in one behaviour: demo mode or not, and the requests sent
  Sends,        \* per request: route, size, session, bearer, ip, gemini, planner
  ApiKeys,      \* settings.api_keys
  Minted,       \* console tokens, judge keys and judge sessions, which expire
  Sessions,     \* the judge sessions among them
  Tokens,       \* the console tokens among them, minted in demo mode only
  ServerKey,    \* settings.gemini_api_key
  Planner,      \* settings.planner
  Limit,        \* of each limiter: "key", "screen" and "ip"
  MaxBuckets, MaxInFlight, Slots,
  Ceiling,      \* settings.llm_max_calls_per_hour
  PerRun,       \* settings.llm_max_calls_per_investigation
  Window,       \* of the limiters
  Hour,         \* model_budget.WINDOW_SECONDS
  MaxTime, None

AdmissionAssumption ==
  /\ Mixes \subseteq [demo : BOOLEAN, sent : SUBSET Request]
  /\ \A r \in Request : Sends[r].route \in DOMAIN Limit /\ Sends[r].ip # None
  /\ DOMAIN Limit = {"key", "screen", "ip"} /\ \A l \in DOMAIN Limit : Limit[l] \in Nat \ {0}
  /\ {MaxBuckets, MaxInFlight, Slots, PerRun, Window, Hour} \subseteq Nat \ {0}
  /\ {Ceiling, MaxTime} \subseteq Nat /\ None \notin Minted
  /\ Sessions \subseteq Minted /\ Tokens \subseteq Minted \ Sessions

VARIABLES
  now,
  demo,      \* demo mode, over a provider that bills nothing
  live,      \* the minted credentials that have not expired
  inFlight,  \* RequestLimitsMiddleware._in_flight
  windows,   \* each limiter's buckets, oldest first, and their hits
  calls,     \* model_budget._calls
  request,   \* how far each request has come
  posted     \* observed: the model calls that left, by key and clock value

vars == <<now, demo, live, inFlight, windows, calls, request, posted>>

-----------------------------------------------------------------------------
(* Sliding windows *)

\* popleft while the oldest is past: what is left begins with the first that is not.
Since(hits, length) ==
  LET alive == {i \in DOMAIN hits : hits[i] + length > now}
  IN  IF alive = {} THEN <<>> ELSE SubSeq(hits, Min(alive), Len(hits))

Recent(w) == w.hits # <<>> /\ Last(w.hits) + Window > now

\* The buckets whose window is not all in the past, oldest first.
Alive(buckets) ==
  LET upTo[n \in 0 .. Len(buckets)] ==
        IF n = 0 THEN <<>>
        ELSE IF Recent(buckets[n]) THEN Append(upTo[n - 1], buckets[n]) ELSE upTo[n - 1]
  IN  upTo[Len(buckets)]

\* Mutant: the oldest buckets go, dead or not.
EvictOldest(buckets) ==
  IF Len(buckets) < MaxBuckets THEN buckets
  ELSE SubSeq(buckets, Len(buckets) - MaxBuckets + 2, Len(buckets))

\* Room for one more bucket: dead windows go first, then the oldest buckets.
Evict(buckets) ==
  IF Len(buckets) < MaxBuckets THEN buckets
  ELSE LET alive == Alive(buckets)
           spare == IF Len(alive) < MaxBuckets THEN 0 ELSE Len(alive) - MaxBuckets + 1
       IN  SubSeq(alive, spare + 1, Len(alive))

\* The limiter's buckets once the caller has one.
Known(limiter, bucket) == \E i \in DOMAIN windows[limiter] : windows[limiter][i].bucket = bucket
All(limiter, bucket) ==
  IF Known(limiter, bucket) THEN windows[limiter]
  ELSE Append(Evict(windows[limiter]), [bucket |-> bucket, hits |-> <<>>])

\* SlidingWindowLimiter.check.
Check(limiter, bucket) ==
  LET all  == All(limiter, bucket)
      mine == CHOOSE i \in DOMAIN all : all[i].bucket = bucket
      hits == Since(all[mine].hits, Window)
  IN  [ok |-> Len(hits) < Limit[limiter],
       all |-> [all EXCEPT ![mine] = [bucket |-> bucket,
         hits |-> IF Len(hits) < Limit[limiter] THEN Append(hits, now) ELSE hits]]]

\* limit_per_key: a judge by the session, a merchant by the key, others by address.
KeyBucket(r) ==
  IF Sends[r].session \in live \cap Sessions THEN Sends[r].session
  ELSE IF Sends[r].bearer # None THEN Sends[r].bearer ELSE Sends[r].ip

\* limit_screen raises the ceiling for identified callers only; the Lab counts addresses.
LimiterOf(r) ==
  IF Sends[r].route = "screen" /\ Sends[r].bearer = None THEN "ip" ELSE Sends[r].route
Bucket(r) ==
  IF LimiterOf(r) = "ip" THEN Sends[r].ip
  ELSE IF LimiterOf(r) = "screen" THEN Sends[r].bearer ELSE KeyBucket(r)

-----------------------------------------------------------------------------
(* Credentials *)

\* A configured key, a console token or a judge's key; a token is live in demo mode only.
ValidKey(key) == key \in ApiKeys \cup (live \ Sessions)

\* require_read_access takes a judge's session too; the other routes a key alone.
Authorized(r) ==
  \/ Sends[r].route = "key" /\ Sends[r].session \in live \cap Sessions
  \/ ValidKey(Sends[r].bearer)

-----------------------------------------------------------------------------
(* The model: whose key, and whether it may be spent *)

Supplied(r) == IF demo THEN Sends[r].gemini ELSE None
PlannerHeader(r) == IF demo THEN Sends[r].planner ELSE None
RequestedPlanner(r) ==
  IF PlannerHeader(r) \in {"greedy", "llm"} THEN PlannerHeader(r)
  ELSE IF Supplied(r) # None THEN "llm" ELSE Planner

UsesServerKey(key) == key # None /\ key = ServerKey

BudgetExhausted == Ceiling > 0 /\ Len(Since(calls, Hour)) >= Ceiling

\* effective_gemini_key: what is left is only looked at here, not reserved.
Selected(r) == IF Supplied(r) # None THEN Supplied(r) ELSE ServerKey
OutOfBudget(r) == UsesServerKey(Selected(r)) /\ BudgetExhausted
EffectiveKey(r) ==
  IF PlannerHeader(r) = "greedy" \/ OutOfBudget(r) THEN None ELSE Selected(r)

\* get_planner: the client an LLMPlanner is built with, None when it will be greedy.
Client(r) == IF RequestedPlanner(r) = "llm" THEN EffectiveKey(r) ELSE None

\* Mutant: the transport trusts the look its client's builder took at the budget.
ReserveTrusting(key) ==
  IF Ceiling = 0 \/ ~UsesServerKey(key) THEN [ok |-> TRUE, calls |-> calls]
  ELSE [ok |-> TRUE, calls |-> Append(Since(calls, Hour), now)]

\* reserve_model_call: whether the call is admitted, and the calls then counted.
Reserve(key) ==
  IF Ceiling = 0 \/ ~UsesServerKey(key) THEN [ok |-> TRUE, calls |-> calls]
  ELSE LET kept == Since(calls, Hour)
       IN  IF Len(kept) >= Ceiling THEN [ok |-> FALSE, calls |-> kept]
           ELSE [ok |-> TRUE, calls |-> Append(kept, now)]

-----------------------------------------------------------------------------
Stage(pc, at, bucket, client) ==
  [pc |-> pc, at |-> at, bucket |-> bucket, client |-> client, asked |-> 0]

Init ==
  /\ now = 0 /\ inFlight = 0 /\ calls = <<>> /\ posted = {}
  /\ windows = [l \in DOMAIN Limit |-> <<>>]
  /\ \E mix \in Mixes :
       /\ demo = mix.demo /\ live = (IF mix.demo THEN Minted ELSE Minted \ Tokens)
       /\ request = [r \in Request |-> Stage(IF r \in mix.sent THEN "unsent" ELSE "never",
                                             0, None, None)]

Becomes(r, x) == request' = [request EXCEPT ![r] = x]
Answer(r, status) == Becomes(r, Stage(status, now, None, None))

\* The middleware, before the body: what the length header says, and the ceiling.
Receive(r) ==
  /\ request[r].pc = "unsent"
  /\ \/ Sends[r].size = "declared" /\ Answer(r, "413") /\ UNCHANGED inFlight
     \/ Sends[r].size = "garbled" /\ Answer(r, "400") /\ UNCHANGED inFlight
     \/ /\ Sends[r].size \in {"fits", "streamed"} /\ inFlight >= MaxInFlight
        /\ Answer(r, "503") /\ UNCHANGED inFlight
     \/ /\ Sends[r].size \in {"fits", "streamed"} /\ inFlight < MaxInFlight
        /\ Answer(r, "received") /\ inFlight' = inFlight + 1
  /\ UNCHANGED <<now, demo, live, windows, calls, posted>>

\* A refusal inside the application: the middleware's finally gives the place back.
Refuse(r, status) ==
  Answer(r, status) /\ inFlight' = inFlight - 1

\* A body that grows past the limit while it is read.
TooLarge(r) ==
  /\ request[r].pc = "received" /\ Sends[r].size = "streamed"
  /\ Refuse(r, "413")
  /\ UNCHANGED <<now, demo, live, windows, calls, posted>>

LabRuns == {r \in Request : request[r].pc = "running" /\ Sends[r].route = "ip"}

\* What lab_model_run asks for after the credential and the address.
LabRefusal(r) ==
  IF ~demo THEN "403"
  ELSE IF EffectiveKey(r) = None
  THEN (IF RequestedPlanner(r) = "llm" /\ OutOfBudget(r) THEN "429 model" ELSE "400")
  ELSE IF Cardinality(LabRuns) >= Slots THEN "429 slots" ELSE "none"

\* The Lab builds an LLMPlanner whatever the header asked for.
Start(r) ==
  /\ Becomes(r, Stage("running", now, Bucket(r),
                      IF Sends[r].route = "ip" THEN EffectiveKey(r) ELSE Client(r)))
  /\ UNCHANGED inFlight

Counted(r, status) ==
  /\ Becomes(r, Stage(status, now, Bucket(r), None))
  /\ inFlight' = inFlight - 1

\* The merchant routes and screening count a request before they look at its key.
Admit(r) ==
  /\ request[r].pc = "received" /\ Sends[r].size = "fits" /\ Sends[r].route # "ip"
  /\ LET checked == Check(LimiterOf(r), Bucket(r))
     IN  /\ windows' = [windows EXCEPT ![LimiterOf(r)] = checked.all]
         /\ CASE ~checked.ok -> Counted(r, "429")
              [] checked.ok /\ ~Authorized(r) -> Counted(r, "403")
              [] checked.ok /\ Authorized(r) -> Start(r)
  /\ UNCHANGED <<now, demo, live, calls, posted>>

\* POST /v1/lab/run: the key, the address, then whether a model can be asked at all.
AdmitToLab(r) ==
  /\ request[r].pc = "received" /\ Sends[r].size = "fits" /\ Sends[r].route = "ip"
  /\ LET checked == Check("ip", Sends[r].ip)
     IN  \/ /\ ~Authorized(r) /\ Refuse(r, "403") /\ UNCHANGED windows
         \/ /\ Authorized(r) /\ windows' = [windows EXCEPT !["ip"] = checked.all]
            /\ CASE ~checked.ok -> Counted(r, "429")
                 [] checked.ok /\ LabRefusal(r) # "none" -> Counted(r, LabRefusal(r))
                 [] checked.ok /\ LabRefusal(r) = "none" -> Start(r)
  /\ UNCHANGED <<now, demo, live, calls, posted>>

\* LLMPlanner.choose and GeminiClient._generate: a refused reservation makes the
\* choice greedy; an admitted call keeps its place whatever the model answers.
Ask(r) ==
  /\ request[r].pc = "running" /\ request[r].client # None /\ request[r].asked < PerRun
  /\ LET key      == request[r].client
         reserved == Reserve(key)
     IN  /\ calls' = reserved.calls
         /\ posted' = IF reserved.ok
                      THEN posted \cup {[by |-> r, nth |-> request[r].asked, key |-> key, at |-> now]}
                      ELSE posted
  /\ request' = [request EXCEPT ![r].asked = @ + 1]
  /\ UNCHANGED <<now, demo, live, inFlight, windows>>

\* The answer, an error or a client that hangs up.
Finish(r) ==
  /\ request[r].pc = "running"
  /\ request' = [request EXCEPT ![r].pc = "done"] /\ inFlight' = inFlight - 1
  /\ UNCHANGED <<now, demo, live, windows, calls, posted>>

\* Seen by the requests that are still to show the credential.
Expire(c) ==
  /\ c \in live /\ live' = live \ {c}
  /\ \E r \in Request : /\ request[r].pc \in {"unsent", "received"}
                        /\ c \in {Sends[r].session, Sends[r].bearer}
  /\ UNCHANGED <<now, demo, inFlight, windows, calls, request, posted>>

Tick ==
  /\ now < MaxTime /\ now' = now + 1
  /\ UNCHANGED <<demo, live, inFlight, windows, calls, request, posted>>

Next ==
  \/ \E r \in Request : \/ Receive(r) \/ TooLarge(r) \/ Admit(r) \/ AdmitToLab(r)
                        \/ Ask(r) \/ Finish(r)
  \/ \E c \in Minted : Expire(c)
  \/ Tick

Spec == Init /\ [][Next]_vars

-----------------------------------------------------------------------------
(* Properties *)

Passed(r) == request[r].bucket # None /\ request[r].pc # "429"
Within(r, t, length) == request[r].at <= t /\ request[r].at + length > t
PassesOf(limiter, bucket, t) ==
  {r \in Request : /\ Passed(r) /\ LimiterOf(r) = limiter /\ request[r].bucket = bucket
                   /\ Within(r, t, Window)}
BucketsIn(limiter, t) == {request[r].bucket : r \in
  {q \in Request : Passed(q) /\ LimiterOf(q) = limiter /\ Within(q, t, Window)}}
\* More callers than the limiter has room for were live at once, up to a window before t.
Crowded(limiter, t) ==
  \E e \in 0..t : e + Window > t /\ Cardinality(BucketsIn(limiter, e)) > MaxBuckets

\* No caller passes a limiter more often in a window than its limit, and none is
\* refused below it, unless more callers were live in one window than it keeps:
\* dropping dead windows to make room must not forget a live one
\* (SlidingWindowLimiter.check, _evict).
LimiterHolds ==
  \A r \in {q \in Request : request[q].bucket # None /\ request[q].at = now} :
    LET passes == Cardinality(PassesOf(LimiterOf(r), request[r].bucket, now))
    IN  IF request[r].pc = "429" THEN passes >= Limit[LimiterOf(r)]
        ELSE passes <= Limit[LimiterOf(r)] \/ Crowded(LimiterOf(r), now)

\* However many planners hold a client, and wherever its key came from, no more
\* calls than the ceiling leave on the deployment's key in an hour
\* (reserve_model_call, GeminiClient._generate).
BudgetHolds ==
  Ceiling > 0 => \A t \in 0..now :
    Cardinality({p \in posted : p.key = ServerKey /\ p.at <= t /\ p.at + Hour > t}) <= Ceiling

-----------------------------------------------------------------------------
(* What makes the properties inductive                                     *)

Stages == {"unsent", "never", "413", "400", "503", "received", "429", "403", "429 model",
           "429 slots", "running", "done"}
Names == UNION {{Sends[r].session, Sends[r].bearer, Sends[r].ip} : r \in Request}
Clients == {None, ServerKey} \cup {Sends[r].gemini : r \in Request}
Buckets == [bucket : Names, hits : Seq(Nat)]
Requests == [pc : Stages, at : Nat, bucket : Names \cup {None}, client : Clients, asked : Nat]
Posts == [by : Request, nth : Nat, key : Clients, at : Nat]

Inside == {r \in Request : request[r].pc \in {"received", "running"}}
BucketedRequests == {r \in Request : request[r].bucket # None}

TypeOK ==
  /\ now \in Nat /\ demo \in BOOLEAN /\ live \subseteq Minted
  /\ inFlight \in Nat
  /\ windows \in [DOMAIN Limit -> Seq(Buckets)]
  /\ calls \in Seq(Nat)
  /\ request \in [Request -> Requests]
  /\ posted \subseteq Posts
  /\ IsFiniteSet(Inside) /\ IsFiniteSet(BucketedRequests) /\ IsFiniteSet(posted)

\* The places taken are those of the requests inside, and only a request the limiters
\* have counted has a bucket.
PlacesAreTaken ==
  /\ inFlight = Cardinality(Inside)
  /\ \A r \in Request : request[r].at <= now
  /\ \A r \in Request : request[r].pc \in {"unsent", "never", "received"} => request[r].bucket = None

\* Every hit is a pass of the bucket's, and no two hits are the same one.
BackedBy(l, w) ==
  \E g \in Injection(DOMAIN w.hits, Request) : \A j \in DOMAIN w.hits :
    /\ Passed(g[j]) /\ LimiterOf(g[j]) = l
    /\ request[g[j]].bucket = w.bucket /\ request[g[j]].at = w.hits[j]

HitsArePasses ==
  \A l \in DOMAIN Limit : \A i \in DOMAIN windows[l] :
    /\ \A k \in DOMAIN windows[l] : windows[l][k].bucket = windows[l][i].bucket => k = i
    /\ Len(windows[l][i].hits) <= Limit[l]
    /\ \A a, b \in DOMAIN windows[l][i].hits :
         a <= b => windows[l][i].hits[a] <= windows[l][i].hits[b]
    /\ BackedBy(l, windows[l][i])

\* Passes since the last time more callers were live than the limiter has room for
\* are hits of the bucket's window.
CrowdAt(l, t) == Cardinality(BucketsIn(l, t)) > MaxBuckets
Sheltered(l, b) ==
  {r \in PassesOf(l, b, now) : \A e \in 0..now : CrowdAt(l, e) => e < request[r].at}
KeptIn(l, b, w) ==
  /\ w.bucket = b
  /\ \E f \in Injection(Sheltered(l, b), DOMAIN w.hits) :
       \A r \in Sheltered(l, b) : w.hits[f[r]] = request[r].at
PassesAreHits ==
  \A l \in DOMAIN Limit, b \in Names :
    Sheltered(l, b) = {} \/ \E i \in DOMAIN windows[l] : KeptIn(l, b, windows[l][i])

RefusedAtTheLimit ==
  \A r \in Request : request[r].bucket # None /\ request[r].pc = "429" /\ request[r].at = now =>
    \E g \in Injection(1 .. Limit[LimiterOf(r)], Request) : \A j \in 1 .. Limit[LimiterOf(r)] :
      g[j] \in PassesOf(LimiterOf(r), request[r].bucket, now)

\* Each call that left on the deployment's key this hour is one of those counted.
Spent == {p \in posted : p.key = ServerKey /\ p.at + Hour > now}
PostsAreCounted ==
  /\ \A p \in posted : p.at <= now /\ p.key # None
  /\ Ceiling > 0 =>
       /\ Len(calls) <= Ceiling
       /\ \E f \in Injection(Spent, DOMAIN calls) : \A p \in Spent : calls[f[p]] = p.at

IInv ==
  /\ PlacesAreTaken /\ HitsArePasses /\ PassesAreHits /\ RefusedAtTheLimit
  /\ PostsAreCounted /\ BudgetHolds
=============================================================================
