----------------------------- MODULE MerchantPilot -----------------------------
(***************************************************************************)
(* The merchant pilot harness (demo/merchant_pilot/app.py): one flow, the  *)
(* requests that act on it, and the cleanup task.                          *)
(*                                                                         *)
(* The harness is one asyncio event loop.  Its handlers are coroutines:    *)
(* they interleave only where they await Isnad, so each action below runs  *)
(* from one await to the next.  flow.lock is a threading.Lock: a coroutine *)
(* that finds it held by a suspended one blocks the thread they both run   *)
(* on, and then nothing runs again (frozen).  Isnad's consent and trust    *)
(* session are external, as the harness sees them over HTTP; any answer    *)
(* can be lost, before or after Isnad acted on the request.                *)
(***************************************************************************)
EXTENDS Naturals, FiniteSets, Sequences

CONSTANTS
  Req, None,
  PhoneRetention,  \* PHONE_RETENTION_SECONDS
  FlowRetention,   \* FLOW_RETENTION_SECONDS
  MaxSessions,     \* bound on the trust sessions Isnad opens
  MaxTime          \* bound on the clock

PilotAssumption ==
  /\ None \notin Req
  /\ {PhoneRetention, FlowRetention, MaxSessions, MaxTime} \subseteq Nat

VARIABLES
  now,
  consent,  \* Isnad's consent, GONE past its retention
  trust,    \* Isnad's trust sessions for this number, in the order opened
  flow,     \* the FlowRecord
  stored,   \* whether the FlowStore still holds it
  lock,     \* the request that holds flow.lock across an await, or None
  req,      \* what each request awaits, and what Isnad answered it
  frozen    \* the event loop is blocked on flow.lock

vars == <<now, consent, trust, flow, stored, lock, req, frozen>>

-----------------------------------------------------------------------------
UpstreamStatus == {"PENDING", "AUTHORIZED", "COMPLETED", "DENIED", "FAILED", "EXPIRED"}
TERMINAL_STATES == {"COMPLETED", "DENIED", "FAILED", "EXPIRED", "UNAVAILABLE"}

FlowRecord ==
  [status : UpstreamStatus \cup {"UNAVAILABLE"}, verifying : BOOLEAN, result : BOOLEAN,
   session : 0..MaxSessions, creating : BOOLEAN, released : BOOLEAN, phone : BOOLEAN,
   phoneExpires : Nat \cup {None}]

SessionStatus == {"ACTIVE", "REVOKED", "EXPIRED"}

\* What a request awaits of Isnad, and the answer on its way back.
Asked ==
  [awaits : {"none"}, answer : {None}]
  \cup [awaits : {"status"}, answer : {None, "GONE"} \cup UpstreamStatus]
  \cup [awaits : {"verify"}, answer : {None, "OK", "CONFLICT"}]
  \cup [awaits : {"open"}, answer : {None} \cup 1..MaxSessions]
  \cup [awaits : {"swap"}, answer : {None, "OK"}]
  \cup [awaits : {"release"}, answer : {None} \cup SessionStatus]

TypeOK ==
  /\ now \in 0..MaxTime
  /\ consent \in UpstreamStatus \cup {"GONE"}
  /\ trust \in Seq(SessionStatus) /\ Len(trust) <= MaxSessions
  /\ flow \in FlowRecord
  /\ stored \in BOOLEAN
  /\ lock \in Req \cup {None}
  /\ req \in [Req -> Asked]
  /\ frozen \in BOOLEAN

\* The flow as create_flow stores it.
NewFlow == [status |-> "PENDING", verifying |-> FALSE, result |-> FALSE, session |-> 0,
            creating |-> FALSE, released |-> FALSE, phone |-> TRUE, phoneExpires |-> None]

Idle == [awaits |-> "none", answer |-> None]

Init ==
  /\ now = 0
  /\ consent = "PENDING"
  /\ trust = <<>>
  /\ flow = NewFlow
  /\ stored = TRUE
  /\ lock = None
  /\ req = [r \in Req |-> Idle]
  /\ frozen = FALSE

-----------------------------------------------------------------------------
\* FlowRecord.minimize.
Minimized(f) ==
  LET expires == IF f.phoneExpires = None THEN now + PhoneRetention ELSE f.phoneExpires
  IN  IF f.status \notin TERMINAL_STATES THEN f
      ELSE [f EXCEPT !.phoneExpires = expires,
                     !.phone = @ /\ f.status = "COMPLETED" /\ f.session = 0 /\ now < expires]

\* A step that takes flow.lock on its way, ending with the flow as f.  If a
\* suspended request holds the lock, the loop blocks there for good.
Locking(f) ==
  /\ ~frozen
  /\ IF lock = None THEN flow' = f /\ frozen' = FALSE ELSE frozen' = TRUE /\ UNCHANGED flow

Answers(r, waiting) == req[r].awaits = waiting /\ req[r].answer # None
Await(r, what) == req' = [req EXCEPT ![r] = [awaits |-> what, answer |-> None]]
Finish(r) == req' = [req EXCEPT ![r] = Idle]
IsnadAnswers(r, a) == req' = [req EXCEPT ![r].answer = a]

\* FlowStore.get_owned and the cleanup task: every flow is minimized under
\* its lock, and an old one is dropped.
Sweep ==
  /\ Locking(Minimized(flow))
  /\ stored' = (stored /\ now < FlowRetention)

Cleanup ==
  /\ Sweep
  /\ UNCHANGED <<now, consent, trust, lock, req>>

-----------------------------------------------------------------------------
\* GET /api/flows/{id}: _poll_and_maybe_complete.

Poll(r) ==
  /\ req[r] = Idle /\ stored /\ now < FlowRetention
  /\ ~flow.result /\ flow.status \notin {"DENIED", "FAILED", "EXPIRED", "UNAVAILABLE"}
  /\ Sweep
  /\ Await(r, "status")
  /\ UNCHANGED <<now, consent, trust, lock>>

WantsResult(f) == f.status = "AUTHORIZED" \/ (f.status = "COMPLETED" /\ ~f.result)

StatusArrives(r) ==
  /\ Answers(r, "status")
  /\ LET f == [flow EXCEPT !.status = IF req[r].answer = "GONE" THEN "UNAVAILABLE" ELSE req[r].answer]
     IN  \/ /\ WantsResult(f) /\ ~f.verifying /\ ~f.result
            /\ Locking([f EXCEPT !.verifying = TRUE])
            /\ Await(r, "verify")
         \/ /\ ~WantsResult(f) \/ f.verifying \/ f.result
            /\ Locking(Minimized(f))
            /\ Finish(r)
  /\ UNCHANGED <<now, consent, trust, stored, lock>>

VerdictArrives(r) ==
  /\ Answers(r, "verify")
  /\ Locking(Minimized(
       IF req[r].answer = "OK"
       THEN [flow EXCEPT !.verifying = FALSE, !.result = TRUE, !.status = "COMPLETED"]
       ELSE [flow EXCEPT !.verifying = FALSE]))
  /\ Finish(r)
  /\ UNCHANGED <<now, consent, trust, stored, lock>>

\* Mutant: a lost answer leaves the verifying flag up.
PollLostStaysVerifying(r) ==
  /\ req[r].awaits \in {"status", "verify"}
  /\ Locking(Minimized(flow))
  /\ Finish(r)
  /\ UNCHANGED <<now, consent, trust, stored, lock>>

\* The call fails, or answers something the poll ignores.
PollLost(r) ==
  /\ req[r].awaits \in {"status", "verify"}
  /\ Locking(Minimized([flow EXCEPT !.verifying = @ /\ req[r].awaits # "verify"]))
  /\ Finish(r)
  /\ UNCHANGED <<now, consent, trust, stored, lock>>

-----------------------------------------------------------------------------
\* The trust session bound to the order.

\* Mutant: nothing says that a session is already being created.
OpenTrustSessionTwice(r) ==
  /\ req[r] = Idle /\ stored /\ now < FlowRetention /\ flow.result
  /\ flow.session = 0 /\ Minimized(flow).phone
  /\ Sweep
  /\ Await(r, "open")
  /\ UNCHANGED <<now, consent, trust, lock>>

OpenTrustSession(r) ==
  /\ req[r] = Idle /\ stored /\ now < FlowRetention /\ flow.result
  /\ flow.session = 0 /\ ~flow.creating /\ Minimized(flow).phone
  /\ Locking([Minimized(flow) EXCEPT !.creating = TRUE])
  /\ Await(r, "open")
  /\ UNCHANGED <<now, consent, trust, stored, lock>>

SessionOpened(r) ==
  /\ Answers(r, "open")
  /\ Locking(Minimized([flow EXCEPT !.session = req[r].answer, !.creating = FALSE]))
  /\ Finish(r)
  /\ UNCHANGED <<now, consent, trust, stored, lock>>

OpenLost(r) ==
  /\ req[r].awaits = "open"
  /\ Locking(Minimized([flow EXCEPT !.creating = FALSE]))
  /\ Finish(r)
  /\ UNCHANGED <<now, consent, trust, stored, lock>>

SimulateSwap(r) ==
  /\ req[r] = Idle /\ stored /\ now < FlowRetention /\ flow.session # 0
  /\ Sweep
  /\ Await(r, "swap")
  /\ UNCHANGED <<now, consent, trust, lock>>

SwapEnds(r) ==
  /\ ~frozen /\ req[r].awaits = "swap"
  /\ Finish(r)
  /\ UNCHANGED <<now, consent, trust, flow, stored, lock, frozen>>

\* release_order keeps flow.lock while it awaits the session's status.
ReleaseOrder(r) ==
  /\ req[r] = Idle /\ stored /\ now < FlowRetention
  /\ flow.session # 0 /\ ~flow.released
  /\ Sweep
  /\ lock' = IF lock = None THEN r ELSE lock
  /\ Await(r, "release")
  /\ UNCHANGED <<now, consent, trust>>

ReleaseArrives(r) ==
  /\ ~frozen /\ Answers(r, "release")
  /\ flow' = [flow EXCEPT !.released = req[r].answer = "ACTIVE"]
  /\ lock' = None
  /\ Finish(r)
  /\ UNCHANGED <<now, consent, trust, stored, frozen>>

ReleaseLost(r) ==
  /\ ~frozen /\ req[r].awaits = "release"
  /\ lock' = None
  /\ Finish(r)
  /\ UNCHANGED <<now, consent, trust, flow, stored, frozen>>

-----------------------------------------------------------------------------
\* Isnad.

AnswerStatus(r) ==
  /\ req[r] = [awaits |-> "status", answer |-> None]
  /\ IsnadAnswers(r, consent)
  /\ UNCHANGED <<now, consent, trust, flow, stored, lock, frozen>>

\* A completed consent answers the result it kept; any other state conflicts.
AnswerVerify(r) ==
  /\ req[r] = [awaits |-> "verify", answer |-> None]
  /\ \/ /\ consent \in {"AUTHORIZED", "COMPLETED"}
        /\ consent' = "COMPLETED" /\ IsnadAnswers(r, "OK")
     \/ /\ consent = "AUTHORIZED"
        /\ consent' = "FAILED" /\ IsnadAnswers(r, "CONFLICT")
     \/ /\ consent \notin {"AUTHORIZED", "COMPLETED"}
        /\ IsnadAnswers(r, "CONFLICT") /\ UNCHANGED consent
  /\ UNCHANGED <<now, trust, flow, stored, lock, frozen>>

AnswerOpen(r) ==
  /\ req[r] = [awaits |-> "open", answer |-> None]
  /\ Len(trust) < MaxSessions
  /\ trust' = Append(trust, "ACTIVE")
  /\ IsnadAnswers(r, Len(trust'))
  /\ UNCHANGED <<now, consent, flow, stored, lock, frozen>>

AnswerSwap(r) ==
  /\ req[r] = [awaits |-> "swap", answer |-> None]
  /\ trust[flow.session] = "ACTIVE"
  /\ trust' = [trust EXCEPT ![flow.session] = "REVOKED"]
  /\ IsnadAnswers(r, "OK")
  /\ UNCHANGED <<now, consent, flow, stored, lock, frozen>>

AnswerRelease(r) ==
  /\ req[r] = [awaits |-> "release", answer |-> None]
  /\ IsnadAnswers(r, trust[flow.session])
  /\ UNCHANGED <<now, consent, trust, flow, stored, lock, frozen>>

ConsentMoves ==
  /\ \/ consent = "PENDING" /\ consent' \in {"AUTHORIZED", "DENIED", "EXPIRED"}
     \/ consent \in TERMINAL_STATES /\ consent' = "GONE"
  /\ UNCHANGED <<now, trust, flow, stored, lock, req, frozen>>

\* Time passes for Isnad's sessions too.
Tick ==
  /\ now < MaxTime
  /\ now' = now + 1
  /\ \E ends \in SUBSET {i \in DOMAIN trust : trust[i] = "ACTIVE"} :
       trust' = [i \in DOMAIN trust |-> IF i \in ends THEN "EXPIRED" ELSE trust[i]]
  /\ UNCHANGED <<consent, flow, stored, lock, req, frozen>>

Next ==
  \/ \E r \in Req :
       \/ Poll(r) \/ StatusArrives(r) \/ VerdictArrives(r) \/ PollLost(r)
       \/ OpenTrustSession(r) \/ SessionOpened(r) \/ OpenLost(r)
       \/ SimulateSwap(r) \/ SwapEnds(r)
       \/ ReleaseOrder(r) \/ ReleaseArrives(r) \/ ReleaseLost(r)
       \/ AnswerStatus(r) \/ AnswerVerify(r) \/ AnswerOpen(r) \/ AnswerSwap(r) \/ AnswerRelease(r)
  \/ Cleanup \/ ConsentMoves \/ Tick

Spec == Init /\ [][Next]_vars

-----------------------------------------------------------------------------
Awaiting(what) == {r \in Req : req[r].awaits = what}

\* However polls overlap and whichever answers are lost, the verifying flag
\* is up exactly while one request is in Isnad's /verify: it never sticks,
\* and never admits two (_poll_and_maybe_complete).
OneVerifyAtATime ==
  /\ TypeOK
  /\ ~frozen => Cardinality(Awaiting("verify")) = IF flow.verifying THEN 1 ELSE 0

\* The flow's trust session never changes once bound, and a request to open
\* one is never in flight beside it (open_trust_session).
SessionStaysBound ==
  [][ /\ flow.session # 0 => flow'.session = flow.session
      /\ flow.session # 0 => Awaiting("open")' = {} ]_vars

\* release_order: "The lock makes the check-then-set atomic against a
\* concurrent release or the swap simulation racing it in this same process".
\* What it makes of a second request is a blocked event loop.
LoopNeverBlocks == ~frozen

-----------------------------------------------------------------------------
(* The inductive invariant the proofs use *)

\* While the loop runs, the verifying flag stands for one request.
OneVerifies ==
  ~frozen => \/ flow.verifying /\ \E r \in Req : Awaiting("verify") = {r}
             \/ ~flow.verifying /\ Awaiting("verify") = {}

\* So does the creating flag, and only for as long as no session is bound.
OneCreates ==
  /\ ~frozen => \/ flow.creating /\ \E r \in Req : Awaiting("open") = {r}
                \/ ~flow.creating /\ Awaiting("open") = {}
  /\ flow.session # 0 => Awaiting("open") = {}

\* Sessions the harness was told of are sessions Isnad opened.
SessionsWereOpened ==
  /\ flow.session \in 0..Len(trust)
  /\ \A r \in Req :
       /\ req[r].awaits = "open" /\ req[r].answer # None => req[r].answer <= Len(trust)
       /\ req[r].awaits \in {"swap", "release"} => flow.session # 0

IInv == OneVerifies /\ OneCreates /\ SessionsWereOpened
=============================================================================
