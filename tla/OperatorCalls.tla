----------------------------- MODULE OperatorCalls -----------------------------
(***************************************************************************)
(* What a verification asks of an operator and what it makes of the        *)
(* answer: the adapters of app/providers, the bounded pool on which the    *)
(* Nokia SDK's blocking calls run, and the date an investigation buys for  *)
(* a swap it has already checked (app/agent/investigator.py).              *)
(*                                                                         *)
(* asyncio.wait_for gives up on a call without stopping it: one that is    *)
(* queued is cancelled, one whose thread runs keeps its worker until the   *)
(* SDK's own time-out.  Time is left out; either end may come first.       *)
(***************************************************************************)
EXTENDS OperatorLinks, Naturals, FiniteSets

CONSTANTS
  Workers,              \* max_workers of _NAC_POOL
  OperationsOf,         \* the checks a call may make, or the two consent operations
  Judged,               \* calls of the judge's paired runs
  Deployments           \* settings.provider: the values the checked build may have

Timed == {"sim_swap", "device_swap"}
Consent == {"begin_number_verification", "exchange_code"}
ASSUME OperatorAssumption ==
  /\ Workers \in Nat \ {0} /\ Judged \subseteq Call
  /\ \A c \in Judged : OperationsOf[c] \subseteq Timed
  /\ Deployments \subseteq {"mock", "hybrid", "nac", "nac_fake"}

VARIABLE job  \* the pool's side of each phase, "check" and "date"

vars == <<provider, input, call, job, replied>>

Phase == {"check", "date"}
Running == {x \in Call \X Phase : job[x[1]][x[2]] = "running"}

-----------------------------------------------------------------------------
(* Reading an answer *)

Raised == <<"raised", "RuntimeError">>

\* A URL the SDK offers, if it is https ("no" is one that is not).
Authorized(reply) == IF reply = "yes" THEN <<"url", "https">> ELSE Raised

\* An access token, if an id_token came with it and validates with this request's
\* nonce ("no" is another request's; "none" an access token alone), on either path.
Exchanged(reply) == IF reply = "yes" THEN <<"token", "bound">> ELSE Raised

\* How the SDK raises: "401" stands for 403 too, "404" for 422.  A body without the field its model requires, and a failure
\* of the transport, raise without a status: as "500" does.
Statuses == {"401", "404", "429", "500"}

ErrorSignal(reply) ==
  CASE reply = "401" -> "CONSENT_REQUIRED"
    [] reply = "404" -> "EVIDENCE_UNAVAILABLE"
    [] OTHER -> "PROVIDER_UNAVAILABLE"

\* Mutant: an answer that is not a clear yes is the unfavourable one.
InterpretFalsy(operation, reply) ==
  CASE operation = "begin_number_verification" -> Authorized(reply)
    [] operation = "exchange_code" -> Exchanged(reply)
    [] operation = "number_verify" /\ reply = "none" -> Flag("NUMBER_MISMATCH")
    [] OTHER -> IF reply \in DOMAIN Reading[operation] THEN Reading[operation][reply]
                ELSE Info(ErrorSignal(reply))

Interpret(operation, reply) ==
  CASE operation = "begin_number_verification" -> Authorized(reply)
    [] operation = "exchange_code" -> Exchanged(reply)
    [] OTHER -> IF reply \in DOMAIN Reading[operation] THEN Reading[operation][reply]
                ELSE Info(ErrorSignal(reply))

\* Preconditions: the question cannot be asked, so no call is made.
Lacking ==
  [location_verify |-> [claim |-> Info("EVIDENCE_UNAVAILABLE")],
   number_recycling |-> [reference |-> Info("RECYCLING_REFERENCE_MISSING"),
                         past_reference |-> Info("RECYCLING_REFERENCE_INVALID")],
   number_verify |-> [token |-> Info("CONSENT_REQUIRED")],
   device_intelligence |-> [adapter |-> Info("EVIDENCE_UNAVAILABLE")]]

ASSUME OperationsAssumption ==
  \A c \in Call : OperationsOf[c] \subseteq Consent \cup DOMAIN Reading \cup DOMAIN Lacking

Precondition(c) ==
  IF input[c].lacks = "nothing" THEN {} ELSE {Lacking[Operation(c)][input[c].lacks]}

\* What each operation may be asked with; nothing here answers for device intelligence.
Inputs(operations) ==
  {[operation |-> o, lacks |-> "nothing"] : o \in operations \ {"device_intelligence"}} \cup
  UNION {{[operation |-> o, lacks |-> l] : l \in DOMAIN Lacking[o]} : o \in operations \cap DOMAIN Lacking}

\* timing.normalize and enrich_timing's exceptions, over what a date answer can be.
\* (Not a timestamp, without a zone, or in the future: "unusable".)
DateAnswers == {"inside", "outside", "null", "unusable"} \cup Statuses

Availability(answer) ==
  CASE answer \in {"inside", "outside"} -> "available"
    [] answer = "null" -> "no_date"
    [] answer \in {"401", "404", "429"} -> "denied"
    [] OTHER -> "invalid"

\* with_window_agreement: the date lies outside the window the boolean speaks of.
Disagrees(answer, link) ==
  answer = "outside" /\ link[2] \in {"SIM_SWAPPED", "DEVICE_SWAPPED"}

-----------------------------------------------------------------------------
Undated(pc, link, date) ==
  [pc |-> pc, link |-> link, date |-> date, disagrees |-> FALSE, charged |-> FALSE]

Set(c, r) == call' = [call EXCEPT ![c] = r]
Linked(c, link) == Set(c, Undated("linked", link, "unset"))
SetJob(c, p, s) == job' = [job EXCEPT ![c] = [@ EXCEPT ![p] = s]]
SetReply(c, p, reply) == replied' = [replied EXCEPT ![c] = [@ EXCEPT ![p] = reply]]

\* MockProvider.gather: the fixture, behind the same preconditions as the network.
MockGather(c) ==
  /\ provider[c] \in {"mock", "hybrid"}
  /\ \/ \E link \in Precondition(c) : Operation(c) # "number_verify" /\ Linked(c, link)
     \/ /\ Precondition(c) = {} \/ Operation(c) = "number_verify"
        /\ IF Operation(c) \in Consent THEN Linked(c, Raised)
           ELSE \E reply \in {"yes", "no"} : Linked(c, Reading[Operation(c)][reply])
  /\ UNCHANGED <<job, replied>>

\* FakeNacProvider: Number Verification and its code exchange over HTTP, a URL on
\* its own loopback, and nothing else.
FakeGather(c) ==
  /\ provider[c] = "nac_fake"
  /\ \/ /\ Operation(c) \notin Consent \cup {"number_verify"} \/ Precondition(c) # {}
        /\ Linked(c, IF Operation(c) = "number_verify" THEN Info("CONSENT_REQUIRED")
                     ELSE Info("EVIDENCE_UNAVAILABLE"))
        /\ UNCHANGED replied
     \/ /\ Operation(c) = "begin_number_verification" /\ Linked(c, <<"url", "loopback">>)
        /\ UNCHANGED replied
     \/ /\ Operation(c) \in {"exchange_code", "number_verify"} /\ Precondition(c) = {}
        /\ \E reply \in {"yes", "no", "none", "500"} :
             /\ Linked(c, Interpret(Operation(c), reply))
             /\ SetReply(c, "check", reply)
  /\ UNCHANGED job

\* NacProvider.gather hands the blocking call to the pool and waits.
NacGather(c) ==
  /\ provider[c] \in {"nac", "paired"}
  /\ Set(c, Undated("check", <<>>, "unset")) /\ SetJob(c, "check", "queued")
  /\ UNCHANGED replied

Gather(c) ==
  /\ call[c].pc = "idle"
  /\ MockGather(c) \/ FakeGather(c) \/ NacGather(c)
  /\ UNCHANGED <<provider, input>>

-----------------------------------------------------------------------------
(* The pool *)

\* A worker takes a job.  A precondition is decided here, before any SDK call.
Start(c, p) ==
  /\ job[c][p] = "queued" /\ Cardinality(Running) < Workers
  /\ IF p = "check" /\ Precondition(c) # {}
     THEN /\ SetJob(c, p, "returned") /\ UNCHANGED replied
          /\ \E link \in Precondition(c) : Linked(c, link)
     ELSE /\ SetJob(c, p, "running") /\ UNCHANGED call
          /\ SetReply(c, p, "asked")
  /\ UNCHANGED <<provider, input>>

\* The judge's transport answers a paired check from its pinned contract.
Replies(c, p) ==
  IF p = "date" THEN DateAnswers
  ELSE IF provider[c] = "paired" THEN {"yes", "no", "500"}
  ELSE IF Operation(c) \in Consent THEN {"yes", "no", "none"} \cup Statuses
  ELSE Statuses \cup DOMAIN Reading[Operation(c)]

Awaits(c, p) == call[c].pc = p

\* Charged whether or not it succeeded, unless the provider has no date operation.
Charge(availability) == availability # "unsupported"

Dated(c, availability, disagrees) ==
  Set(c, [pc |-> "done", link |-> call[c].link, date |-> availability, disagrees |-> disagrees,
          charged |-> Charge(availability)])

Return(c, p) ==
  /\ job[c][p] = "running" /\ SetJob(c, p, "returned")
  /\ \/ /\ ~Awaits(c, p) /\ UNCHANGED call
        /\ SetReply(c, p, "too late")
     \/ \E reply \in Replies(c, p) :
          /\ Awaits(c, p)
          /\ SetReply(c, p, reply)
          /\ IF p = "check" THEN Linked(c, Interpret(Operation(c), reply))
             ELSE Dated(c, Availability(reply), Disagrees(reply, call[c].link))
  /\ UNCHANGED <<provider, input>>

\* Mutant: only a call whose thread runs is given up on.
GivesUpRunning(c, p) == call[c].pc = p /\ job[c][p] = "running"

GivesUp(c, p) == call[c].pc = p

\* wait_for's time-out: a queued job is cancelled, a running one abandoned.
TimeOut(c, p) ==
  /\ GivesUp(c, p)
  /\ SetJob(c, p, IF job[c][p] = "queued" THEN "cancelled" ELSE job[c][p])
  /\ IF p = "date" THEN Dated(c, "timeout", FALSE)
     ELSE Linked(c, IF Operation(c) \in Consent THEN Raised
                    ELSE Info("PROVIDER_UNAVAILABLE"))
  /\ UNCHANGED <<provider, input, replied>>

-----------------------------------------------------------------------------
(* The date of a swap: _enrich_timing, when the policy enables it *)

\* The mock's dates: one fresh, one old, one the operator does not have.
MockDate(c) ==
  /\ provider[c] = "mock"
  /\ \E answer \in {"inside", "outside", "null"} :
       Dated(c, Availability(answer), Disagrees(answer, call[c].link))
  /\ UNCHANGED job

\* Hybrid's lists are empty on every build that starts, and the scripted side it
\* names does not exist: the error is recorded as a date request that failed.
HybridDate(c) == provider[c] = "hybrid" /\ Dated(c, "invalid", FALSE) /\ UNCHANGED job

NacDate(c) ==
  /\ provider[c] = "nac"
  /\ Set(c, Undated("date", call[c].link, "unset")) /\ SetJob(c, "date", "queued")

\* The paired and the fake provider have no such method: nothing is asked.
NoDate(c) == provider[c] \in {"paired", "nac_fake"} /\ Dated(c, "unsupported", FALSE) /\ UNCHANGED job

EnrichTiming(c) ==
  /\ call[c].pc = "linked"
  /\ \/ Operation(c) \notin Timed /\ Set(c, Undated("done", call[c].link, "unset")) /\ UNCHANGED job
     \/ /\ Operation(c) \in Timed
        /\ \/ MockDate(c) \/ HybridDate(c) \/ NacDate(c) \/ NoDate(c)
           \/ /\ Set(c, Undated("done", call[c].link, "not_attempted"))
              /\ UNCHANGED job
  /\ UNCHANGED <<provider, input, replied>>

-----------------------------------------------------------------------------
Init ==
  /\ \E d \in Deployments : provider = [c \in Call |-> IF c \in Judged THEN "paired" ELSE d]
  /\ input \in {f \in [Call -> Inputs(UNION {OperationsOf[c] : c \in Call})] :
                 \A c \in Call : f[c] \in Inputs(OperationsOf[c])}
  /\ call = [c \in Call |-> Undated("idle", <<>>, "unset")]
  /\ job = [c \in Call |-> [p \in Phase |-> "none"]]
  /\ replied = [c \in Call |-> [p \in Phase |-> "not asked"]]

Next ==
  \/ \E c \in Call : Gather(c) \/ EnrichTiming(c)
  \/ \E c \in Call, p \in Phase : Start(c, p) \/ Return(c, p) \/ TimeOut(c, p)

\* The event loop runs its callbacks and its timers; an operator may never answer.
Fairness ==
  /\ \A c \in Call : WF_vars(Gather(c)) /\ WF_vars(EnrichTiming(c))
  /\ \A c \in Call, p \in Phase : WF_vars(TimeOut(c, p))

Spec == Init /\ [][Next]_vars /\ Fairness

-----------------------------------------------------------------------------
(* Properties; OperatorLinks has those about links *)

\* However many workers a silent operator holds, every call ends with a link.
EveryCallEnds == \A c \in Call : <>(call[c].pc = "done")

\* app/agent/investigator.py:897-899: a date is charged when the call was actually
\* attempted, because the operator was asked either way.
ChargedWasAsked ==
  \A c \in Call :
    call[c].charged => provider[c] = "mock" \/ replied[c].date # "not asked"

-----------------------------------------------------------------------------
(* What makes the properties inductive                                     *)

Signals == {"EVIDENCE_UNAVAILABLE", "CONSENT_REQUIRED", "PROVIDER_UNAVAILABLE",
            "RECYCLING_REFERENCE_MISSING", "RECYCLING_REFERENCE_INVALID"}
Readings == UNION {{Reading[o][reply] : reply \in DOMAIN Reading[o]} : o \in DOMAIN Reading}
Others == {Raised, <<"url", "https">>, <<"url", "loopback">>, <<"token", "bound">>}
Link == Readings \cup {Info(signal) : signal \in Signals} \cup Others

Dates == {"unset", "not_attempted", "available", "no_date", "denied", "invalid", "timeout",
          "unsupported"}

TypeOK ==
  /\ provider \in [Call -> {"mock", "hybrid", "nac", "paired", "nac_fake"}]
  /\ \A c \in Call : input[c] \in Inputs(OperationsOf[c])
  /\ call \in [Call -> [pc : {"idle", "check", "linked", "date", "done"}, link : Link \cup {<<>>},
                        date : Dates, disagrees : BOOLEAN, charged : BOOLEAN]]
  /\ job \in [Call -> [Phase -> {"none", "queued", "running", "returned", "cancelled"}]]
  /\ replied \in [Call -> [Phase -> {"not asked", "asked", "too late", "yes", "no", "partial", "none"}
                                   \cup DateAnswers]]

IsFact(link) == link[1] \in {"PASS", "FLAG"} \/ link \in {<<"url", "https">>, <<"token", "bound">>}

\* A fact stands because its check is over, and a job is queued only for a call
\* that waits for it.
CheckIsOver(c) ==
  /\ call[c].pc \in {"idle", "check"} => call[c].link = <<>>
  /\ call[c].pc = "idle" => job[c]["check"] = "none"
  /\ provider[c] \in {"nac", "paired", "nac_fake"} /\ call[c].link # <<>> /\ IsFact(call[c].link)
       => job[c]["check"] \in {"none", "returned"}
  /\ \A p \in Phase : job[c][p] = "queued" => call[c].pc = p
  /\ job[c]["check"] = "running" => Precondition(c) = {}

\* A date that was asked for is waited for, or charged.
DateIsCharged(c) ==
  /\ replied[c]["date"] # "not asked" => job[c]["date"] # "none"
  /\ job[c]["date"] # "none" => call[c].pc = "date" \/ (call[c].pc = "done" /\ call[c].charged)

IInv ==
  /\ \A c \in Call : CheckIsOver(c) /\ DateIsCharged(c)
  /\ FactsAreAnswers
=============================================================================
