----------------------------- MODULE OutcomeLabels -----------------------------
(***************************************************************************)
(* Merchant-reported outcomes of one chain and dimension (db/outcomes.py,  *)
(* api/routes_outcomes.py), and the clients that report them: the pilot    *)
(* harness, which freezes an operation before it sends it                  *)
(* (demo/merchant_pilot/app.py, report_flow_outcome), and a merchant that  *)
(* calls the API itself and may repeat a call.                             *)
(*                                                                         *)
(* Each request runs in a worker thread with one database session: it      *)
(* reads, then commits, and other requests commit in between.  A request's *)
(* fingerprint is its body.  Answers can be lost after the commit.         *)
(***************************************************************************)
EXTENDS LabelLine

CONSTANTS
  Retention,    \* settings.outcome_retention_seconds
  KeyTTL,       \* settings.idempotency_ttl_seconds, as the sweep applies it
  MaxTime       \* bound on the clock

ASSUME OutcomeAssumption ==
  /\ NoEvent \notin OutcomeEvent \cup Value
  /\ Refusals \cap OutcomeEvent = {}
  /\ {Retention, KeyTTL, MaxTime} \subseteq Nat

VARIABLE now

vars == <<now, event, record, call, known, pending>>

TypeOK == now \in 0..MaxTime /\ LabelsTyped

RecordFor(k) == {r \in record : r.key = k}

Init ==
  /\ now = 0
  /\ event = [e \in OutcomeEvent |-> NotYet]
  /\ record = {}
  /\ call = [c \in Caller |-> [pc |-> "idle"]]
  /\ known = NoEvent
  /\ pending = NoEvent

-----------------------------------------------------------------------------
\* The clients.

Send(c, request) == call' = [call EXCEPT ![c] = [pc |-> "sent", request |-> request]]

Fresh(v) == [key |-> <<known, v>>, body |-> [value |-> v, at |-> now, supersedes |-> known]]

\* The same click as the last one repeats the frozen operation verbatim.
Frozen(v) ==
  IF pending # NoEvent /\ pending.key = <<known, v>> THEN pending ELSE Fresh(v)

Click(c, v) ==
  /\ c \in Tab /\ call[c].pc = "idle"
  /\ Send(c, Frozen(v))
  /\ pending' = Frozen(v)
  /\ UNCHANGED <<now, event, record, known>>

\* A merchant names a label it has seen and says when the outcome occurred;
\* it may send its key again, with the same body or another.
Report(c, v, supersedes) ==
  /\ c \in Merchant /\ call[c].pc \in {"idle", "answered"}
  /\ supersedes \in Stored \cup {NoEvent}
  /\ Send(c, [key |-> MerchantKey,
              body |-> [value |-> v, at |-> 0, supersedes |-> supersedes]])
  /\ UNCHANGED <<now, event, record, known, pending>>

Learn(c) ==
  /\ c \in Tab /\ call[c].pc = "answered"
  /\ IF call[c].answer \in OutcomeEvent
     THEN known' = call[c].answer /\ pending' = NoEvent
     ELSE UNCHANGED <<known, pending>>
  /\ call' = [call EXCEPT ![c] = [pc |-> "idle"]]
  /\ UNCHANGED <<now, event, record>>

AnswerLost(c) ==
  /\ c \in Tab /\ call[c].pc \in {"sent", "answered"}
  /\ call' = [call EXCEPT ![c] = [pc |-> "idle"]]
  /\ UNCHANGED <<now, event, record, known, pending>>

-----------------------------------------------------------------------------
\* outcomes.report.

\* Mutant: the key alone decides what is replayed.
ReplayOfKeyAlone(q) == {r.event : r \in RecordFor(q.key)}

Answer(c, a) == call' = [call EXCEPT ![c] = [pc |-> "answered", request |-> call[c].request, answer |-> a]]

\* What a record answers: the event it recorded, or a conflict.
ReplayOf(q) ==
  {IF r.body = q.body THEN r.event ELSE "idempotency_key_reused" : r \in RecordFor(q.key)}

Refusal(q) ==
  IF q.body.supersedes = NoEvent THEN "dimension_already_labelled" ELSE "supersede_target_not_found"

\* Mutant: the head it supersedes may have been superseded meanwhile.
SupersedesUnchecked(e) == e \in Stored

\* The key, then the current head, are read.
Reads(c) ==
  /\ call[c].pc = "sent"
  /\ LET q == call[c].request
         wanted == IF q.body.supersedes = NoEvent THEN {} ELSE {q.body.supersedes}
     IN  \/ /\ ReplayOf(q) # {}
            /\ \E a \in ReplayOf(q) : Answer(c, a)
         \/ /\ ReplayOf(q) = {}
            /\ Current # wanted
            /\ Answer(c, Refusal(q))
         \/ /\ ReplayOf(q) = {}
            /\ Current = wanted
            /\ call' = [call EXCEPT ![c].pc = "read"]
  /\ UNCHANGED <<now, event, record, known, pending>>

\* The compare-and-swap finds its target still current.
Supersedes(e) == e \in Current

Row(q) == [state |-> "stored", value |-> q.body.value, supersedes |-> q.body.supersedes,
           supersededBy |-> NoEvent, reported |-> now]

\* The write commits, unless the compare-and-swap, the key or the index on
\* current labels refuses it.
Commits(c) ==
  /\ call[c].pc = "read"
  /\ LET q == call[c].request
         old == q.body.supersedes
     IN  \/ /\ old # NoEvent => Supersedes(old)
            /\ RecordFor(q.key) = {}
            /\ old = NoEvent => Current = {}
            /\ \E e \in OutcomeEvent :
                 /\ event[e] = NotYet
                 /\ event' = [x \in OutcomeEvent |->
                      IF x = e THEN Row(q)
                      ELSE IF x = old THEN [event[x] EXCEPT !.supersededBy = e]
                      ELSE event[x]]
                 /\ record' = record \cup
                      {[key |-> q.key, body |-> q.body, event |-> e, created |-> now]}
                 /\ Answer(c, e)
         \/ /\ old # NoEvent => Supersedes(old)
            /\ RecordFor(q.key) # {}
            /\ \E a \in ReplayOf(q) : Answer(c, a)
            /\ UNCHANGED <<event, record>>
         \/ /\ \/ old # NoEvent /\ ~Supersedes(old)
               \/ old = NoEvent /\ Current # {} /\ RecordFor(q.key) = {}
            /\ Answer(c, Refusal(q))
            /\ UNCHANGED <<event, record>>
  /\ UNCHANGED <<now, known, pending>>

-----------------------------------------------------------------------------
\* Retention: labels go by the time they were reported, current ones too.
PurgeOutcomes ==
  /\ event' = [e \in OutcomeEvent |->
       IF e \in Stored /\ event[e].reported + Retention <= now
       THEN Gone ELSE event[e]]
  /\ UNCHANGED <<now, record, call, known, pending>>

PurgeRecords ==
  /\ record' = {r \in record : now < r.created + KeyTTL}
  /\ UNCHANGED <<now, event, call, known, pending>>

Tick ==
  /\ now < MaxTime
  /\ now' = now + 1
  /\ UNCHANGED <<event, record, call, known, pending>>

Next ==
  \/ \E c \in Caller :
       \/ \E v \in Value : Click(c, v) \/ \E e \in OutcomeEvent \cup {NoEvent} : Report(c, v, e)
       \/ Learn(c) \/ AnswerLost(c) \/ Reads(c) \/ Commits(c)
  \/ PurgeOutcomes \/ PurgeRecords \/ Tick

Spec == Init /\ [][Next]_vars

-----------------------------------------------------------------------------
(* The inductive invariant the proofs use *)

\* What is named, by a label, a record or an answer, was stored once; so an event
\* id that has not been used cannot be named before its label exists.
NamedWereStored ==
  /\ \A e \in Stored : \A f \in {event[e].supersedes, event[e].supersededBy} \ {NoEvent} :
       event[f].state # "unused"
  /\ \A r \in record : event[r.event].state # "unused"
  /\ \A c \in Caller :
       call[c].pc = "answered" /\ call[c].answer \in OutcomeEvent
         => event[call[c].answer].state # "unused"

\* The two ends of a correction name each other for as long as both are kept.
LinksMatch ==
  /\ \A e, f \in Stored : event[e].supersedes = f => event[f].supersededBy = e
  /\ \A e, f \in Stored : event[e].supersededBy = f => event[f].supersedes = e

\* What a record would replay is what the label it names says.
RecordsMatch ==
  \A r \in record : r.event \in Stored =>
    /\ event[r.event].value = r.body.value
    /\ event[r.event].supersedes = r.body.supersedes

IInv ==
  /\ \A e, f \in Current : e = f
  /\ \A e, f \in Stored :
       e # f /\ event[e].supersedes # NoEvent => event[e].supersedes # event[f].supersedes
  /\ NamedWereStored
  /\ LinksMatch
  /\ RecordsMatch
  /\ AnswersAreHonest
=============================================================================
