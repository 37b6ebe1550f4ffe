------------------------------- MODULE LabelLine -------------------------------
(***************************************************************************)
(* The labels of one chain and dimension, the requests that report them    *)
(* and the keys that answer a repeated one, and what is promised of them.  *)
(* OutcomeLabels has the clients, the reports and the retention sweeps.    *)
(***************************************************************************)
EXTENDS Naturals, FiniteSets

CONSTANTS
  Tab,           \* requests of the harness: browser tabs
  Merchant,      \* requests of a merchant that calls the API itself, with one key
  Value,         \* what a dimension can be labelled
  OutcomeEvent,  \* event ids, one for each report that can be stored
  NoEvent

VARIABLES
  event,    \* MerchantOutcomeEventRow by event_id; "unused" and "purged" ones too
  record,   \* IdempotencyRecordRows: what each one's key answers
  call,     \* each request: where it is, what it asks and what it has read
  known,    \* flow.outcomes: the head the harness believes in
  pending   \* flow.pending_outcome_ops

Refusals == {"idempotency_key_reused", "dimension_already_labelled", "supersede_target_not_found"}
Caller == Tab \cup Merchant
Body == [value : Value, at : Nat, supersedes : OutcomeEvent \cup {NoEvent}]
MerchantKey == <<NoEvent, NoEvent>>
ReportKey == {MerchantKey} \cup (OutcomeEvent \cup {NoEvent}) \X Value
Submission == [key : ReportKey, body : Body]
NotYet == [state |-> "unused"]
Gone == [state |-> "purged"]
Label == [state : {"stored"}, value : Value, supersedes : OutcomeEvent \cup {NoEvent},
          supersededBy : OutcomeEvent \cup {NoEvent}, reported : Nat]
Call ==
  [pc : {"idle"}] \cup [pc : {"sent", "read"}, request : Submission]
  \cup [pc : {"answered"}, request : Submission, answer : OutcomeEvent \cup Refusals]
Stored == {e \in OutcomeEvent : event[e].state = "stored"}
Current == {e \in Stored : event[e].supersededBy = NoEvent}

LabelsTyped ==
  /\ event \in [OutcomeEvent -> {NotYet, Gone} \cup Label]
  /\ \A r \in record : r \in [key : ReportKey, body : Body, event : OutcomeEvent, created : Nat]
  /\ \A r, s \in record : r.key = s.key => r = s
  /\ call \in [Caller -> Call]
  /\ known \in OutcomeEvent \cup {NoEvent}
  /\ pending = NoEvent \/ pending \in Submission

-----------------------------------------------------------------------------
\* Whatever corrections compete, the labels of a dimension form one line: at
\* most one is current, no two replace the same one, and each superseded one
\* names the label that replaced it (report's compare-and-swap and index).
LabelsFormALine ==
  /\ LabelsTyped
  /\ Cardinality(Current) <= 1
  /\ \A e, f \in Stored : e # f /\ event[e].supersedes # NoEvent => event[e].supersedes # event[f].supersedes
  /\ \A e \in Stored \ Current :
       LET by == event[e].supersededBy
       IN  event[by].state # "unused" /\ (by \in Stored => event[by].supersedes = e)

\* A report is answered with a label only if that label is what it asked to
\* store, however often its key was used and whoever committed first.
AnswersAreHonest ==
  \A c \in Caller :
    call[c].pc = "answered" /\ call[c].answer \in Stored =>
      /\ event[call[c].answer].value = call[c].request.body.value
      /\ event[call[c].answer].supersedes = call[c].request.body.supersedes
=============================================================================
