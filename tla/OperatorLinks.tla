----------------------------- MODULE OperatorLinks -----------------------------
(***************************************************************************)
(* The links an investigation gets for its checks, beside what the         *)
(* operator answered, and what is promised of the two.  OperatorCalls has  *)
(* the calls and the providers that make them.                             *)
(***************************************************************************)
CONSTANT Call

VARIABLES
  provider,   \* the adapter each call goes through
  input,      \* its operation, and what its request lacks for it
  call,       \* the awaiting side: its progress, its link, its date, what it was charged
  replied     \* what the operator answered, if it was asked

Operation(c) == input[c].operation

Pass(signal) == <<"PASS", signal>>
Flag(signal) == <<"FLAG", signal>>
Info(signal) == <<"INFO", signal>>

Reading ==
  [sim_swap |-> [yes |-> Flag("SIM_SWAPPED"), no |-> Pass("SIM_STABLE")],
   device_swap |-> [yes |-> Flag("DEVICE_SWAPPED"), no |-> Pass("DEVICE_STABLE")],
   reachability |-> [yes |-> Pass("REACHABLE_NORMAL"), no |-> Flag("REACHABLE_UNAVAILABLE")],
   roaming |-> [yes |-> Info("ROAMING_NETWORK"), no |-> Pass("HOME_NETWORK")],
   location_verify |-> [yes |-> Pass("AT_CLAIMED_LOCATION"), no |-> Flag("NOT_AT_CLAIMED_LOCATION"),
                        partial |-> Info("LOCATION_PARTIAL"), none |-> Info("LOCATION_UNKNOWN")],
   number_recycling |-> [yes |-> Flag("NUMBER_RECYCLED"), no |-> Pass("NUMBER_CONTINUOUS"),
                         none |-> Info("EVIDENCE_UNAVAILABLE")],
   number_verify |-> [yes |-> Pass("NUMBER_MATCH"), no |-> Flag("NUMBER_MISMATCH"),
                      none |-> Info("EVIDENCE_UNAVAILABLE")]]

-----------------------------------------------------------------------------
(* Properties *)

\* Only an answer makes a fact: a link of the network that passes or flags carries
\* what the operator answered to this very check, and a consent operation's token
\* or URL is one it issued for this request.  Silence, a refusal, an unreadable
\* body, a failed precondition and a late answer are never one.
FactsAreAnswers ==
  \A c \in Call :
    provider[c] \in {"nac", "paired", "nac_fake"} /\ call[c].link # <<>> =>
      /\ call[c].link[1] \in {"PASS", "FLAG"} =>
           /\ replied[c].check \in {"yes", "no"}
           /\ call[c].link = Reading[Operation(c)][replied[c].check]
      /\ call[c].link \in {<<"url", "https">>, <<"token", "bound">>} => replied[c].check = "yes"

\* The operator is never asked for a date the receipt does not charge, even when
\* the answer came too late or not at all.
AskedIsCharged ==
  \A c \in Call : call[c].pc = "done" /\ replied[c].date # "not asked" => call[c].charged

\* What a link says and what it costs are what happened at the operator
\* (gather, enrich_timing).
LinksAreHonest == FactsAreAnswers /\ AskedIsCharged
=============================================================================
