---------------------------- MODULE MCInvestigator ----------------------------
(***************************************************************************)
(* The shipped policy.yaml, the signals the providers emit, and requests   *)
(* of each route, for TLC.                                                 *)
(***************************************************************************)
EXTENDS Investigator, TLC

Actions == {"number_verify", "sim_swap", "device_swap", "location_verify", "reachability",
            "roaming", "number_recycling"}
Candidates == Actions \ {"number_recycling"}
StepUpOrder == <<"location_verify", "number_verify", "reachability">>
Ranks == [number_verify |-> 1, sim_swap |-> 2, device_swap |-> 3, location_verify |-> 4,
          reachability |-> 5, roaming |-> 6, number_recycling |-> 7]
Hypotheses == {"account_takeover", "bot_farm", "legit", "impersonation"}

\* log-odds in thousandths; 0.15 and 0.80 are -1734.6 and 1386.3.
ThresholdsOf == [allow |-> -1735, decline |-> 1387]
Priors == [base |-> -2442, reverse |-> -1099, newAccount |-> 900, cod |-> 600,
           highValue |-> 700, sensitive |-> 500]
Budgets == [default |-> 8, highValue |-> 12]
Deltas == [NUMBER_MATCH |-> -1200, NUMBER_MISMATCH |-> 1500, SIM_STABLE |-> -800,
           SIM_SWAPPED |-> 2200, DEVICE_STABLE |-> -500, DEVICE_SWAPPED |-> 1600,
           NUMBER_RECYCLED |-> 1800, NUMBER_CONTINUOUS |-> 0, AT_CLAIMED_LOCATION |-> -1200,
           NOT_AT_CLAIMED_LOCATION |-> 1600, LOCATION_UNKNOWN |-> 0, REACHABLE_NORMAL |-> -400,
           REACHABLE_UNAVAILABLE |-> 400, HOME_NETWORK |-> -300, ROAMING_NETWORK |-> 200,
           CALL_PRE_ANNOUNCED |-> -2500, REGISTRY_INBOUND_ONLY |-> 2000, REGISTRY_UNLISTED |-> 0,
           EVIDENCE_UNAVAILABLE |-> 0]
Signals0 == DOMAIN Deltas
Unanswered == {"EVIDENCE_UNAVAILABLE"}
Determinate == Signals0 \ (Unanswered \cup {"LOCATION_UNKNOWN", "ROAMING_NETWORK", "REGISTRY_UNLISTED"})
Corroborations == [s \in Signals0 |-> IF s = "SIM_SWAPPED"
                                      THEN <<"device_swap", "location_verify">> ELSE <<>>]
Costs == [number_verify |-> 1, sim_swap |-> 2, device_swap |-> 2, location_verify |-> 3,
          reachability |-> 2, roaming |-> 2, number_recycling |-> 1]
Gains == [number_verify |-> 12, sim_swap |-> 20, device_swap |-> 15, location_verify |-> 15,
          reachability |-> 13, roaming |-> 16, number_recycling |-> 11]
Relevance ==
  [account_takeover |-> {"sim_swap", "location_verify", "device_swap", "number_recycling"},
   bot_farm |-> {"reachability"}, legit |-> {},
   impersonation |-> {"number_verify", "sim_swap", "reachability", "roaming", "number_recycling"}]
GradingOf == [minLinks |-> 2, adverse |-> 400, minSupport |-> 1]
WeightsOf == [numberVerify |-> 22, relevant |-> 16, base |-> 10]

AnswersOf ==
  [number_verify |-> {"NUMBER_MATCH", "NUMBER_MISMATCH"} \cup Unanswered,
   sim_swap |-> {"SIM_STABLE", "SIM_SWAPPED"} \cup Unanswered,
   device_swap |-> {"DEVICE_STABLE", "DEVICE_SWAPPED"} \cup Unanswered,
   location_verify |-> {"AT_CLAIMED_LOCATION", "NOT_AT_CLAIMED_LOCATION", "LOCATION_UNKNOWN"},
   reachability |-> {"REACHABLE_NORMAL", "REACHABLE_UNAVAILABLE"},
   roaming |-> {"HOME_NETWORK", "ROAMING_NETWORK"},
   number_recycling |-> {"NUMBER_RECYCLED", "NUMBER_CONTINUOUS"} \cup Unanswered]

\* POST /v1/verify: a login, a day-zero signup, a payout, and the worst prior.
Plain == [event |-> "login", newAccount |-> FALSE, cod |-> FALSE, highValue |-> FALSE,
          claim |-> TRUE, lastVerified |-> FALSE, required |-> None, available |-> Actions,
          local |-> <<>>, parallel |-> FALSE, planner |-> "greedy"]
Contexts == {Plain,
             [Plain EXCEPT !.event = "signup", !.newAccount = TRUE],
             [Plain EXCEPT !.event = "payout"],
             [Plain EXCEPT !.event = "payout", !.newAccount = TRUE, !.cod = TRUE]}
Planned(S, P) == {[r EXCEPT !.planner = p] : r \in S, p \in P}
Two == {"greedy", "llm"}
Verify == Planned(Contexts, Planner)
          \cup Planned({[r EXCEPT !.lastVerified = TRUE, !.claim = FALSE] : r \in Contexts}, Two)
Expensive == {[Plain EXCEPT !.event = "payout", !.newAccount = TRUE, !.cod = TRUE, !.highValue = TRUE]}

\* The consent route holds an authorization; the judge may buy two checks.
Consented == Planned({[r EXCEPT !.required = "number_verify"] : r \in Contexts}, Two)
Judged == Planned({[r EXCEPT !.available = {"sim_swap", "device_swap"}] : r \in Contexts}, Two)

\* POST /v1/reverse-verify.
Calls == {[Plain EXCEPT !.event = "inbound_call", !.claim = FALSE, !.local = l] :
            l \in {<<"REGISTRY_UNLISTED">>, <<"CALL_PRE_ANNOUNCED", "REGISTRY_UNLISTED">>,
                   <<"REGISTRY_INBOUND_ONLY">>}}

SequentialRequests == Verify \cup Expensive \cup Consented \cup Judged \cup Planned(Calls, Two)
ParallelRequests == {[r EXCEPT !.parallel = TRUE] : r \in Planned(Contexts, Two) \cup Expensive \cup Calls}
AllRequests == SequentialRequests \cup ParallelRequests
=============================================================================
