---------------------------- MODULE MCOutcomeLabels ----------------------------
(* An instance of OutcomeLabels for TLC: a tab of the harness, two requests *)
(* of a merchant, and three labels.                                           *)
EXTENDS OutcomeLabels, TLC

Symmetry == Permutations(Merchant) \cup Permutations(Value) \cup Permutations(OutcomeEvent)
=============================================================================
