------------------------------- MODULE MCConsent -------------------------------
(***************************************************************************)
(* Instances of Consent for TLC.                                           *)
(***************************************************************************)
EXTENDS Consent, TLC

Symmetry == Permutations(Request) \cup Permutations(Consent) \cup Permutations(Owner)
=============================================================================
