----------------------- MODULE MCVerificationOperations -----------------------
(***************************************************************************)
(* Instances of VerificationOperations for TLC: attempts and bodies are    *)
(* interchangeable, so they are symmetric in the safety runs.              *)
(***************************************************************************)
EXTENDS VerificationOperations, TLC

Symmetry == Permutations(Attempt) \cup Permutations(Key) \cup Permutations(Body)
=============================================================================
