------------------------------ MODULE MCFollowUps ------------------------------
(***************************************************************************)
(* An instance of FollowUps for TLC: two creates that may share a key, and *)
(* two reports that share one, of one attempt or of both; or two sessions  *)
(* of one merchant.                                                        *)
(***************************************************************************)
EXTENDS FollowUps, TLC

CONSTANTS c1, c2, r1, r2, k1, k2, otp, PASSED, FAILED

Ask(key, target, value) == [key |-> key, target |-> target, value |-> value]

\* Two creates race for one key; two reports race for one key with the same
\* result or another, on one attempt or on two.
MCAsks ==
  LET Create(key) == Ask(key, None, otp) IN
  { (c1 :> Create(k1)) @@ (c2 :> Create(k1)) @@ (r1 :> Ask(k1, c1, PASSED)),
    (c1 :> Create(k1)) @@ (r1 :> Ask(k1, c1, PASSED)) @@ (r2 :> Ask(k1, c1, PASSED)),
    (c1 :> Create(k1)) @@ (r1 :> Ask(k1, c1, PASSED)) @@ (r2 :> Ask(k1, c1, FAILED)),
    (c1 :> Create(k1)) @@ (c2 :> Create(k2))
      @@ (r1 :> Ask(k1, c1, PASSED)) @@ (r2 :> Ask(k1, c2, PASSED)) }
=============================================================================
