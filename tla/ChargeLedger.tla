----------------------------- MODULE ChargeLedger -----------------------------
(***************************************************************************)
(* What an Idempotency-Key promises a merchant, with no rows, threads or   *)
(* caches: a key is claimed by one request at a time, only the claimant    *)
(* may charge the operator, a claim that has been charged is forgotten     *)
(* only after the idempotency window, and its result is the claimant's     *)
(* own chain.                                                              *)
(***************************************************************************)
EXTENDS Naturals

CONSTANTS Attempt, Key, None, Window

VARIABLES
  claim,  \* per key: who holds it, since when, whether charged, with what result
  now     \* the clock

Claim == [holder : Attempt \cup {None}, at : Nat, charged : BOOLEAN,
          result : Attempt \cup {None}]
Unclaimed == [holder |-> None, at |-> 0, charged |-> FALSE, result |-> None]

Init ==
  /\ claim = [k \in Key |-> Unclaimed]
  /\ now = 0

Reserve(a, k) ==
  /\ claim[k] = Unclaimed
  /\ claim' = [claim EXCEPT ![k] =
                 [holder |-> a, at |-> now, charged |-> FALSE, result |-> None]]
  /\ now' = now

Charged(c) == [holder |-> c.holder, at |-> c.at, charged |-> TRUE, result |-> c.result]
Charge(k) ==
  /\ claim[k].holder # None
  /\ ~claim[k].charged
  /\ claim' = [claim EXCEPT ![k] = Charged(@)]
  /\ now' = now

\* The claimant's own chain is the result.
Settled(c) == [holder |-> c.holder, at |-> c.at, charged |-> c.charged, result |-> c.holder]
Settle(k) ==
  /\ claim[k].charged
  /\ claim' = [claim EXCEPT ![k] = Settled(@)]
  /\ now' = now

\* Given back: nothing was charged.
Free(k) ==
  /\ ~claim[k].charged
  /\ claim' = [claim EXCEPT ![k] = Unclaimed]
  /\ now' = now

\* Retention forgets a batch of claims, each older than the window.
Forget(K) ==
  /\ \A k \in K : claim[k].at + Window < now
  /\ claim' = [k \in Key |-> IF k \in K THEN Unclaimed ELSE claim[k]]
  /\ now' = now

Pass ==
  /\ now' = now + 1
  /\ claim' = claim

Next ==
  \/ \E k \in Key :
       \/ \E a \in Attempt : Reserve(a, k)
       \/ Charge(k) \/ Settle(k) \/ Free(k)
  \/ \E K \in SUBSET Key : Forget(K)
  \/ Pass

Spec == Init /\ [][Next]_<<claim, now>>
=============================================================================
