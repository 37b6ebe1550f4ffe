------------------------------- MODULE MCConsole -------------------------------
(***************************************************************************)
(* A judge's page with two runs, the first of two requests that race for   *)
(* its numbers, and another owner's page that listens.                     *)
(***************************************************************************)
EXTENDS Console

CONSTANTS judge, other, owner1, owner2, first, repeat, second

Owners == [p \in {judge, other} |-> IF p = judge THEN owner1 ELSE owner2]
Senders == [r \in {first, repeat, second} |-> judge]
Runs == [r \in {first, repeat, second} |-> IF r = second THEN 2 ELSE 1]
Lengths == [r \in {first, repeat, second} |-> CASE r = first -> 2 [] r = repeat -> 1 [] OTHER -> 0]
=============================================================================
