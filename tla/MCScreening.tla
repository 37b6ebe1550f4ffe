------------------------------ MODULE MCScreening ------------------------------
(***************************************************************************)
(* A bank with a published block, an inbound-only line in it and a second  *)
(* bank, which also has a short number that the block's numbers begin      *)
(* with; the tenant that is the bank, and two tenants that ask.  Of the    *)
(* four files an operator may configure, three give a number two owners.   *)
(***************************************************************************)
EXTENDS Screening, TLC

CONSTANTS bank, rival, bankKey, t1, t2, alice, bob

Line == <<6, 5, 0>>
Hot == <<6, 5, 2>>
Rivals == <<6, 7, 1>>
Short == <<6>>

Row(value, prefix, institution, outbound) ==
  [value |-> value, prefix |-> prefix, institution |-> institution, outbound |-> outbound]

Sound == {Row(<<6, 5>>, TRUE, bank, TRUE), Row(Hot, FALSE, bank, FALSE),
          Row(Rivals, FALSE, rival, TRUE), Row(Short, FALSE, rival, TRUE)}
Carved == Sound \cup {Row(Line, FALSE, rival, TRUE)}
Nested == Sound \cup {Row(<<6, 5, 0>>, TRUE, rival, TRUE)}
Twice == Sound \cup {Row(Rivals, FALSE, bank, TRUE)}

Configured == {Sound, Carved, Nested, Twice}
Keys == [t \in {bankKey, t1, t2} |-> IF t = bankKey THEN bank ELSE IF t = t2 THEN rival ELSE None]
Asking(tier, t, callee) == [tier |-> tier, tenant |-> t, caller |-> Line, callee |-> callee]
Questions == {Asking(2, t1, alice), Asking(1, t2, alice), Asking(2, t2, None)}
Calls == {[tenant |-> bankKey, caller |-> Line, callee |-> alice, ttl |-> 5],
          [tenant |-> t2, caller |-> Line, callee |-> alice, ttl |-> None]}
Named == {{rival}}
Alike == Permutations(Check)
=============================================================================
