---------------------------- MODULE MCOperatorCalls ----------------------------
(***************************************************************************)
(* One worker, three calls: every mix of a judge's paired swap check, a    *)
(* swap check that buys its date, and one other operation.                 *)
(***************************************************************************)
EXTENDS OperatorCalls

CONSTANTS judge, swap, other

Operations ==
  [c \in {judge, swap, other} |->
     CASE c = judge -> {"device_swap"}
       [] c = swap -> {"sim_swap"}
       [] OTHER -> Consent \cup {"reachability", "roaming", "location_verify", "number_recycling",
                                "number_verify", "device_intelligence"}]
=============================================================================
