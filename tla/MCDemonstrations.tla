---------------------------- MODULE MCDemonstrations ----------------------------
(***************************************************************************)
(* An instance of Demonstrations for TLC: a pilot flow with three          *)
(* requests, two runs of two judges, and mixes of the callers that meet at *)
(* the gate.                                                               *)
(***************************************************************************)
EXTENDS Demonstrations, TLC

CONSTANTS server, own, k1, k2, k3, demoKey, judge, venue

\* What the requests of a behaviour carry.
Call(route, theSession, bearer, gemini, planner, size) ==
  [route |-> route, session |-> theSession, bearer |-> bearer, ip |-> venue,
   gemini |-> gemini, planner |-> planner, size |-> size]
SendsOf ==
  1 :> Call("key", None, k2, None, "llm", "fits") @@
  2 :> Call("key", judge, k1, server, None, "fits") @@
  3 :> Call("key", None, k2, own, "greedy", "fits") @@
  4 :> Call("key", None, k3, None, None, "fits") @@
  5 :> Call("key", None, k2, None, "greedy", "fits") @@
  6 :> Call("ip", None, demoKey, None, "llm", "fits") @@
  7 :> Call("ip", None, demoKey, own, None, "fits") @@
  8 :> Call("screen", None, None, None, None, "fits") @@
  9 :> Call("key", None, k2, None, None, "streamed") @@
  10 :> Call("screen", None, k3, None, None, "fits") @@
  11 :> Call("ip", None, k1, None, None, "fits") @@
  12 :> Call("key", None, None, None, None, "declared") @@
  13 :> Call("key", None, None, None, None, "garbled") @@
  14 :> Call("key", None, k1, None, None, "fits") @@
  15 :> Call("key", None, k2, None, None, "fits")
MixesOf ==
  [demo : {TRUE}, sent : {{1, 2, 6, 9}, {1, 2, 7, 8}, {6, 7, 11}}]
    \cup [demo : {FALSE}, sent : {{}, {3, 4, 5, 14, 15}, {2, 6}, {8, 10, 12, 13}}]
LimitOf == [key |-> 1, screen |-> 2, ip |-> 1]

Symmetry == Permutations(Req) \cup Permutations(Run) \cup Permutations(Session)
=============================================================================
