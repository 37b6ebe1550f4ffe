------------------------- MODULE DemonstrationsProofs -------------------------
(***************************************************************************)
(* Proofs about Demonstrations: a judge's runs (J), for every set of runs  *)
(* and sessions, every allowance and every length of the hour; the         *)
(* merchant pilot's flow (P), for every set of requests and all            *)
(* retentions; the gate (A), for every set of requests and whatever each   *)
(* sends, every limit, window, room for buckets and ceiling.               *)
(***************************************************************************)
EXTENDS Demonstrations, SumLemmas, SequenceTheorems

-----------------------------------------------------------------------------
(* A judge's runs *)

\* The instance's sums and cardinalities are those the lemmas speak of.
LEMMA JudgeSums ==
  /\ \A f, S : J!SumFunctionOnSet(f, S) = SumFunctionOnSet(f, S)
  /\ \A f : J!SumFunction(f) = SumFunctionOnSet(f, DOMAIN f)
  /\ \A S : J!Cardinality(S) = Cardinality(S)
<1>1. \A f, S : J!SumFunctionOnSet(f, S) = SumFunctionOnSet(f, S)
  BY DEF J!SumFunctionOnSet, J!FoldFunctionOnSet, J!MapThenFoldSet,
         SumFunctionOnSet, FoldFunctionOnSet, MapThenFoldSet
<1>2. \A S : J!Cardinality(S) = Cardinality(S)
  BY DEF J!Cardinality, Cardinality
<1> QED BY <1>1, <1>2 DEF J!SumFunction

LEMMA JudgeNumbers ==
  /\ Checks \in Nat \ {0} /\ PerRun \in Nat \ {0} /\ PerSession \in Nat \ {0}
  /\ PerHour \in Nat \ {0} /\ MaxConcurrent \in Nat \ {0} /\ MaxSessions \in Nat \ {0}
  /\ TTL \in Nat \ {0} /\ Hour \in Nat \ {0} /\ JudgeTime \in Nat \ {0}
  /\ IsFiniteSet(Run)
  /\ None \notin Session
  /\ None \notin J!JudgeSession
<1>1. J!IsFiniteSet(Run) <=> IsFiniteSet(Run)
  BY DEF J!IsFiniteSet, IsFiniteSet
<1> QED BY JudgeAssumption, <1>1 DEF J!JudgeAssumption

\* What a run spent is what the log admitted, or all of its allowance.
LEMMA SpentIs ==
  ASSUME J!TypeOK, NEW r \in Run, attempts[r].count <= PerRun
  PROVE  J!Spent(r) = IF run[r].clean THEN attempts[r].count ELSE PerRun
<1>1. attempts[r].count \in Nat
  BY DEF J!TypeOK, J!Log
<1>2. J!Min({PerRun, attempts[r].count}) = attempts[r].count
  BY <1>1, JudgeNumbers DEF J!Min
<1> QED BY <1>2 DEF J!Spent

\* The terms of the sums.
Held(s) == [r \in Run |-> IF run[r].of = s /\ r \in open THEN PerRun ELSE 0]
Paid(s) == [r \in Run |-> IF run[r].of = s /\ run[r].pc = "settled" THEN J!Spent(r) ELSE 0]
Made(s) == [r \in Run |-> IF run[r].of = s THEN attempts[r].count ELSE 0]
Recent(t) == [r \in Run |-> J!RecentOf(r, t)]

LEMMA JudgeTerms ==
  /\ \A s : /\ J!HeldBy(s) = SumFunctionOnSet(Held(s), Run)
            /\ J!SpentBy(s) = SumFunctionOnSet(Paid(s), Run)
            /\ J!MadeBy(s) = SumFunctionOnSet(Made(s), Run)
            /\ J!HeldBy(s)' = SumFunctionOnSet(Held(s)', Run)
            /\ J!SpentBy(s)' = SumFunctionOnSet(Paid(s)', Run)
            /\ J!MadeBy(s)' = SumFunctionOnSet(Made(s)', Run)
  /\ \A h : J!SlotsOf(h) = SumFunctionOnSet([r \in Run |-> h[r].n], Run)
  /\ \A t : /\ J!SumFunction([r \in Run |-> J!RecentOf(r, t)]) = SumFunctionOnSet(Recent(t), Run)
            /\ J!SumFunction([r \in Run |-> J!RecentOf(r, t)])' = SumFunctionOnSet(Recent(t)', Run)
BY JudgeSums DEF J!HeldBy, J!SpentBy, J!MadeBy, J!SlotsOf, Held, Paid, Made, Recent

\* An open run's part of what its session holds.
LEMMA HeldIs ==
  ASSUME J!TypeOK, NEW s, NEW r \in Run, r \in open, run[r].of = s
  PROVE  J!HeldBy(s) \in Nat /\ PerRun <= J!HeldBy(s)
<1>1. \A x \in Run : Held(s)[x] \in Nat
  BY JudgeNumbers DEF Held
<1>2. Held(s)[r] = PerRun
  BY DEF Held
<1>3. IsFiniteSet(Run) /\ IsFiniteSet(Run \ {r})
  BY JudgeNumbers, FS_Subset
<1>4. SumFunctionOnSet(Held(s), Run) = PerRun + SumFunctionOnSet(Held(s), Run \ {r})
  BY <1>1, <1>2, <1>3, SumWithout
<1>5. SumFunctionOnSet(Held(s), Run \ {r}) \in Nat
  BY <1>1, <1>3, SumNat
<1> QED BY <1>4, <1>5, JudgeTerms, JudgeNumbers

\* Settling a run moves its part from what is reserved to what is used.
LEMMA SettledSession ==
  ASSUME J!TypeOK, J!IInv, NEW r \in Run, J!SettleRealRun(r)
  PROVE  /\ run[r].of \in Session /\ session[run[r].of] # None
         /\ session[run[r].of].reserved - PerRun \in Nat
         /\ session' = [session EXCEPT ![run[r].of] =
              [expires |-> session[run[r].of].expires,
               capability |-> session[run[r].of].capability,
               used |-> session[run[r].of].used + J!Spent(r),
               reserved |-> session[run[r].of].reserved - PerRun]]
         /\ r \in open /\ J!Spent(r) \in 0..PerRun
<1> DEFINE o == run[r].of
<1>1. o \in Session /\ session[o] # None /\ r \in open /\ attempts[r].count <= PerRun
  BY DEF J!IInv, J!RunsAreReserved, J!RunIsReserved, J!SettleRealRun
<1>2. session[o] \in J!JudgeSession
  BY <1>1 DEF J!TypeOK
<1>3. session[o].reserved - PerRun \in Nat
  <2>1. session[o].reserved = J!HeldBy(o)
    BY <1>1 DEF J!IInv, J!ChargesAddUp
  <2> QED BY <1>1, <2>1, HeldIs, JudgeNumbers
<1>4. J!Spent(r) \in 0..PerRun
  <2>1. attempts[r].count \in Nat
    BY DEF J!TypeOK, J!Log
  <2> QED BY <1>1, <2>1, SpentIs, JudgeNumbers
<1>5. session' = [session EXCEPT ![o].reserved = @ - PerRun, ![o].used = @ + J!Spent(r)]
  BY DEF J!SettleRealRun
<1>6. session \in [Session -> {None} \cup J!JudgeSession]
  BY DEF J!TypeOK
<1>7. session' = [session EXCEPT ![o] =
              [expires |-> session[o].expires, capability |-> session[o].capability,
               used |-> session[o].used + J!Spent(r), reserved |-> session[o].reserved - PerRun]]
  <2> HIDE DEF o
  <2> DEFINE new == [session[o] EXCEPT !.reserved = session[o].reserved - PerRun,
                                       !.used = session[o].used + J!Spent(r)]
  <2>1. new = [expires |-> session[o].expires, capability |-> session[o].capability,
               used |-> session[o].used + J!Spent(r), reserved |-> session[o].reserved - PerRun]
    <3> DEFINE c == session[o]
    <3>1. PICK e, k, u, v :
                 c = [expires |-> e, capability |-> k, used |-> u, reserved |-> v]
      BY <1>2 DEF J!JudgeSession
    <3> HIDE DEF c
    <3>2. [c EXCEPT !.reserved = c.reserved - PerRun, !.used = c.used + J!Spent(r)]
            = [expires |-> c.expires, capability |-> c.capability,
               used |-> c.used + J!Spent(r), reserved |-> c.reserved - PerRun]
      <4> DEFINE d == [c EXCEPT !.reserved = c.reserved - PerRun]
      <4>1. d = [expires |-> e, capability |-> k, used |-> u, reserved |-> v - PerRun]
        BY <3>1
      <4> HIDE DEF d
      <4>2. [d EXCEPT !.used = c.used + J!Spent(r)]
              = [expires |-> c.expires, capability |-> c.capability,
                 used |-> c.used + J!Spent(r), reserved |-> c.reserved - PerRun]
        BY <3>1, <4>1
      <4> QED BY <4>2, Zenon DEF d
    <3> QED BY <3>2 DEF c
  <2>2. session' = [session EXCEPT ![o] = new]
    BY <1>1, <1>2, <1>5, <1>6 DEF J!JudgeSession
  <2> QED BY <2>1, <2>2
<1> QED BY <1>1, <1>3, <1>4, <1>7

\* Reserving a run adds its part to what its session holds.
LEMMA ReservedSession ==
  ASSUME J!TypeOK, J!IInv, NEW r \in Run, J!ReserveRealRun(r)
  PROVE  /\ run[r].of \in Session /\ session[run[r].of] # None
         /\ session[run[r].of] \in J!JudgeSession
         /\ session' = [session EXCEPT ![run[r].of] =
              [expires |-> session[run[r].of].expires,
               capability |-> session[run[r].of].capability,
               used |-> session[run[r].of].used,
               reserved |-> session[run[r].of].reserved + PerRun]]
<1> DEFINE o == run[r].of
           c == session[o]
<1>1. o \in Session /\ c # None
  BY DEF J!ReserveRealRun, J!IInv, J!RunsAreReserved, J!RunIsReserved
<1>2. c \in J!JudgeSession
  BY <1>1 DEF J!TypeOK
<1>3. session' = [session EXCEPT ![o] = [c EXCEPT !.reserved = c.reserved + PerRun]]
  BY DEF J!ReserveRealRun
<1>4. [c EXCEPT !.reserved = c.reserved + PerRun]
        = [expires |-> c.expires, capability |-> c.capability, used |-> c.used,
           reserved |-> c.reserved + PerRun]
  <2>1. PICK e, k, u, v : c = [expires |-> e, capability |-> k, used |-> u, reserved |-> v]
    BY <1>2 DEF J!JudgeSession
  <2> HIDE DEF c
  <2> QED BY <2>1
<1> QED BY <1>1, <1>2, <1>3, <1>4

\* Pruned slots are the slots, or none.
LEMMA PruneIs ==
  ASSUME NEW opened, NEW h \in [Run -> J!HeldSlots]
  PROVE  /\ J!PruneHour(h, opened) \in [Run -> J!HeldSlots]
         /\ \A r \in Run :
              J!PruneHour(h, opened)[r] =
                IF h[r].at > judgeNow - Hour \/ r \in opened THEN h[r] ELSE J!NoSlots
         /\ J!NoSlots = [n |-> 0, at |-> 0]
BY JudgeNumbers DEF J!PruneHour, J!NoSlots, J!HeldSlots

LEMMA JudgeRecords ==
  ASSUME J!TypeOK, NEW r \in Run
  PROVE  /\ run[r] \in J!RunRequest /\ attempts[r] \in J!Log /\ call[r] \in J!SdkCall
         /\ hourly[r] \in J!HeldSlots
         /\ attempts[r].count \in Nat /\ attempts[r].sealed \in BOOLEAN
         /\ call[r].made \in Nat /\ call[r].late \in Nat
         /\ call[r].made <= Checks /\ call[r].late <= Checks
         /\ call[r].awaited \in {"none", "queued", "done"}
         /\ run[r].clean \in BOOLEAN
<1>1. /\ run[r] \in J!RunRequest /\ attempts[r] \in J!Log /\ call[r] \in J!SdkCall
      /\ hourly[r] \in J!HeldSlots
  BY DEF J!TypeOK
<1>2. /\ attempts[r].count \in Nat /\ attempts[r].sealed \in BOOLEAN
      /\ call[r].made \in Nat /\ call[r].late \in Nat
      /\ call[r].made <= Checks /\ call[r].late <= Checks
      /\ call[r].awaited \in {"none", "queued", "done"}
  BY <1>1, JudgeNumbers DEF J!Log, J!SdkCall
<1>3. run[r].clean \in BOOLEAN
  BY <1>1 DEF J!RunRequest
<1> QED BY <1>1, <1>2, <1>3

\* What an action writes into a record keeps its type.
LEMMA JudgeUpdates ==
  ASSUME J!TypeOK, NEW r \in Run
  PROVE  /\ \A pc \in {"idle", "accepted", "running", "signed", "raised", "settled", "refused"} :
              [run EXCEPT ![r].pc = pc] \in [Run -> J!RunRequest]
         /\ [attempts EXCEPT ![r].sealed = TRUE] \in [Run -> J!Log]
         /\ [attempts EXCEPT ![r].count = @ + 1] \in [Run -> J!Log]
<1>1. run[r] \in J!RunRequest /\ attempts[r] \in J!Log /\ attempts[r].count \in Nat
  BY JudgeRecords
<1>2. ASSUME NEW pc \in {"idle", "accepted", "running", "signed", "raised", "settled", "refused"}
      PROVE  [run EXCEPT ![r].pc = pc] \in [Run -> J!RunRequest]
  <2>1. [run[r] EXCEPT !.pc = pc] \in J!RunRequest
    BY <1>1 DEF J!RunRequest
  <2> QED BY <2>1 DEF J!TypeOK
<1>3. [attempts EXCEPT ![r].sealed = TRUE] \in [Run -> J!Log]
  <2>1. [attempts[r] EXCEPT !.sealed = TRUE] \in J!Log
    BY <1>1 DEF J!Log
  <2> QED BY <2>1 DEF J!TypeOK
<1>4. [attempts EXCEPT ![r].count = @ + 1] \in [Run -> J!Log]
  <2>1. [attempts[r] EXCEPT !.count = attempts[r].count + 1] \in J!Log
    BY <1>1 DEF J!Log
  <2> QED BY <2>1 DEF J!TypeOK
<1> QED BY <1>2, <1>3, <1>4

\* A call given up on is still a call: its thread is one of those it made.
LEMMA AbandonedTypes ==
  ASSUME J!TypeOK, J!IInv, NEW r \in Run
  PROVE  /\ J!Abandoned(call[r]) \in J!SdkCall
         /\ J!Abandoned(call[r]).made = call[r].made /\ J!Abandoned(call[r]).awaited = "none"
         /\ J!Abandoned(call[r]).late =
              IF call[r].awaited = "queued" THEN call[r].late + 1 ELSE call[r].late
<1>1. /\ call[r].made \in Nat /\ call[r].late \in Nat /\ call[r].made <= Checks
      /\ call[r].awaited \in {"none", "queued", "done"} /\ call[r] \in J!SdkCall
  BY JudgeRecords
<1>2. call[r].awaited = "queued" => call[r].late + 1 <= call[r].made
  BY <1>1 DEF J!IInv, J!RunsAreReserved, J!RunIsReserved
<1>3. call[r] = [made |-> call[r].made, awaited |-> call[r].awaited, late |-> call[r].late]
  BY <1>1 DEF J!SdkCall
<1>4. J!Abandoned(call[r]) =
        [made |-> call[r].made, awaited |-> "none",
         late |-> IF call[r].awaited = "queued" THEN call[r].late + 1 ELSE call[r].late]
  <2> DEFINE c == call[r]
  <2>1. c = [made |-> c.made, awaited |-> c.awaited, late |-> c.late]
    BY <1>3
  <2>2. J!Abandoned(c) =
          [c EXCEPT !.awaited = "none", !.late = IF c.awaited = "queued" THEN c.late + 1 ELSE c.late]
    BY DEF J!Abandoned
  <2> HIDE DEF c
  <2>3. J!Abandoned(c) = [made |-> c.made, awaited |-> "none",
                          late |-> IF c.awaited = "queued" THEN c.late + 1 ELSE c.late]
    BY <2>1, <2>2
  <2> QED BY <2>3 DEF c
<1> QED BY <1>1, <1>2, <1>4, JudgeNumbers DEF J!SdkCall

LEMMA JudgeTypeStep ==
  ASSUME J!TypeOK, J!IInv, [J!Next]_(J!vars) PROVE J!TypeOK'
<1> USE JudgeNumbers
<1>s. /\ session \in [Session -> {None} \cup J!JudgeSession]
      /\ run \in [Run -> J!RunRequest] /\ attempts \in [Run -> J!Log]
      /\ call \in [Run -> J!SdkCall] /\ reached \in [0..JudgeTime -> Nat]
  BY DEF J!TypeOK
<1>h. /\ judgeNow \in 0..JudgeTime /\ judgeNow \in Nat
      /\ hourly \in [Run -> J!HeldSlots]
      /\ \A opened : J!PruneHour(hourly, opened) \in [Run -> J!HeldSlots]
  BY PruneIs DEF J!TypeOK
<1>1. ASSUME NEW s \in Session, J!Mint(s) PROVE J!TypeOK'
  <2>1. [expires |-> judgeNow + TTL, capability |-> FALSE, used |-> 0, reserved |-> 0]
          \in J!JudgeSession
    BY <1>h DEF J!JudgeSession
  <2>2. session' \in [Session -> {None} \cup J!JudgeSession]
    BY <1>1, <1>s, <2>1 DEF J!Mint
  <2>3. live' \subseteq {x \in Session : session'[x] # None}
    <3> DEFINE new == [expires |-> judgeNow + TTL, capability |-> FALSE, used |-> 0, reserved |-> 0]
    <3>1. live' \subseteq live \cup {s} /\ session' = [session EXCEPT ![s] = new]
      BY <1>1 DEF J!Mint, J!Swept
    <3>2. live \subseteq {x \in Session : session[x] # None}
      BY DEF J!TypeOK
    <3>3. new # None
      BY <2>1
    <3> HIDE DEF new
    <3> QED BY <1>s, <3>1, <3>2, <3>3
  <2> QED BY <1>1, <2>2, <2>3 DEF J!Mint, J!TypeOK
<1>2. ASSUME NEW s \in Session, J!GrantNac(s) PROVE J!TypeOK'
  <2>1. session[s] \in J!JudgeSession
    BY <1>2, <1>s DEF J!GrantNac, J!Swept, J!TypeOK
  <2>2. [session[s] EXCEPT !.capability = TRUE] \in J!JudgeSession
    BY <2>1 DEF J!JudgeSession
  <2>3. session' = [session EXCEPT ![s] = [session[s] EXCEPT !.capability = TRUE]]
    BY <1>2 DEF J!GrantNac
  <2>4. session' \in [Session -> {None} \cup J!JudgeSession]
    BY <1>s, <2>2, <2>3
  <2>5. live' \subseteq {x \in Session : session'[x] # None}
    BY <1>2, <1>s, <2>2, <2>3 DEF J!GrantNac, J!TypeOK
  <2> QED BY <1>2, <2>4, <2>5 DEF J!GrantNac, J!TypeOK
<1>3. ASSUME NEW s \in Session, NEW r \in Run, J!Accept(r, s) PROVE J!TypeOK'
  <2>1. [run[r] EXCEPT !.pc = "accepted", !.of = s] \in J!RunRequest
    BY JudgeRecords DEF J!RunRequest
  <2>2. run' \in [Run -> J!RunRequest]
    BY <1>3, <1>s, <2>1 DEF J!Accept
  <2> QED BY <1>3, <2>2 DEF J!Accept, J!TypeOK
<1>4. ASSUME NEW r \in Run, J!ReserveRealRun(r) PROVE J!TypeOK'
  <2> DEFINE o == run[r].of
             new == [session[o] EXCEPT !.reserved = @ + PerRun]
  <2>1. o \in Session /\ session[o] # None
    BY <1>4 DEF J!ReserveRealRun, J!IInv, J!RunsAreReserved, J!RunIsReserved
  <2>2. session[o] \in J!JudgeSession
    BY <2>1, <1>s
  <2>3. new \in J!JudgeSession
    BY <2>2 DEF J!JudgeSession
  <2>4. session' = [session EXCEPT ![o] = new]
    BY <1>4 DEF J!ReserveRealRun
  <2>5. /\ session' \in [Session -> {None} \cup J!JudgeSession]
        /\ live' \subseteq {x \in Session : session'[x] # None}
    <3>1. live' = live /\ live \subseteq {x \in Session : session[x] # None}
      BY <1>4 DEF J!ReserveRealRun, J!TypeOK
    <3> HIDE DEF new, o
    <3> QED BY <1>s, <2>3, <2>4, <3>1
  <2>6. hourly' \in [Run -> J!HeldSlots]
    <3>1. [n |-> PerRun, at |-> judgeNow] \in J!HeldSlots
      BY <1>h DEF J!HeldSlots
    <3> QED BY <1>4, <1>h, <3>1 DEF J!ReserveRealRun
  <2>7. run' \in [Run -> J!RunRequest]
    BY <1>4, JudgeUpdates DEF J!ReserveRealRun
  <2>8. active' \in Nat /\ open' \subseteq Run /\ UNCHANGED <<judgeNow, attempts, call, reached>>
    BY <1>4 DEF J!ReserveRealRun, J!TypeOK
  <2> QED BY <2>5, <2>6, <2>7, <2>8 DEF J!TypeOK
<1>5. ASSUME NEW r \in Run, J!RefuseRealRun(r) PROVE J!TypeOK'
  <2>1. hourly' \in [Run -> J!HeldSlots] /\ run' \in [Run -> J!RunRequest]
    BY <1>5, <1>h, JudgeUpdates DEF J!RefuseRealRun
  <2> QED BY <1>5, <2>1 DEF J!RefuseRealRun, J!TypeOK
<1>6. ASSUME NEW r \in Run, J!ReplayOrRefuse(r) PROVE J!TypeOK'
  <2>1. PICK b \in BOOLEAN : run' = [run EXCEPT ![r].pc = "raised", ![r].clean = b]
    BY <1>6, Zenon DEF J!ReplayOrRefuse
  <2>2. [run[r] EXCEPT !.pc = "raised", !.clean = b] \in J!RunRequest
    BY JudgeRecords DEF J!RunRequest
  <2>3. run' \in [Run -> J!RunRequest]
    BY <1>s, <2>1, <2>2
  <2> QED BY <1>6, <2>3 DEF J!ReplayOrRefuse, J!TypeOK
<1>7. ASSUME NEW r \in Run, J!Gather(r) PROVE J!TypeOK'
  <2>1. [call[r] EXCEPT !.made = call[r].made + 1, !.awaited = "queued"] \in J!SdkCall
    <3>1. call[r].made + 1 \in 0..Checks
      BY <1>7, JudgeRecords DEF J!Gather
    <3> QED BY <3>1, JudgeRecords DEF J!SdkCall
  <2>2. call' \in [Run -> J!SdkCall]
    BY <1>7, <1>s, <2>1 DEF J!Gather
  <2> QED BY <1>7, <2>2 DEF J!Gather, J!TypeOK
<1>8. ASSUME NEW r \in Run, J!ThreadReachesTransport(r) PROVE J!TypeOK'
  <2>1. call' \in [Run -> J!SdkCall]
    <3>1. CASE call' = [call EXCEPT ![r].awaited = "done"]
      <4>1. [call[r] EXCEPT !.awaited = "done"] \in J!SdkCall
        BY JudgeRecords DEF J!SdkCall
      <4> QED BY <1>s, <3>1, <4>1
    <3>2. CASE call[r].late > 0 /\ call' = [call EXCEPT ![r].late = @ - 1]
      <4>1. [call[r] EXCEPT !.late = call[r].late - 1] \in J!SdkCall
        <5>1. call[r].late - 1 \in 0..Checks
          BY <3>2, JudgeRecords
        <5> QED BY <5>1, JudgeRecords DEF J!SdkCall
      <4> QED BY <1>s, <3>2, <4>1
    <3> QED BY <1>8, <3>1, <3>2 DEF J!ThreadReachesTransport
  <2>2. attempts' \in [Run -> J!Log] /\ reached' \in [0..JudgeTime -> Nat]
    <3>1. [reached EXCEPT ![judgeNow] = @ + 1] \in [0..JudgeTime -> Nat]
      BY <1>s, <1>h
    <3>2. \/ attempts' = [attempts EXCEPT ![r].count = @ + 1]
             /\ reached' = [reached EXCEPT ![judgeNow] = @ + 1]
          \/ attempts' = attempts /\ reached' = reached
      BY <1>8 DEF J!ThreadReachesTransport, J!HandleRequest
    <3>3. [attempts EXCEPT ![r].count = @ + 1] \in [Run -> J!Log]
      BY JudgeUpdates
    <3> QED BY <1>s, <3>1, <3>2, <3>3
  <2> QED BY <1>8, <2>1, <2>2 DEF J!ThreadReachesTransport, J!TypeOK
<1>9. ASSUME NEW r \in Run, J!Answered(r) PROVE J!TypeOK'
  <2>1. [call[r] EXCEPT !.awaited = "none"] \in J!SdkCall
    BY JudgeRecords DEF J!SdkCall
  <2>2. call' \in [Run -> J!SdkCall]
    BY <1>9, <1>s, <2>1 DEF J!Answered
  <2> QED BY <1>9, <2>2 DEF J!Answered, J!TypeOK
<1>10. ASSUME NEW r \in Run, J!TimesOut(r) PROVE J!TypeOK'
  <2>1. call' \in [Run -> J!SdkCall]
    BY <1>10, <1>s, AbandonedTypes DEF J!TimesOut
  <2> QED BY <1>10, <2>1 DEF J!TimesOut, J!TypeOK
<1>11. ASSUME NEW r \in Run, J!Sign(r) PROVE J!TypeOK'
  <2>1. [run[r] EXCEPT !.pc = "signed", !.signed = attempts[r].count, !.clean = TRUE]
          \in J!RunRequest
    BY JudgeRecords DEF J!RunRequest
  <2>2. run' \in [Run -> J!RunRequest] /\ attempts' \in [Run -> J!Log]
    BY <1>11, <1>s, <2>1, JudgeUpdates DEF J!Sign
  <2> QED BY <1>11, <2>2 DEF J!Sign, J!TypeOK
<1>12. ASSUME NEW r \in Run, J!Fail(r) PROVE J!TypeOK'
  <2>1. [run[r] EXCEPT !.pc = "raised", !.clean = FALSE] \in J!RunRequest
    BY JudgeRecords DEF J!RunRequest
  <2>2. run' \in [Run -> J!RunRequest] /\ call' \in [Run -> J!SdkCall]
    BY <1>12, <1>s, <2>1, AbandonedTypes DEF J!Fail
  <2> QED BY <1>12, <2>2 DEF J!Fail, J!TypeOK
<1>13. ASSUME NEW r \in Run, J!SettleRealRun(r) PROVE J!TypeOK'
  <2>1. /\ session' \in [Session -> {None} \cup J!JudgeSession]
        /\ live' \subseteq {x \in Session : session'[x] # None}
    <3> DEFINE o == run[r].of
               new == [expires |-> session[o].expires, capability |-> session[o].capability,
                       used |-> session[o].used + J!Spent(r), reserved |-> session[o].reserved - PerRun]
    <3>1. session[o] \in J!JudgeSession
      <4>1. o \in Session /\ session[o] # None
        BY <1>13, SettledSession
      <4> QED BY <1>s, <4>1
    <3>2. new \in J!JudgeSession
      <4>1. session[o].reserved - PerRun \in Nat /\ J!Spent(r) \in 0..PerRun
        BY <1>13, SettledSession
      <4> HIDE DEF o
      <4> QED BY <3>1, <4>1 DEF J!JudgeSession
    <3>3. session' = [session EXCEPT ![o] = new] /\ live' = live
      BY <1>13, SettledSession DEF J!SettleRealRun
    <3> HIDE DEF new
    <3> QED BY <1>s, <3>2, <3>3 DEF J!TypeOK
  <2>2. hourly' \in [Run -> J!HeldSlots]
    <3>1. [n |-> J!Spent(r), at |-> J!SettledAt(r)] \in J!HeldSlots
      BY <1>13, <1>h, SettledSession DEF J!SettledAt, J!HeldSlots
    <3> DEFINE slots == [hourly EXCEPT ![r] = [n |-> J!Spent(r), at |-> J!SettledAt(r)]]
    <3>2. slots \in [Run -> J!HeldSlots]
      BY <1>h, <3>1
    <3>3. hourly' = J!PruneHour(slots, open')
      BY <1>13 DEF J!SettleRealRun
    <3> HIDE DEF slots
    <3> QED BY <3>2, <3>3, PruneIs
  <2>3. active' \in Nat /\ open' \subseteq Run
    <3>1. IsFiniteSet(open) /\ open # {} /\ active = Cardinality(open)
      BY <1>13, SettledSession, FS_Subset, JudgeSums DEF J!IInv, J!TypeOK
    <3>2. Cardinality(open) # 0 /\ Cardinality(open) \in Nat
      BY <3>1, FS_EmptySet, FS_CardinalityType
    <3>3. active' = active - 1 /\ open' = open \ {r}
      BY <1>13 DEF J!SettleRealRun
    <3> QED BY <3>1, <3>2, <3>3 DEF J!TypeOK
  <2>4. attempts' \in [Run -> J!Log] /\ run' \in [Run -> J!RunRequest]
    BY <1>13, JudgeUpdates DEF J!SettleRealRun
  <2>5. UNCHANGED <<judgeNow, live, call, reached>>
    BY <1>13 DEF J!SettleRealRun
  <2> QED BY <2>1, <2>2, <2>3, <2>4, <2>5 DEF J!TypeOK
<1>14. CASE J!Tick
  BY <1>14 DEF J!Tick, J!TypeOK
<1>15. CASE UNCHANGED J!vars
  BY <1>15 DEF J!vars, J!TypeOK
<1> QED
  BY <1>1, <1>2, <1>3, <1>4, <1>5, <1>6, <1>7, <1>8, <1>9, <1>10, <1>11, <1>12, <1>13, <1>14,
     <1>15 DEF J!Next

\* What an action about another run, or about none, does to a run: its slots may
\* be pruned.
Elsewhere(r) ==
  /\ run'[r] = run[r] /\ attempts'[r] = attempts[r] /\ call'[r] = call[r]
  /\ r \in open' <=> r \in open
  /\ hourly'[r] \in {hourly[r], J!NoSlots}

SessionsStay == \A s \in Session : session[s] # None => session'[s] # None

LEMMA ElsewhereReserved ==
  ASSUME NEW r \in Run, J!RunIsReserved(r), Elsewhere(r), SessionsStay
  PROVE  J!RunIsReserved(r)'
BY DEF J!RunIsReserved, Elsewhere, SessionsStay

LEMMA SessionsStayStep ==
  ASSUME J!TypeOK, J!IInv, [J!Next]_(J!vars) PROVE SessionsStay
<1> USE JudgeNumbers
<1>s. session \in [Session -> {None} \cup J!JudgeSession]
  BY DEF J!TypeOK
<1>1. ASSUME NEW s \in Session, J!Mint(s) \/ J!GrantNac(s) PROVE SessionsStay
  <2>1. \A x \in Session \ {s} : session'[x] = session[x]
    BY <1>1, <1>s DEF J!Mint, J!GrantNac
  <2>2. session' \in [Session -> {None} \cup J!JudgeSession]
    BY <1>1, JudgeTypeStep DEF J!Next, J!TypeOK
  <2>3. session'[s] # None
    <3>1. CASE J!Mint(s)
      <4> DEFINE new == [expires |-> judgeNow + TTL, capability |-> FALSE, used |-> 0, reserved |-> 0]
      <4>1. session'[s] = new
        BY <3>1, <1>s DEF J!Mint
      <4>2. new \in J!JudgeSession
        BY DEF J!JudgeSession, J!TypeOK
      <4> QED BY <4>1, <4>2
    <3>2. CASE J!GrantNac(s)
      <4>1. live' \subseteq {x \in Session : session'[x] # None} /\ s \in live /\ live' = live
        BY <3>2, <1>1, JudgeTypeStep DEF J!Next, J!TypeOK, J!GrantNac, J!Swept
      <4> QED BY <4>1
    <3> QED BY <1>1, <3>1, <3>2
  <2> QED BY <2>1, <2>3 DEF SessionsStay
<1>2. ASSUME NEW r \in Run, J!ReserveRealRun(r) \/ J!SettleRealRun(r) PROVE SessionsStay
  <2> DEFINE o == run[r].of
  <2>1. live' = live
    BY <1>2 DEF J!ReserveRealRun, J!SettleRealRun
  <2>2. o \in Session /\ \A x \in Session \ {o} : session'[x] = session[x]
    <3>1. PICK new : o \in Session /\ session' = [session EXCEPT ![o] = new]
      BY <1>2, ReservedSession, SettledSession
    <3> HIDE DEF o
    <3> QED BY <1>s, <3>1
  <2>3. session'[o] # None
    <3>1. CASE J!ReserveRealRun(r)
      <4> DEFINE new == [expires |-> session[o].expires, capability |-> session[o].capability,
                         used |-> session[o].used, reserved |-> session[o].reserved + PerRun]
      <4>1. session'[o] = new /\ session[o] \in J!JudgeSession
        BY <3>1, <1>s, <2>2, ReservedSession
      <4>2. new \in J!JudgeSession
        BY <4>1 DEF J!JudgeSession
      <4> QED BY <4>1, <4>2
    <3>2. CASE J!SettleRealRun(r)
      <4> DEFINE new == [expires |-> session[o].expires, capability |-> session[o].capability,
                         used |-> session[o].used + J!Spent(r), reserved |-> session[o].reserved - PerRun]
      <4>1. session'[o] = new /\ session[o] # None
        BY <3>2, <1>s, <2>2, SettledSession
      <4>2. session[o] \in J!JudgeSession
        BY <1>s, <2>2, <4>1
      <4>3. session[o].reserved - PerRun \in Nat /\ J!Spent(r) \in 0..PerRun
        BY <3>2, SettledSession
      <4>4. new \in J!JudgeSession
        <5> HIDE DEF o
        <5> QED BY <4>2, <4>3 DEF J!JudgeSession
      <4> QED BY <4>1, <4>4
    <3> QED BY <1>2, <3>1, <3>2
  <2> QED BY <2>2, <2>3 DEF SessionsStay
<1>3. CASE UNCHANGED session
  BY <1>3 DEF SessionsStay
<1> QED
  BY <1>1, <1>2, <1>3 DEF J!Next, J!vars, J!Accept, J!RefuseRealRun, J!ReplayOrRefuse, J!Gather,
     J!ThreadReachesTransport, J!Answered, J!TimesOut, J!Sign, J!Fail, J!Tick

\* An action about one run leaves the others alone.
RunActs(r) ==
  \/ \E s \in Session : J!Accept(r, s)
  \/ J!ReserveRealRun(r) \/ J!RefuseRealRun(r) \/ J!ReplayOrRefuse(r)
  \/ J!Gather(r) \/ J!ThreadReachesTransport(r) \/ J!Answered(r) \/ J!TimesOut(r)
  \/ J!Sign(r) \/ J!Fail(r) \/ J!SettleRealRun(r)

LEMMA JudgeSteps ==
  ASSUME [J!Next]_(J!vars)
  PROVE  \/ \E s \in Session : J!Mint(s) \/ J!GrantNac(s)
         \/ \E r \in Run : RunActs(r)
         \/ J!Tick
         \/ UNCHANGED J!vars
BY DEF J!Next, RunActs

LEMMA ElsewhereStep ==
  ASSUME J!TypeOK, J!IInv, NEW r \in Run, RunActs(r)
  PROVE  \A x \in Run \ {r} : Elsewhere(x)
<1>s. /\ run \in [Run -> J!RunRequest] /\ attempts \in [Run -> J!Log]
      /\ call \in [Run -> J!SdkCall] /\ hourly \in [Run -> J!HeldSlots]
  BY DEF J!TypeOK
<1>h. \A opened : \A h \in [Run -> J!HeldSlots], x \in Run :
        J!PruneHour(h, opened)[x] \in {h[x], J!NoSlots}
  BY PruneIs
<1>1. ASSUME NEW s \in Session, J!Accept(r, s) PROVE \A x \in Run \ {r} : Elsewhere(x)
  BY <1>1, <1>s DEF J!Accept, Elsewhere
<1>2. CASE J!ReserveRealRun(r)
  BY <1>2, <1>s, <1>h DEF J!ReserveRealRun, Elsewhere
<1>3. CASE J!RefuseRealRun(r)
  BY <1>3, <1>s, <1>h DEF J!RefuseRealRun, Elsewhere
<1>4. CASE J!ReplayOrRefuse(r) \/ J!Fail(r)
  BY <1>4, <1>s DEF J!ReplayOrRefuse, J!Fail, Elsewhere
<1>5. CASE J!Gather(r) \/ J!Answered(r) \/ J!TimesOut(r)
  BY <1>5, <1>s DEF J!Gather, J!Answered, J!TimesOut, Elsewhere
<1>6. CASE J!ThreadReachesTransport(r)
  <2>1. \A x \in Run \ {r} : attempts'[x] = attempts[x]
    BY <1>6, <1>s DEF J!ThreadReachesTransport, J!HandleRequest
  <2> QED BY <1>6, <1>s, <2>1 DEF J!ThreadReachesTransport, Elsewhere
<1>7. CASE J!Sign(r)
  BY <1>7, <1>s DEF J!Sign, Elsewhere
<1>8. CASE J!SettleRealRun(r)
  <2> DEFINE slots == [hourly EXCEPT ![r] = [n |-> J!Spent(r), at |-> J!SettledAt(r)]]
  <2>1. slots \in [Run -> J!HeldSlots] /\ hourly' = J!PruneHour(slots, open')
    <3>1. [n |-> J!Spent(r), at |-> J!SettledAt(r)] \in J!HeldSlots
      BY <1>8, SettledSession, JudgeNumbers DEF J!SettledAt, J!HeldSlots, J!TypeOK
    <3> QED BY <1>8, <1>s, <3>1 DEF J!SettleRealRun
  <2>2. \A x \in Run \ {r} : slots[x] = hourly[x]
    OBVIOUS
  <2> HIDE DEF slots
  <2>3. \A x \in Run \ {r} : hourly'[x] \in {hourly[x], J!NoSlots}
    BY <1>h, <2>1, <2>2
  <2> QED BY <1>8, <1>s, <2>3 DEF J!SettleRealRun, Elsewhere
<1> QED BY <1>1, <1>2, <1>3, <1>4, <1>5, <1>6, <1>7, <1>8 DEF RunActs

LEMMA RunsAreReservedStep ==
  ASSUME J!TypeOK, J!TypeOK', J!IInv, [J!Next]_(J!vars) PROVE J!RunsAreReserved'
<1> USE JudgeNumbers
<1>r. \A r \in Run : J!RunIsReserved(r)
  BY DEF J!IInv, J!RunsAreReserved
<1>s. /\ run \in [Run -> J!RunRequest] /\ attempts \in [Run -> J!Log]
      /\ call \in [Run -> J!SdkCall] /\ hourly \in [Run -> J!HeldSlots]
  BY DEF J!TypeOK
<1>e. \A r \in Run : Elsewhere(r) => J!RunIsReserved(r)'
  BY <1>r, ElsewhereReserved, SessionsStayStep
<1>o. ASSUME NEW r \in Run, \A x \in Run \ {r} : Elsewhere(x), J!RunIsReserved(r)'
      PROVE  J!RunsAreReserved'
  BY <1>e, <1>o DEF J!RunsAreReserved
<1>h. \A opened : \A h \in [Run -> J!HeldSlots], x \in Run :
        J!PruneHour(h, opened)[x] \in {h[x], J!NoSlots}
  BY PruneIs
<1>1. ASSUME NEW s \in Session, NEW r \in Run, J!Accept(r, s) PROVE J!RunsAreReserved'
  <2>1. \A x \in Run \ {r} : Elsewhere(x)
    BY <1>1, ElsewhereStep DEF RunActs
  <2>2. /\ run[r].pc = "idle" /\ run'[r].pc = "accepted" /\ run'[r].of = s
        /\ run'[r].signed = run[r].signed
    BY <1>1, <1>s DEF J!Accept, J!RunRequest
  <2>3. session[s] # None /\ session' = session /\ open' = open
    BY <1>1 DEF J!Accept, J!Swept, J!TypeOK
  <2>4. attempts' = attempts /\ call' = call /\ hourly' = hourly
    BY <1>1 DEF J!Accept
  <2>5. J!RunIsReserved(r)'
    BY <1>r, <2>2, <2>3, <2>4 DEF J!RunIsReserved
  <2> QED BY <1>o, <2>1, <2>5
<1>2. ASSUME NEW r \in Run, J!ReserveRealRun(r) PROVE J!RunsAreReserved'
  <2>1. \A x \in Run \ {r} : Elsewhere(x)
    BY <1>2, ElsewhereStep DEF RunActs
  <2>2. /\ run[r].pc = "accepted" /\ run'[r].pc = "running" /\ run'[r].of = run[r].of
        /\ run'[r].signed = run[r].signed /\ r \in open'
    BY <1>2, <1>s DEF J!ReserveRealRun, J!RunRequest
  <2>3. attempts' = attempts /\ call' = call
    BY <1>2 DEF J!ReserveRealRun
  <2>4. J!RunIsReserved(r)'
    BY <1>r, <2>2, <2>3, SessionsStayStep DEF J!RunIsReserved, SessionsStay
  <2> QED BY <1>o, <2>1, <2>4
<1>3. ASSUME NEW r \in Run, J!RefuseRealRun(r) PROVE J!RunsAreReserved'
  <2>1. \A x \in Run \ {r} : Elsewhere(x)
    BY <1>3, ElsewhereStep DEF RunActs
  <2>2. /\ run[r].pc = "accepted" /\ run'[r].pc = "refused" /\ run'[r].of = run[r].of
        /\ run'[r].signed = run[r].signed
    BY <1>3, <1>s DEF J!RefuseRealRun, J!RunRequest
  <2>3. attempts' = attempts /\ call' = call /\ open' = open /\ session' = session
        /\ hourly'[r] \in {hourly[r], J!NoSlots}
    BY <1>3, <1>s, <1>h DEF J!RefuseRealRun
  <2>4. J!RunIsReserved(r)'
    BY <1>r, <2>2, <2>3 DEF J!RunIsReserved
  <2> QED BY <1>o, <2>1, <2>4
<1>4. ASSUME NEW r \in Run, J!ReplayOrRefuse(r) \/ J!Fail(r) PROVE J!RunsAreReserved'
  <2>1. \A x \in Run \ {r} : Elsewhere(x)
    BY <1>4, ElsewhereStep DEF RunActs
  <2>2. /\ run[r].pc \in {"running", "signed"} /\ run'[r].pc = "raised" /\ run'[r].of = run[r].of
        /\ run'[r].signed = run[r].signed
    BY <1>4, <1>s DEF J!ReplayOrRefuse, J!Fail, J!RunRequest
  <2>3. attempts' = attempts /\ open' = open /\ session' = session /\ hourly' = hourly
    BY <1>4 DEF J!ReplayOrRefuse, J!Fail
  <2>4. call'[r].late + (IF call'[r].awaited = "none" THEN 0 ELSE 1) <= call'[r].made
    <3>1. CASE call' = call
      BY <3>1, <1>r DEF J!RunIsReserved
    <3>2. CASE call'[r] = J!Abandoned(call[r])
      BY <3>2, <1>r, AbandonedTypes, JudgeRecords DEF J!RunIsReserved
    <3> QED BY <1>4, <1>s, <3>1, <3>2 DEF J!ReplayOrRefuse, J!Fail
  <2>5. J!RunIsReserved(r)'
    BY <1>r, <2>2, <2>3, <2>4 DEF J!RunIsReserved
  <2> QED BY <1>o, <2>1, <2>5
<1>5. ASSUME NEW r \in Run, J!Gather(r) \/ J!Answered(r) \/ J!TimesOut(r) PROVE J!RunsAreReserved'
  <2>1. \A x \in Run \ {r} : Elsewhere(x)
    BY <1>5, ElsewhereStep DEF RunActs
  <2>2. /\ run[r].pc = "running" /\ run' = run /\ attempts' = attempts /\ open' = open
        /\ session' = session /\ hourly' = hourly
    BY <1>5 DEF J!Gather, J!Answered, J!TimesOut
  <2>3. call'[r].late + (IF call'[r].awaited = "none" THEN 0 ELSE 1) <= call'[r].made
    <3>1. CASE J!Gather(r)
      <4>1. /\ call[r].awaited = "none" /\ call'[r].awaited = "queued"
            /\ call'[r].made = call[r].made + 1 /\ call'[r].late = call[r].late
        BY <3>1, <1>s DEF J!Gather, J!SdkCall
      <4> QED BY <4>1, <1>r, JudgeRecords DEF J!RunIsReserved
    <3>2. CASE J!Answered(r)
      <4>1. /\ call[r].awaited = "done" /\ call'[r].awaited = "none"
            /\ call'[r].made = call[r].made /\ call'[r].late = call[r].late
        BY <3>2, <1>s DEF J!Answered, J!SdkCall
      <4> QED BY <4>1, <1>r, JudgeRecords DEF J!RunIsReserved
    <3>3. CASE J!TimesOut(r)
      <4>1. call'[r] = J!Abandoned(call[r])
        BY <3>3, <1>s DEF J!TimesOut
      <4> QED BY <4>1, <1>r, AbandonedTypes, JudgeRecords DEF J!RunIsReserved
    <3> QED BY <1>5, <3>1, <3>2, <3>3
  <2>4. J!RunIsReserved(r)'
    BY <1>r, <2>2, <2>3 DEF J!RunIsReserved
  <2> QED BY <1>o, <2>1, <2>4
<1>6. ASSUME NEW r \in Run, J!ThreadReachesTransport(r) PROVE J!RunsAreReserved'
  <2>1. \A x \in Run \ {r} : Elsewhere(x)
    BY <1>6, ElsewhereStep DEF RunActs
  <2>2. run' = run /\ open' = open /\ session' = session /\ hourly' = hourly
    BY <1>6 DEF J!ThreadReachesTransport
  <2>3. /\ call'[r].late + (IF call'[r].awaited = "none" THEN 0 ELSE 1) <= call'[r].made
        /\ call[r].late > 0 \/ call[r].awaited # "none"
    <3>1. CASE call[r].awaited = "queued" /\ call' = [call EXCEPT ![r].awaited = "done"]
      <4>1. /\ call'[r].awaited = "done"
            /\ call'[r].made = call[r].made /\ call'[r].late = call[r].late
        BY <3>1, <1>s DEF J!SdkCall
      <4> QED BY <3>1, <4>1, <1>r, JudgeRecords DEF J!RunIsReserved
    <3>2. CASE call[r].late > 0 /\ call' = [call EXCEPT ![r].late = @ - 1]
      <4>1. /\ call'[r].awaited = call[r].awaited
            /\ call'[r].made = call[r].made /\ call'[r].late = call[r].late - 1
        BY <3>2, <1>s DEF J!SdkCall
      <4> QED BY <3>2, <4>1, <1>r, JudgeRecords DEF J!RunIsReserved
    <3> QED BY <1>6, <3>1, <3>2 DEF J!ThreadReachesTransport
  <2>4. run[r].pc \notin {"idle", "accepted", "refused"}
    BY <1>r, <2>3, JudgeRecords DEF J!RunIsReserved
  <2>5. /\ attempts'[r].sealed = attempts[r].sealed
        /\ attempts'[r].count <= PerRun
    <3>1. CASE attempts' = attempts
      BY <3>1, <1>r DEF J!RunIsReserved
    <3>2. CASE attempts[r].count < PerRun /\ attempts' = [attempts EXCEPT ![r].count = @ + 1]
      <4>1. attempts'[r].sealed = attempts[r].sealed /\ attempts'[r].count = attempts[r].count + 1
        BY <3>2, <1>s DEF J!Log
      <4> QED BY <3>2, <4>1, JudgeRecords
    <3> QED BY <1>6, <3>1, <3>2 DEF J!ThreadReachesTransport, J!HandleRequest
  <2>6. J!RunIsReserved(r)'
    BY <1>r, <2>2, <2>3, <2>4, <2>5 DEF J!RunIsReserved
  <2> QED BY <1>o, <2>1, <2>6
<1>7. ASSUME NEW r \in Run, J!Sign(r) PROVE J!RunsAreReserved'
  <2>1. \A x \in Run \ {r} : Elsewhere(x)
    BY <1>7, ElsewhereStep DEF RunActs
  <2>2. /\ run[r].pc = "running" /\ run'[r].pc = "signed" /\ run'[r].of = run[r].of
        /\ attempts'[r].sealed /\ attempts'[r].count = attempts[r].count
    BY <1>7, <1>s DEF J!Sign, J!RunRequest, J!Log
  <2>3. call' = call /\ open' = open /\ session' = session /\ hourly' = hourly
    BY <1>7 DEF J!Sign
  <2>4. J!RunIsReserved(r)'
    BY <1>r, <2>2, <2>3 DEF J!RunIsReserved
  <2> QED BY <1>o, <2>1, <2>4
<1>8. ASSUME NEW r \in Run, J!SettleRealRun(r) PROVE J!RunsAreReserved'
  <2>1. \A x \in Run \ {r} : Elsewhere(x)
    BY <1>8, ElsewhereStep DEF RunActs
  <2>2. /\ run'[r].pc = "settled" /\ run'[r].of = run[r].of /\ run'[r].signed = run[r].signed
        /\ attempts'[r].sealed /\ attempts'[r].count = attempts[r].count
    BY <1>8, <1>s DEF J!SettleRealRun, J!RunRequest, J!Log
  <2>3. call' = call /\ r \notin open' /\ run[r].pc \in {"signed", "raised"}
    BY <1>8 DEF J!SettleRealRun
  <2>4. J!RunIsReserved(r)'
    BY <1>r, <2>2, <2>3, SessionsStayStep DEF J!RunIsReserved, SessionsStay
  <2> QED BY <1>o, <2>1, <2>4
<1>9. CASE UNCHANGED <<run, attempts, call, hourly, open>>
  BY <1>9, <1>e DEF Elsewhere, J!RunsAreReserved
<1> QED
  BY <1>1, <1>2, <1>3, <1>4, <1>5, <1>6, <1>7, <1>8, <1>9
  DEF J!Next, J!vars, J!Mint, J!GrantNac, J!Tick

\* The slots in use are the open runs.
LEMMA ActiveStep ==
  ASSUME J!TypeOK, J!IInv, [J!Next]_(J!vars)
  PROVE  (active = J!Cardinality(open) /\ active <= MaxConcurrent)'
<1>1. IsFiniteSet(open) /\ Cardinality(open) \in Nat
  BY JudgeNumbers, FS_Subset, FS_CardinalityType DEF J!TypeOK
<1>2. active = Cardinality(open) /\ active <= MaxConcurrent
  BY JudgeSums DEF J!IInv
<1>3. ASSUME NEW r \in Run, J!ReserveRealRun(r)
      PROVE  active' = Cardinality(open') /\ active' <= MaxConcurrent
  <2>1. r \notin open
    BY <1>3 DEF J!IInv, J!RunsAreReserved, J!RunIsReserved, J!ReserveRealRun
  <2>2. Cardinality(open \cup {r}) = Cardinality(open) + 1
    BY <1>1, <2>1, FS_AddElement
  <2>3. open' = open \cup {r} /\ active' = active + 1 /\ active < MaxConcurrent
    BY <1>3 DEF J!ReserveRealRun, J!Admissible
  <2> QED BY <1>1, <1>2, <2>2, <2>3, JudgeNumbers
<1>4. ASSUME NEW r \in Run, J!SettleRealRun(r)
      PROVE  active' = Cardinality(open') /\ active' <= MaxConcurrent
  <2>1. r \in open
    BY <1>4, SettledSession
  <2>2. Cardinality(open \ {r}) = Cardinality(open) - 1
    BY <1>1, <2>1, FS_RemoveElement
  <2>3. open' = open \ {r} /\ active' = active - 1
    BY <1>4 DEF J!SettleRealRun
  <2> QED BY <1>1, <1>2, <2>2, <2>3, JudgeNumbers
<1>5. ASSUME UNCHANGED <<active, open>>
      PROVE  active' = Cardinality(open') /\ active' <= MaxConcurrent
  BY <1>2, <1>5
<1>6. active' = Cardinality(open') /\ active' <= MaxConcurrent
  BY <1>3, <1>4, <1>5 DEF J!Next, J!vars, J!Mint, J!GrantNac, J!Accept, J!RefuseRealRun,
     J!ReplayOrRefuse, J!Gather, J!ThreadReachesTransport, J!Answered, J!TimesOut, J!Sign, J!Fail,
     J!Tick
<1> QED BY <1>6, JudgeSums

\* A step of one run changes the sums of a session by what it changes of the run.
LEMMA ChargesOfRun ==
  ASSUME J!TypeOK, J!TypeOK', J!RunsAreReserved, J!RunsAreReserved', NEW s, NEW r \in Run,
         \A x \in Run \ {r} : Elsewhere(x)
  PROVE  /\ J!HeldBy(s)' = J!HeldBy(s) + Held(s)'[r] - Held(s)[r]
         /\ J!SpentBy(s)' = J!SpentBy(s) + Paid(s)'[r] - Paid(s)[r]
<1>1. \A x \in Run : /\ Held(s)[x] \in Int /\ Held(s)'[x] \in Int
                     /\ Paid(s)[x] \in Int /\ Paid(s)'[x] \in Int
  <2> SUFFICES ASSUME NEW x \in Run
               PROVE  /\ Held(s)[x] \in Int /\ Held(s)'[x] \in Int
                      /\ Paid(s)[x] \in Int /\ Paid(s)'[x] \in Int
    OBVIOUS
  <2>1. J!Spent(x) \in Int
    BY SpentIs, JudgeRecords, JudgeNumbers DEF J!RunsAreReserved, J!RunIsReserved
  <2>2. J!Spent(x)' \in Int
    <3>1. attempts'[x].count \in Nat /\ attempts'[x].count <= PerRun
      BY JudgeNumbers DEF J!TypeOK, J!Log, J!RunsAreReserved, J!RunIsReserved
    <3>2. J!Min({PerRun, attempts'[x].count}) = attempts'[x].count
      BY <3>1, JudgeNumbers DEF J!Min
    <3> QED BY <3>1, <3>2, JudgeNumbers DEF J!Spent
  <2> QED BY <2>1, <2>2, JudgeNumbers DEF Held, Paid
<1>2. \A x \in Run \ {r} : Held(s)'[x] = Held(s)[x] /\ Paid(s)'[x] = Paid(s)[x]
  BY DEF Elsewhere, Held, Paid, J!Spent
<1>3. /\ SumFunctionOnSet(Held(s)', Run) = SumFunctionOnSet(Held(s), Run) + Held(s)'[r] - Held(s)[r]
      /\ SumFunctionOnSet(Paid(s)', Run) = SumFunctionOnSet(Paid(s), Run) + Paid(s)'[r] - Paid(s)[r]
  BY <1>1, <1>2, SumChangedIn, JudgeNumbers
<1> QED BY <1>3, JudgeTerms

\* A step of one run that neither opens nor settles it charges nobody.
LEMMA ChargesKept ==
  ASSUME J!TypeOK, J!TypeOK', J!IInv, J!RunsAreReserved', NEW r \in Run,
         \A x \in Run \ {r} : Elsewhere(x),
         session' = session, r \in open' <=> r \in open,
         run'[r].of = run[r].of \/ r \notin open,
         run[r].pc = "settled" \/ run'[r].pc = "settled" =>
           run'[r] = run[r] /\ attempts'[r] = attempts[r]
  PROVE  J!ChargesAddUp'
<1> SUFFICES ASSUME NEW s \in Session, session[s] # None
             PROVE  /\ session[s].reserved = J!HeldBy(s)'
                    /\ session[s].used = J!SpentBy(s)'
                    /\ session[s].used + session[s].reserved <= PerSession
  BY DEF J!ChargesAddUp
<1>1. Held(s)'[r] = Held(s)[r] /\ Held(s)[r] \in Int
  BY JudgeNumbers DEF Held
<1>2. Paid(s)'[r] = Paid(s)[r] /\ Paid(s)[r] \in Int
  <2>1. J!Spent(r) \in Int
    BY SpentIs, JudgeRecords, JudgeNumbers DEF J!IInv, J!RunsAreReserved, J!RunIsReserved
  <2>2. CASE run[r].pc = "settled"
    BY <2>1, <2>2 DEF Paid, J!Spent
  <2>3. CASE run[r].pc # "settled"
    BY <2>3 DEF Paid
  <2> QED BY <2>2, <2>3
<1>3. /\ J!HeldBy(s)' = J!HeldBy(s) + Held(s)'[r] - Held(s)[r]
      /\ J!SpentBy(s)' = J!SpentBy(s) + Paid(s)'[r] - Paid(s)[r]
  BY ChargesOfRun DEF J!IInv
<1>4. /\ session[s].reserved = J!HeldBy(s) /\ session[s].used = J!SpentBy(s)
      /\ session[s].used + session[s].reserved <= PerSession
  BY DEF J!IInv, J!ChargesAddUp
<1>5. session[s].reserved \in Nat /\ session[s].used \in Nat
  BY DEF J!TypeOK, J!JudgeSession
<1> QED BY <1>1, <1>2, <1>3, <1>4, <1>5

LEMMA ChargesStep ==
  ASSUME J!TypeOK, J!TypeOK', J!IInv, J!RunsAreReserved', [J!Next]_(J!vars) PROVE J!ChargesAddUp'
<1>r. \A r \in Run : J!RunIsReserved(r)
  BY DEF J!IInv, J!RunsAreReserved
<1>c. \A s \in Session : session[s] # None =>
        /\ session[s].reserved = J!HeldBy(s) /\ session[s].used = J!SpentBy(s)
        /\ session[s].used + session[s].reserved <= PerSession
        /\ session[s].reserved \in Nat /\ session[s].used \in Nat
  BY DEF J!IInv, J!ChargesAddUp, J!TypeOK, J!JudgeSession
<1>s. /\ session \in [Session -> {None} \cup J!JudgeSession]
      /\ run \in [Run -> J!RunRequest] /\ attempts \in [Run -> J!Log]
  BY DEF J!TypeOK
<1>u. UNCHANGED <<run, open, attempts>> =>
        \A s : J!HeldBy(s)' = J!HeldBy(s) /\ J!SpentBy(s)' = J!SpentBy(s)
  BY DEF J!HeldBy, J!SpentBy, J!Spent
<1>1. ASSUME NEW m \in Session, J!Mint(m) PROVE J!ChargesAddUp'
  <2> DEFINE new == [expires |-> judgeNow + TTL, capability |-> FALSE, used |-> 0, reserved |-> 0]
  <2>1. session' = [session EXCEPT ![m] = new] /\ session[m] = None /\ UNCHANGED <<run, open, attempts>>
    BY <1>1 DEF J!Mint
  <2>2. J!HeldBy(m) = 0 /\ J!SpentBy(m) = 0
    <3>1. \A x \in Run : Held(m)[x] = 0 /\ Paid(m)[x] = 0
      BY <1>r, <2>1 DEF Held, Paid, J!RunIsReserved
    <3> QED BY <3>1, SumZero, JudgeTerms, JudgeNumbers
  <2>3. session'[m].used = 0 /\ session'[m].reserved = 0
    BY <1>s, <2>1
  <2>4. \A s \in Session \ {m} : session'[s] = session[s]
    BY <1>s, <2>1
  <2>5. ASSUME NEW s \in Session, session'[s] # None
        PROVE  /\ session'[s].reserved = J!HeldBy(s)'
               /\ session'[s].used = J!SpentBy(s)'
               /\ session'[s].used + session'[s].reserved <= PerSession
    <3>1. J!HeldBy(s)' = J!HeldBy(s) /\ J!SpentBy(s)' = J!SpentBy(s)
      BY <1>u, <2>1
    <3>2. CASE s = m
      BY <2>2, <2>3, <3>1, <3>2, JudgeNumbers
    <3>3. CASE s # m
      BY <1>c, <2>4, <2>5, <3>1, <3>3
    <3> QED BY <3>2, <3>3
  <2> QED BY <2>5 DEF J!ChargesAddUp
<1>2. ASSUME NEW m \in Session, J!GrantNac(m) PROVE J!ChargesAddUp'
  <2>1. /\ session' = [session EXCEPT ![m] = [session[m] EXCEPT !.capability = TRUE]]
        /\ UNCHANGED <<run, open, attempts>> /\ session[m] \in J!JudgeSession /\ session[m] # None
    BY <1>2, <1>s DEF J!GrantNac, J!Swept, J!TypeOK
  <2>2. session'[m].used = session[m].used /\ session'[m].reserved = session[m].reserved
    BY <1>s, <2>1 DEF J!JudgeSession
  <2>3. \A s \in Session \ {m} : session'[s] = session[s]
    BY <1>s, <2>1
  <2>4. ASSUME NEW s \in Session, session'[s] # None
        PROVE  /\ session'[s].reserved = J!HeldBy(s)'
               /\ session'[s].used = J!SpentBy(s)'
               /\ session'[s].used + session'[s].reserved <= PerSession
    <3>1. J!HeldBy(s)' = J!HeldBy(s) /\ J!SpentBy(s)' = J!SpentBy(s)
      BY <1>u, <2>1
    <3>2. /\ session[s] # None
          /\ session'[s].used = session[s].used /\ session'[s].reserved = session[s].reserved
      BY <2>1, <2>2, <2>3, <2>4
    <3> QED BY <1>c, <3>1, <3>2
  <2> QED BY <2>4 DEF J!ChargesAddUp
<1>3. ASSUME NEW r \in Run,
             \/ \E s \in Session : J!Accept(r, s)
             \/ J!RefuseRealRun(r) \/ J!ReplayOrRefuse(r)
             \/ J!Gather(r) \/ J!ThreadReachesTransport(r) \/ J!Answered(r) \/ J!TimesOut(r)
             \/ J!Sign(r) \/ J!Fail(r)
      PROVE  J!ChargesAddUp'
  <2>1. \A x \in Run \ {r} : Elsewhere(x)
    BY <1>3, ElsewhereStep DEF RunActs
  <2>2. session' = session /\ open' = open
    BY <1>3 DEF J!Accept, J!RefuseRealRun, J!ReplayOrRefuse, J!Gather, J!ThreadReachesTransport,
       J!Answered, J!TimesOut, J!Sign, J!Fail
  <2>3. /\ run'[r].of = run[r].of \/ r \notin open
        /\ run[r].pc = "settled" \/ run'[r].pc = "settled" =>
             run'[r] = run[r] /\ attempts'[r] = attempts[r]
    <3>1. ASSUME NEW s \in Session, J!Accept(r, s)
          PROVE  r \notin open /\ run[r].pc # "settled" /\ run'[r].pc # "settled"
      BY <3>1, <1>r, <1>s DEF J!Accept, J!RunIsReserved, J!RunRequest
    <3>2. CASE J!RefuseRealRun(r) \/ J!ReplayOrRefuse(r) \/ J!Fail(r)
      BY <3>2, <1>s DEF J!RefuseRealRun, J!ReplayOrRefuse, J!Fail, J!RunRequest
    <3>3. CASE J!Gather(r) \/ J!Answered(r) \/ J!TimesOut(r)
      BY <3>3 DEF J!Gather, J!Answered, J!TimesOut
    <3>4. CASE J!ThreadReachesTransport(r)
      BY <3>4, <1>r DEF J!ThreadReachesTransport, J!HandleRequest, J!RunIsReserved
    <3>5. CASE J!Sign(r)
      BY <3>5, <1>s DEF J!Sign, J!RunRequest
    <3> QED BY <1>3, <3>1, <3>2, <3>3, <3>4, <3>5
  <2> QED BY <2>1, <2>2, <2>3, ChargesKept
<1>4. ASSUME NEW r \in Run, J!ReserveRealRun(r) PROVE J!ChargesAddUp'
  <2> DEFINE o == run[r].of
  <2>1. \A x \in Run \ {r} : Elsewhere(x)
    BY <1>4, ElsewhereStep DEF RunActs
  <2>2. /\ o \in Session /\ session[o] # None
        /\ session' = [session EXCEPT ![o] =
             [expires |-> session[o].expires, capability |-> session[o].capability,
              used |-> session[o].used, reserved |-> session[o].reserved + PerRun]]
    BY <1>4, ReservedSession
  <2>3. /\ session'[o].used = session[o].used /\ session'[o].reserved = session[o].reserved + PerRun
        /\ \A s \in Session \ {o} : session'[s] = session[s]
    <3> HIDE DEF o
    <3> QED BY <1>s, <2>2
  <2>4. run'[r].of = o /\ run'[r].pc = "running" /\ r \in open'
        /\ run[r].pc = "accepted" /\ r \notin open
    BY <1>4, <1>s, <1>r DEF J!ReserveRealRun, J!RunRequest, J!RunIsReserved
  <2>5. ASSUME NEW s
        PROVE  /\ J!HeldBy(s)' = J!HeldBy(s) + (IF s = o THEN PerRun ELSE 0) - 0
               /\ J!SpentBy(s)' = J!SpentBy(s) + 0 - 0
    <3>1. /\ Held(s)'[r] = (IF s = o THEN PerRun ELSE 0) /\ Held(s)[r] = 0
          /\ Paid(s)'[r] = 0 /\ Paid(s)[r] = 0
      BY <2>4 DEF Held, Paid
    <3> QED BY <2>1, <3>1, ChargesOfRun DEF J!IInv
  <2>6. PerSession - (session[o].used + session[o].reserved) >= PerRun
    BY <1>4 DEF J!ReserveRealRun, J!Admissible
  <2>7. ASSUME NEW s \in Session, session'[s] # None
        PROVE  /\ session'[s].reserved = J!HeldBy(s)'
               /\ session'[s].used = J!SpentBy(s)'
               /\ session'[s].used + session'[s].reserved <= PerSession
    <3>1. CASE s = o
      <4>1. /\ session'[s].used = session[s].used /\ session'[s].reserved = session[s].reserved + PerRun
            /\ session[s] # None /\ PerSession - (session[s].used + session[s].reserved) >= PerRun
        BY <2>2, <2>3, <2>6, <3>1
      <4>2. J!HeldBy(s)' = J!HeldBy(s) + PerRun - 0 /\ J!SpentBy(s)' = J!SpentBy(s) + 0 - 0
        BY <2>5, <3>1
      <4>3. /\ session[s].reserved = J!HeldBy(s) /\ session[s].used = J!SpentBy(s)
            /\ session[s].reserved \in Nat /\ session[s].used \in Nat
        BY <1>c, <4>1
      <4> QED BY <4>1, <4>2, <4>3, JudgeNumbers
    <3>2. CASE s # o
      <4>1. session'[s] = session[s]
        BY <2>3, <3>2
      <4>2. J!HeldBy(s)' = J!HeldBy(s) + 0 - 0 /\ J!SpentBy(s)' = J!SpentBy(s) + 0 - 0
        BY <2>5, <3>2
      <4>3. /\ session[s].reserved = J!HeldBy(s) /\ session[s].used = J!SpentBy(s)
            /\ session[s].reserved \in Nat /\ session[s].used \in Nat
            /\ session[s].used + session[s].reserved <= PerSession
        BY <1>c, <2>7, <4>1
      <4> QED BY <4>1, <4>2, <4>3
    <3> QED BY <3>1, <3>2
  <2> QED BY <2>7 DEF J!ChargesAddUp
<1>5. ASSUME NEW r \in Run, J!SettleRealRun(r) PROVE J!ChargesAddUp'
  <2> DEFINE o == run[r].of
             n == J!Spent(r)
  <2>1. \A x \in Run \ {r} : Elsewhere(x)
    BY <1>5, ElsewhereStep DEF RunActs
  <2>2. /\ o \in Session /\ session[o] # None /\ r \in open /\ n \in 0..PerRun
        /\ session' = [session EXCEPT ![o] =
             [expires |-> session[o].expires, capability |-> session[o].capability,
              used |-> session[o].used + n, reserved |-> session[o].reserved - PerRun]]
    BY <1>5, SettledSession
  <2>3. /\ session'[o].used = session[o].used + n /\ session'[o].reserved = session[o].reserved - PerRun
        /\ \A s \in Session \ {o} : session'[s] = session[s]
    <3> HIDE DEF o, n
    <3> QED BY <1>s, <2>2
  <2>4. run'[r].of = o /\ run'[r].pc = "settled" /\ r \notin open' /\ run[r].pc # "settled"
    BY <1>5, <1>s DEF J!SettleRealRun, J!RunRequest
  <2>5. J!Spent(r)' = n
    <3>1. run'[r].clean = run[r].clean /\ attempts'[r].count = attempts[r].count
      BY <1>5, <1>s DEF J!SettleRealRun, J!RunRequest, J!Log
    <3> QED BY <3>1 DEF J!Spent
  <2>6. ASSUME NEW s
        PROVE  /\ J!HeldBy(s)' = J!HeldBy(s) + 0 - (IF s = o THEN PerRun ELSE 0)
               /\ J!SpentBy(s)' = J!SpentBy(s) + (IF s = o THEN n ELSE 0) - 0
    <3>1. /\ Held(s)'[r] = 0 /\ Held(s)[r] = (IF s = o THEN PerRun ELSE 0)
          /\ Paid(s)'[r] = (IF s = o THEN J!Spent(r)' ELSE 0) /\ Paid(s)[r] = 0
      BY <2>2, <2>4 DEF Held, Paid
    <3> QED BY <2>1, <2>5, <3>1, ChargesOfRun DEF J!IInv
  <2> HIDE DEF n
  <2>7. ASSUME NEW s \in Session, session'[s] # None
        PROVE  /\ session'[s].reserved = J!HeldBy(s)'
               /\ session'[s].used = J!SpentBy(s)'
               /\ session'[s].used + session'[s].reserved <= PerSession
    <3>1. CASE s = o
      <4>1. /\ session'[s].used = session[s].used + n /\ session'[s].reserved = session[s].reserved - PerRun
            /\ session[s] # None /\ n \in 0..PerRun
        BY <2>2, <2>3, <3>1
      <4>2. J!HeldBy(s)' = J!HeldBy(s) + 0 - PerRun /\ J!SpentBy(s)' = J!SpentBy(s) + n - 0
        BY <2>6, <3>1
      <4>3. /\ session[s].reserved = J!HeldBy(s) /\ session[s].used = J!SpentBy(s)
            /\ session[s].reserved \in Nat /\ session[s].used \in Nat
            /\ session[s].used + session[s].reserved <= PerSession
        BY <1>c, <4>1
      <4> QED BY <4>1, <4>2, <4>3, JudgeNumbers
    <3>2. CASE s # o
      <4>1. session'[s] = session[s]
        BY <2>3, <3>2
      <4>2. J!HeldBy(s)' = J!HeldBy(s) + 0 - 0 /\ J!SpentBy(s)' = J!SpentBy(s) + 0 - 0
        BY <2>6, <3>2
      <4>3. /\ session[s].reserved = J!HeldBy(s) /\ session[s].used = J!SpentBy(s)
            /\ session[s].reserved \in Nat /\ session[s].used \in Nat
            /\ session[s].used + session[s].reserved <= PerSession
        BY <1>c, <2>7, <4>1
      <4> QED BY <4>1, <4>2, <4>3
    <3> QED BY <3>1, <3>2
  <2> QED BY <2>7 DEF J!ChargesAddUp
<1>6. CASE UNCHANGED <<session, run, open, attempts>>
  BY <1>6, <1>c, <1>u DEF J!ChargesAddUp
<1> QED
  BY <1>1, <1>2, <1>3, <1>4, <1>5, <1>6, JudgeSteps DEF RunActs, J!Tick, J!vars

-----------------------------------------------------------------------------
(* The hour *)

\* Pruning never adds slots, and never drops those a later hour may count.
LEMMA PrunedSlots ==
  ASSUME J!TypeOK, NEW opened, NEW h \in [Run -> J!HeldSlots]
  PROVE  /\ J!SlotsOf(h) \in Nat /\ J!SlotsOf(J!PruneHour(h, opened)) \in Nat
         /\ J!SlotsOf(J!PruneHour(h, opened)) <= J!SlotsOf(h)
<1> DEFINE f == [r \in Run |-> h[r].n]
           g == [r \in Run |-> J!PruneHour(h, opened)[r].n]
<1>1. \A r \in Run : f[r] \in Nat /\ g[r] \in Nat /\ g[r] <= f[r]
  BY PruneIs, JudgeNumbers DEF J!HeldSlots
<1>2. IsFiniteSet(Run)
  BY JudgeNumbers
<1> HIDE DEF f, g
<1>3. /\ SumFunctionOnSet(f, Run) \in Nat /\ SumFunctionOnSet(g, Run) \in Nat
      /\ SumFunctionOnSet(g, Run) <= SumFunctionOnSet(f, Run)
  BY <1>1, <1>2, SumNat, SumAtMost
<1> QED BY <1>3, JudgeTerms DEF f, g

LEMMA SlotsStep ==
  ASSUME J!TypeOK, J!TypeOK', J!IInv, [J!Next]_(J!vars) PROVE J!SlotsAreHeld'
<1> USE JudgeNumbers
<1>h. /\ judgeNow \in Nat /\ hourly \in [Run -> J!HeldSlots]
      /\ \A r \in Run : hourly[r].n \in 0..PerRun /\ hourly[r].at \in Nat
  <2>1. judgeNow \in Nat /\ hourly \in [Run -> J!HeldSlots]
    BY DEF J!TypeOK
  <2>2. \A r \in Run : hourly[r] \in J!HeldSlots
    BY <2>1
  <2>3. \A h \in J!HeldSlots : h.n \in 0..PerRun /\ h.at \in Nat
    BY DEF J!HeldSlots
  <2> QED BY <2>1, <2>2, <2>3
<1>i. /\ \A r \in Run : (r \in open => hourly[r].n = PerRun) /\ hourly[r].at <= judgeNow
      /\ J!SlotsOf(hourly) <= PerHour
  BY DEF J!IInv, J!SlotsAreHeld
<1>p. /\ J!PruneHour(hourly, open) \in [Run -> J!HeldSlots]
      /\ \A r \in Run :
           J!PruneHour(hourly, open)[r] =
             IF hourly[r].at > judgeNow - Hour \/ r \in open THEN hourly[r] ELSE J!NoSlots
      /\ J!NoSlots = [n |-> 0, at |-> 0]
  BY <1>h, PruneIs
<1>1. ASSUME NEW r \in Run, J!ReserveRealRun(r) PROVE J!SlotsAreHeld'
  <2> DEFINE slots == J!PruneHour(hourly, open)
             new == [n |-> PerRun, at |-> judgeNow]
  <2>1. hourly' = [slots EXCEPT ![r] = new] /\ open' = open \cup {r} /\ judgeNow' = judgeNow
        /\ J!SlotsOf(slots) + PerRun <= PerHour
    BY <1>1 DEF J!ReserveRealRun, J!Admissible
  <2>2. hourly[r] = J!NoSlots
    BY <1>1 DEF J!IInv, J!RunsAreReserved, J!RunIsReserved, J!ReserveRealRun
  <2>3. slots[r].n = 0
    BY <1>p, <2>2
  <2> HIDE DEF slots
  <2>4. hourly'[r] = new /\ \A x \in Run \ {r} : hourly'[x] = slots[x]
    BY <1>p, <2>1 DEF slots
  <2>5. J!SlotsOf(hourly') = J!SlotsOf(slots) + PerRun - 0
    <3> DEFINE f == [x \in Run |-> slots[x].n]
               g == [x \in Run |-> hourly'[x].n]
    <3>1. \A x \in Run : f[x] \in Int /\ (x # r => g[x] = f[x])
      BY <1>p, <2>4 DEF slots, J!HeldSlots
    <3>2. f[r] = 0 /\ g[r] = PerRun
      BY <2>3, <2>4
    <3> HIDE DEF f, g
    <3>3. SumFunctionOnSet(g, Run) = SumFunctionOnSet(f, Run) + PerRun - 0
      BY <3>1, <3>2, SumChangedIn
    <3> QED BY <3>3, JudgeTerms DEF f, g
  <2>6. J!SlotsOf(slots) \in Nat
    BY <1>h, PrunedSlots DEF slots
  <2>7. \A x \in Run : (x \in open' => hourly'[x].n = PerRun) /\ hourly'[x].at <= judgeNow'
    BY <1>h, <1>i, <1>p, <2>1, <2>4 DEF slots
  <2>8. J!SlotsOf(hourly') <= PerHour
    BY <2>1, <2>5, <2>6
  <2> QED BY <2>7, <2>8, JudgeTerms DEF J!SlotsAreHeld, J!SlotsOf
<1>2. ASSUME NEW r \in Run, J!SettleRealRun(r) PROVE J!SlotsAreHeld'
  <2> DEFINE new == [n |-> J!Spent(r), at |-> J!SettledAt(r)]
             slots == [hourly EXCEPT ![r] = new]
  <2>1. hourly' = J!PruneHour(slots, open') /\ open' = open \ {r} /\ judgeNow' = judgeNow
    BY <1>2 DEF J!SettleRealRun
  <2>2. r \in open /\ J!Spent(r) \in 0..PerRun
    BY <1>2, SettledSession
  <2>3. slots \in [Run -> J!HeldSlots]
    <3>1. new \in J!HeldSlots
      BY <2>2 DEF J!SettledAt, J!HeldSlots, J!TypeOK
    <3> HIDE DEF new
    <3> QED BY <1>h, <3>1
  <2>4. slots[r].n = J!Spent(r) /\ slots[r].at = judgeNow
    BY <1>h DEF J!SettledAt
  <2>5. \A x \in Run \ {r} : slots[x] = hourly[x]
    BY <1>h
  <2> HIDE DEF slots
  <2>6. J!SlotsOf(slots) <= J!SlotsOf(hourly)
    <3> DEFINE f == [x \in Run |-> slots[x].n]
               g == [x \in Run |-> hourly[x].n]
    <3>1. \A x \in Run : f[x] \in Int /\ g[x] \in Int /\ f[x] <= g[x]
      BY <1>h, <1>i, <2>2, <2>4, <2>5
    <3> HIDE DEF f, g
    <3>2. SumFunctionOnSet(f, Run) <= SumFunctionOnSet(g, Run)
      BY <3>1, SumAtMost
    <3> QED BY <3>2, JudgeTerms DEF f, g
  <2>7. J!SlotsOf(hourly') <= PerHour
    <3>1. /\ J!SlotsOf(slots) \in Nat /\ J!SlotsOf(hourly') \in Nat
          /\ J!SlotsOf(hourly') <= J!SlotsOf(slots)
      BY <2>1, <2>3, PrunedSlots
    <3>2. J!SlotsOf(hourly) \in Nat
      BY <1>h, PrunedSlots
    <3> QED BY <1>i, <2>6, <3>1, <3>2
  <2>8. \A x \in Run : (x \in open' => hourly'[x].n = PerRun) /\ hourly'[x].at <= judgeNow'
    <3>1. \A x \in Run :
            hourly'[x] = IF slots[x].at > judgeNow - Hour \/ x \in open' THEN slots[x] ELSE J!NoSlots
      BY <2>1, <2>3, PruneIs
    <3>2. J!NoSlots.at = 0
      BY <1>p
    <3> SUFFICES ASSUME NEW x \in Run
                 PROVE  (x \in open' => hourly'[x].n = PerRun) /\ hourly'[x].at <= judgeNow
      BY <2>1
    <3>3. slots[x].at <= judgeNow /\ (x # r => slots[x] = hourly[x])
      BY <1>h, <1>i, <2>4, <2>5
    <3>4. hourly'[x].at <= judgeNow
      <4>1. hourly'[x] = slots[x] \/ hourly'[x] = J!NoSlots
        BY <3>1
      <4> QED BY <1>h, <3>2, <3>3, <4>1
    <3>5. x \in open' => hourly'[x] = hourly[x] /\ x \in open
      BY <2>1, <3>1, <3>3
    <3> QED BY <1>i, <3>4, <3>5
  <2> QED BY <2>7, <2>8 DEF J!SlotsAreHeld, J!SlotsOf
<1>3. ASSUME hourly' = hourly \/ hourly' = J!PruneHour(hourly, open), open' = open,
             judgeNow <= judgeNow'
      PROVE  J!SlotsAreHeld'
  <2>1. J!SlotsOf(hourly') <= PerHour
    <3>1. /\ J!SlotsOf(hourly) \in Nat /\ J!SlotsOf(J!PruneHour(hourly, open)) \in Nat
          /\ J!SlotsOf(J!PruneHour(hourly, open)) <= J!SlotsOf(hourly)
      BY <1>h, PrunedSlots
    <3> QED BY <1>3, <1>i, <3>1
  <2>2. \A x \in Run : (x \in open' => hourly'[x].n = PerRun) /\ hourly'[x].at <= judgeNow'
    <3>1. judgeNow' \in Nat
      BY DEF J!TypeOK
    <3> QED BY <1>3, <1>h, <1>i, <1>p, <3>1
  <2> QED BY <2>1, <2>2 DEF J!SlotsAreHeld, J!SlotsOf
<1>4. ASSUME NEW r \in Run, J!RefuseRealRun(r) PROVE J!SlotsAreHeld'
  BY <1>3, <1>4, <1>h DEF J!RefuseRealRun
<1>5. CASE UNCHANGED <<hourly, open, judgeNow>>
  BY <1>3, <1>5, <1>h
<1>6. CASE J!Tick
  BY <1>3, <1>6, <1>h DEF J!Tick
<1> QED
  BY <1>1, <1>2, <1>4, <1>5, <1>6
  DEF J!Next, J!vars, J!Mint, J!GrantNac, J!Accept, J!ReplayOrRefuse, J!Gather,
      J!ThreadReachesTransport, J!Answered, J!TimesOut, J!Sign, J!Fail

\* The log a signature was made over is sealed.
LEMMA SignedStep ==
  ASSUME J!TypeOK, J!TypeOK', J!IInv, [J!Next]_(J!vars) PROVE J!SignedCountIsFinal'
<1>r. \A r \in Run : run[r].signed # None => attempts[r].count = run[r].signed /\ attempts[r].sealed
  BY DEF J!IInv, J!SignedCountIsFinal, J!RunsAreReserved, J!RunIsReserved
<1>s. run \in [Run -> J!RunRequest] /\ attempts \in [Run -> J!Log]
  BY DEF J!TypeOK
<1>1. ASSUME NEW r \in Run, RunActs(r) PROVE J!SignedCountIsFinal'
  <2>1. \A x \in Run \ {r} : run'[x] = run[x] /\ attempts'[x] = attempts[x]
    BY <1>1, ElsewhereStep DEF Elsewhere
  <2>2. CASE J!Sign(r)
    <3>1. run'[r].signed = attempts[r].count /\ attempts'[r].count = attempts[r].count
      BY <2>2, <1>s DEF J!Sign, J!RunRequest, J!Log
    <3> QED BY <1>r, <2>1, <3>1 DEF J!SignedCountIsFinal
  <2>3. CASE J!ThreadReachesTransport(r)
    <3>1. run' = run /\ (attempts[r].sealed => attempts' = attempts)
      BY <2>3 DEF J!ThreadReachesTransport, J!HandleRequest
    <3> QED BY <1>r, <2>1, <3>1 DEF J!SignedCountIsFinal
  <2>4. CASE J!SettleRealRun(r)
    <3>1. run'[r].signed = run[r].signed /\ attempts'[r].count = attempts[r].count
      BY <2>4, <1>s DEF J!SettleRealRun, J!RunRequest, J!Log
    <3> QED BY <1>r, <2>1, <3>1 DEF J!SignedCountIsFinal
  <2>5. CASE \E s \in Session : J!Accept(r, s)
    <3>1. run'[r].signed = run[r].signed /\ attempts' = attempts
      BY <2>5, <1>s DEF J!Accept, J!RunRequest
    <3> QED BY <1>r, <2>1, <3>1 DEF J!SignedCountIsFinal
  <2>6. CASE J!ReserveRealRun(r) \/ J!RefuseRealRun(r) \/ J!ReplayOrRefuse(r) \/ J!Fail(r)
    <3>1. run'[r].signed = run[r].signed /\ attempts' = attempts
      BY <2>6, <1>s DEF J!ReserveRealRun, J!RefuseRealRun, J!ReplayOrRefuse, J!Fail, J!RunRequest
    <3> QED BY <1>r, <2>1, <3>1 DEF J!SignedCountIsFinal
  <2>7. CASE J!Gather(r) \/ J!Answered(r) \/ J!TimesOut(r)
    <3>1. run' = run /\ attempts' = attempts
      BY <2>7 DEF J!Gather, J!Answered, J!TimesOut
    <3> QED BY <1>r, <3>1 DEF J!SignedCountIsFinal
  <2> QED BY <1>1, <2>2, <2>3, <2>4, <2>5, <2>6, <2>7 DEF RunActs
<1>2. CASE UNCHANGED <<run, attempts>>
  BY <1>r, <1>2 DEF J!SignedCountIsFinal
<1> QED BY <1>1, <1>2, JudgeSteps DEF J!Mint, J!GrantNac, J!Tick, J!vars

\* Later than now, and while the hour still reaches back to now, a step that
\* admits no attempt loses no slot of any run.
RecentKept ==
  \A t \in judgeNow..JudgeTime : t - Hour < judgeNow =>
    \A x \in Run : Recent(t)[x] <= Recent(t)'[x]

LEMMA RecentNumbers ==
  ASSUME J!TypeOK, NEW r \in Run, NEW t
  PROVE  Recent(t)[r] \in Nat
BY JudgeRecords, JudgeNumbers DEF Recent, J!RecentOf, J!HeldSlots

LEMMA HourIs ==
  ASSUME NEW t \in Nat
  PROVE  /\ J!HourTo(t) = {u \in 0..t : u > t - Hour} /\ IsFiniteSet(J!HourTo(t))
         /\ t \in 0..JudgeTime => J!HourTo(t) \subseteq 0..JudgeTime
<1>1. J!HourTo(t) \subseteq 0..t
  BY DEF J!HourTo
<1>2. IsFiniteSet(0..t)
  BY FS_Interval
<1> QED BY <1>1, <1>2, FS_Subset, JudgeNumbers DEF J!HourTo

LEMMA RecentStep ==
  ASSUME J!TypeOK, J!TypeOK', J!IInv, J!RunsAreReserved', NEW r \in Run, RunActs(r),
         ~J!ThreadReachesTransport(r)
  PROVE  RecentKept
<1> USE JudgeNumbers
<1>s. /\ run \in [Run -> J!RunRequest] /\ attempts \in [Run -> J!Log]
      /\ hourly \in [Run -> J!HeldSlots] /\ judgeNow \in Nat
  BY DEF J!TypeOK
<1>n. \A x \in Run : attempts[x].count \in Nat /\ hourly[x].n \in Nat /\ hourly[x].at \in Nat
  BY <1>s DEF J!Log, J!HeldSlots
<1>p. \A opened : \A h \in [Run -> J!HeldSlots], x \in Run :
        J!PruneHour(h, opened)[x] =
          IF h[x].at > judgeNow - Hour \/ x \in opened THEN h[x] ELSE J!NoSlots
  BY PruneIs
<1>e. \A x \in Run \ {r} : Elsewhere(x)
  BY ElsewhereStep
<1>1. ASSUME NEW t \in judgeNow..JudgeTime, t - Hour < judgeNow, NEW x \in Run,
             x \in open' <=> x \in open, attempts'[x].count = attempts[x].count,
             hourly[x].at > judgeNow - Hour => hourly'[x] = hourly[x]
      PROVE  Recent(t)[x] <= Recent(t)'[x]
  <2>1. CASE x \in open
    BY <1>1, <1>n, <2>1 DEF Recent, J!RecentOf
  <2>2. CASE x \notin open /\ hourly[x].at > t - Hour
    <3>1. hourly'[x] = hourly[x]
      BY <1>1, <1>n, <1>s, <2>2
    <3> QED BY <1>1, <1>n, <2>2, <3>1 DEF Recent, J!RecentOf
  <2>3. CASE x \notin open /\ ~(hourly[x].at > t - Hour)
    <3>1. Recent(t)[x] = 0
      BY <2>3 DEF Recent, J!RecentOf
    <3>2. Recent(t)'[x] \in Nat
      <4>1. attempts'[x] \in J!Log /\ hourly'[x] \in J!HeldSlots
        BY DEF J!TypeOK
      <4>2. attempts'[x].count \in Nat /\ hourly'[x].n \in Nat
        BY <4>1 DEF J!Log, J!HeldSlots
      <4> QED BY <4>2 DEF Recent, J!RecentOf
    <3> QED BY <3>1, <3>2
  <2> QED BY <2>1, <2>2, <2>3
\* Another run's slots are at most pruned.
<1>2. ASSUME NEW t \in judgeNow..JudgeTime, t - Hour < judgeNow, NEW x \in Run \ {r}
      PROVE  Recent(t)[x] <= Recent(t)'[x]
  <2>1. hourly[x].at > judgeNow - Hour => hourly'[x] = hourly[x]
    <3>1. CASE J!ReserveRealRun(r)
      <4>1. hourly'[x] = J!PruneHour(hourly, open)[x]
        BY <1>2, <1>s, <3>1, PruneIs DEF J!ReserveRealRun
      <4> QED BY <1>p, <1>s, <4>1
    <3>2. CASE J!SettleRealRun(r)
      <4> DEFINE new == [n |-> J!Spent(r), at |-> J!SettledAt(r)]
                 slots == [hourly EXCEPT ![r] = new]
      <4>1. slots \in [Run -> J!HeldSlots] /\ hourly' = J!PruneHour(slots, open')
        <5>1. new \in J!HeldSlots
          BY <3>2, SettledSession DEF J!SettledAt, J!HeldSlots, J!TypeOK
        <5> HIDE DEF new
        <5>2. hourly' = J!PruneHour(slots, open')
          BY <3>2 DEF J!SettleRealRun, new
        <5> QED BY <1>s, <5>1, <5>2
      <4>2. slots[x] = hourly[x]
        OBVIOUS
      <4> HIDE DEF slots
      <4> QED BY <1>p, <4>1, <4>2
    <3>3. CASE J!RefuseRealRun(r)
      <4>1. hourly'[x] = hourly[x] \/ hourly'[x] = J!PruneHour(hourly, open)[x]
        BY <3>3 DEF J!RefuseRealRun
      <4> QED BY <1>p, <1>s, <4>1
    <3>4. CASE hourly' = hourly
      BY <3>4
    <3> QED BY <3>1, <3>2, <3>3, <3>4 DEF RunActs, J!Accept, J!ReplayOrRefuse, J!Gather,
         J!ThreadReachesTransport, J!Answered, J!TimesOut, J!Sign, J!Fail
  <2> QED BY <1>1, <1>2, <1>e, <2>1 DEF Elsewhere
<1>3. ASSUME NEW t \in judgeNow..JudgeTime, t - Hour < judgeNow
      PROVE  Recent(t)[r] <= Recent(t)'[r]
  <2>1. CASE J!ReserveRealRun(r)
    <3>1. attempts[r].count = 0 /\ hourly[r] = J!NoSlots
      BY <2>1 DEF J!IInv, J!RunsAreReserved, J!RunIsReserved, J!ReserveRealRun
    <3>2. Recent(t)[r] = 0
      BY <3>1 DEF Recent, J!RecentOf, J!NoSlots
    <3>3. Recent(t)'[r] = 0
      BY <2>1, <3>1 DEF Recent, J!RecentOf, J!ReserveRealRun
    <3> QED BY <3>2, <3>3
  <2>2. CASE J!SettleRealRun(r)
    <3> DEFINE new == [n |-> J!Spent(r), at |-> J!SettledAt(r)]
               slots == [hourly EXCEPT ![r] = new]
    <3>1. /\ r \in open /\ J!Spent(r) \in 0..PerRun /\ attempts[r].count <= PerRun
          /\ r \notin open'
      BY <2>2, SettledSession DEF J!IInv, J!RunsAreReserved, J!RunIsReserved, J!SettleRealRun
    <3>2. slots \in [Run -> J!HeldSlots] /\ hourly' = J!PruneHour(slots, open')
      <4>1. new \in J!HeldSlots
        BY <3>1 DEF J!SettledAt, J!HeldSlots, J!TypeOK
      <4> HIDE DEF new
      <4>2. hourly' = J!PruneHour(slots, open')
        BY <2>2 DEF J!SettleRealRun, new
      <4> QED BY <1>s, <4>1, <4>2
    <3>3. slots[r].n = J!Spent(r) /\ slots[r].at = judgeNow
      BY <1>s DEF J!SettledAt
    <3> HIDE DEF slots
    <3>4. hourly'[r].n = J!Spent(r) /\ hourly'[r].at = judgeNow
      <4>1. judgeNow > judgeNow - Hour
        BY <1>s
      <4>2. hourly'[r] = slots[r]
        BY <1>p, <3>2, <3>3, <4>1
      <4> QED BY <3>3, <4>2
    <3>5. Recent(t)[r] = attempts[r].count
      BY <3>1 DEF Recent, J!RecentOf
    <3>6. Recent(t)'[r] = J!Spent(r)
      <4>1. hourly'[r].at > t - Hour
        BY <1>3, <1>s, <3>4
      <4> QED BY <3>1, <3>4, <4>1 DEF Recent, J!RecentOf
    <3>7. attempts[r].count <= J!Spent(r)
      BY <1>n, <3>1, SpentIs
    <3> QED BY <3>5, <3>6, <3>7
  <2>3. CASE ~J!ReserveRealRun(r) /\ ~J!SettleRealRun(r)
    <3>1. open' = open
      BY <2>3 DEF RunActs, J!Accept, J!RefuseRealRun, J!ReplayOrRefuse, J!Gather,
         J!ThreadReachesTransport, J!Answered, J!TimesOut, J!Sign, J!Fail
    <3>2. attempts'[r].count = attempts[r].count
      <4>1. CASE J!Sign(r)
        BY <4>1, <1>s DEF J!Sign, J!Log
      <4> QED BY <2>3, <4>1 DEF RunActs, J!Accept, J!RefuseRealRun, J!ReplayOrRefuse, J!Gather,
           J!ThreadReachesTransport, J!Answered, J!TimesOut, J!Fail
    <3>3. hourly[r].at > judgeNow - Hour => hourly'[r] = hourly[r]
      <4>1. CASE J!RefuseRealRun(r)
        <5>1. hourly'[r] = hourly[r] \/ hourly'[r] = J!PruneHour(hourly, open)[r]
          BY <4>1 DEF J!RefuseRealRun
        <5> QED BY <1>p, <1>s, <5>1
      <4> QED BY <2>3, <4>1 DEF RunActs, J!Accept, J!ReplayOrRefuse, J!Gather,
           J!ThreadReachesTransport, J!Answered, J!TimesOut, J!Sign, J!Fail
    <3> QED BY <1>1, <1>3, <3>1, <3>2, <3>3
  <2> QED BY <2>1, <2>2, <2>3
<1> QED BY <1>2, <1>3 DEF RecentKept

\* Steps that admit no attempt keep the hour's attempts within the slots: by the
\* time one ages a run's slots out, the hour reaches back to no attempt at all.
LEMMA AttemptsKept ==
  ASSUME J!TypeOK, J!TypeOK', J!IInv, reached' = reached, judgeNow' = judgeNow, RecentKept
  PROVE  J!AttemptsHoldSlots'
<1>s. /\ judgeNow \in Nat /\ reached \in [0..JudgeTime -> Nat] /\ JudgeTime \in Nat /\ Hour \in Nat
      /\ IsFiniteSet(Run)
  BY JudgeNumbers DEF J!TypeOK
<1>a. /\ \A t \in judgeNow + 1 .. JudgeTime : reached[t] = 0
      /\ \A t \in judgeNow..JudgeTime :
           SumFunctionOnSet(reached, J!HourTo(t)) <= SumFunctionOnSet(Recent(t), Run)
  BY JudgeSums, JudgeTerms DEF J!IInv, J!AttemptsHoldSlots
<1>1. ASSUME NEW t \in judgeNow..JudgeTime
      PROVE  SumFunctionOnSet(reached, J!HourTo(t)) <= SumFunctionOnSet(Recent(t)', Run)
  <2>1. \A x \in Run : Recent(t)[x] \in Nat /\ Recent(t)'[x] \in Nat
    <3>1. \A x \in Run : Recent(t)'[x] \in Nat
      <4> SUFFICES ASSUME NEW x \in Run PROVE Recent(t)'[x] \in Nat
        OBVIOUS
      <4>1. attempts'[x] \in J!Log /\ hourly'[x] \in J!HeldSlots
        BY DEF J!TypeOK
      <4>2. attempts'[x].count \in Nat /\ hourly'[x].n \in Nat
        BY <4>1, JudgeNumbers DEF J!Log, J!HeldSlots
      <4> QED BY <4>2 DEF Recent, J!RecentOf
    <3> QED BY <3>1, RecentNumbers
  <2>2. SumFunctionOnSet(Recent(t), Run) \in Nat /\ SumFunctionOnSet(Recent(t)', Run) \in Nat
    BY <1>s, <2>1, SumNat
  <2>3. t \in Nat /\ IsFiniteSet(J!HourTo(t)) /\ J!HourTo(t) = {u \in 0..t : u > t - Hour}
    BY <1>s, HourIs
  <2>4. CASE t - Hour < judgeNow
    <3>1. SumFunctionOnSet(Recent(t), Run) <= SumFunctionOnSet(Recent(t)', Run)
      <4>1. \A x \in Run : Recent(t)[x] <= Recent(t)'[x]
        BY <2>4 DEF RecentKept
      <4> QED BY <1>s, <2>1, <4>1, SumAtMost
    <3>2. SumFunctionOnSet(reached, J!HourTo(t)) \in Int
      <4>1. \A u \in J!HourTo(t) : reached[u] \in Int
        BY <1>s, <2>3
      <4> QED BY <2>3, <4>1, SumInt
    <3>3. SumFunctionOnSet(reached, J!HourTo(t)) <= SumFunctionOnSet(Recent(t), Run)
      BY <1>a
    <3> QED BY <2>2, <3>1, <3>2, <3>3
  <2>5. CASE ~(t - Hour < judgeNow)
    <3>1. \A u \in J!HourTo(t) : reached[u] = 0
      BY <1>s, <1>a, <2>3, <2>5
    <3>2. SumFunctionOnSet(reached, J!HourTo(t)) = 0
      BY <2>3, <3>1, SumZero
    <3> QED BY <2>2, <3>2
  <2> QED BY <2>4, <2>5
<1>2. \A t \in judgeNow..JudgeTime :
        J!SumFunctionOnSet(reached, J!HourTo(t))
          <= J!SumFunction([r \in Run |-> J!RecentOf(r, t)])'
  BY <1>1, JudgeSums, JudgeTerms
<1> QED BY <1>a, <1>2 DEF J!AttemptsHoldSlots

\* An attempt the log admits takes one of its run's slots, which no later hour
\* gives back.
LEMMA AdmittedStep ==
  ASSUME J!TypeOK, J!TypeOK', J!IInv, J!RunsAreReserved', NEW r \in Run, J!ThreadReachesTransport(r)
  PROVE  J!AttemptsHoldSlots'
<1>s. /\ judgeNow \in 0..JudgeTime /\ judgeNow \in Nat
      /\ reached \in [0..JudgeTime -> Nat] /\ attempts \in [Run -> J!Log]
      /\ JudgeTime \in Nat /\ Hour \in Nat /\ IsFiniteSet(Run)
  BY JudgeNumbers DEF J!TypeOK
<1>a. /\ \A t \in judgeNow + 1 .. JudgeTime : reached[t] = 0
      /\ \A t \in judgeNow..JudgeTime :
           SumFunctionOnSet(reached, J!HourTo(t)) <= SumFunctionOnSet(Recent(t), Run)
  BY JudgeSums, JudgeTerms DEF J!IInv, J!AttemptsHoldSlots
<1>u. UNCHANGED <<judgeNow, open, hourly>>
  BY DEF J!ThreadReachesTransport
<1>1. CASE UNCHANGED <<attempts, reached>>
  <2>1. RecentKept
    BY <1>1, <1>u, RecentNumbers DEF RecentKept, Recent, J!RecentOf
  <2> QED BY <1>1, <1>u, <2>1, AttemptsKept
<1>2. CASE /\ ~attempts[r].sealed /\ attempts[r].count < PerRun
           /\ attempts' = [attempts EXCEPT ![r].count = @ + 1]
           /\ reached' = [reached EXCEPT ![judgeNow] = @ + 1]
  <2>1. r \in open
    <3>1. call[r].late > 0 \/ call[r].awaited # "none"
      BY DEF J!ThreadReachesTransport
    <3>2. run[r].pc \in {"idle", "accepted", "running", "signed", "raised", "settled", "refused"}
      BY DEF J!TypeOK, J!RunRequest
    <3> QED BY <1>2, <3>1, <3>2 DEF J!IInv, J!RunsAreReserved, J!RunIsReserved
  <2>2. /\ attempts'[r].count = attempts[r].count + 1
        /\ \A x \in Run \ {r} : attempts'[x] = attempts[x]
    BY <1>s, <1>2 DEF J!Log
  <2>3. /\ reached'[judgeNow] = reached[judgeNow] + 1
        /\ \A u \in 0..JudgeTime : u # judgeNow => reached'[u] = reached[u]
    BY <1>s, <1>2
  <2>4. ASSUME NEW t \in judgeNow..JudgeTime
        PROVE  SumFunctionOnSet(reached', J!HourTo(t)) <= SumFunctionOnSet(Recent(t)', Run)
    <3>1. SumFunctionOnSet(Recent(t)', Run) = SumFunctionOnSet(Recent(t), Run) + 1
      <4>1. \A x \in Run : Recent(t)[x] \in Int /\ (x # r => Recent(t)'[x] = Recent(t)[x])
        BY <1>u, <2>2, RecentNumbers DEF Recent, J!RecentOf
      <4>2. Recent(t)[r] = attempts[r].count /\ Recent(t)'[r] = attempts[r].count + 1
        BY <1>u, <2>1, <2>2 DEF Recent, J!RecentOf
      <4>3. attempts[r].count \in Nat
        BY JudgeRecords
      <4>4. SumFunctionOnSet(Recent(t)', Run)
              = SumFunctionOnSet(Recent(t), Run) + (attempts[r].count + 1) - attempts[r].count
        BY <1>s, <4>1, <4>2, <4>3, SumChangedIn
      <4>5. SumFunctionOnSet(Recent(t), Run) \in Int
        BY <1>s, <4>1, SumInt
      <4> QED BY <4>3, <4>4, <4>5
    <3> DEFINE H == J!HourTo(t)
    <3>2. IsFiniteSet(H) /\ H \subseteq 0..JudgeTime
      BY <1>s, HourIs
    <3>3. \A u \in H : reached[u] \in Int /\ reached'[u] \in Int
      BY <1>s, <2>3, <3>2
    <3>4. SumFunctionOnSet(reached', H) \in Int /\ SumFunctionOnSet(reached, H) \in Int
      BY <3>2, <3>3, SumInt
    <3>5. SumFunctionOnSet(reached', H) <= SumFunctionOnSet(reached, H) + 1
      <4> HIDE DEF H
      <4>1. CASE judgeNow \in H
        <5>1. SumFunctionOnSet(reached', H)
                = SumFunctionOnSet(reached, H) + reached'[judgeNow] - reached[judgeNow]
          BY <2>3, <3>2, <3>3, <4>1, SumChangedIn
        <5> QED BY <2>3, <3>3, <3>4, <4>1, <5>1
      <4>2. CASE judgeNow \notin H
        <5>1. SumFunctionOnSet(reached', H) = SumFunctionOnSet(reached, H)
          BY <2>3, <3>2, <4>2, SumSame
        <5> QED BY <3>4, <5>1
      <4> QED BY <4>1, <4>2
    <3>6. SumFunctionOnSet(reached, H) <= SumFunctionOnSet(Recent(t), Run)
      BY <1>a
    <3>7. SumFunctionOnSet(Recent(t), Run) \in Int
      BY <1>s, RecentNumbers, SumNat
    <3> HIDE DEF H
    <3>8. SumFunctionOnSet(reached', H) <= SumFunctionOnSet(Recent(t)', Run)
      BY <3>1, <3>4, <3>5, <3>6, <3>7
    <3> QED BY <3>8 DEF H
  <2>5. \A t \in judgeNow + 1 .. JudgeTime : reached'[t] = 0
    BY <1>s, <1>a, <2>3
  <2>6. \A t \in judgeNow..JudgeTime :
          J!SumFunctionOnSet(reached', J!HourTo(t))
            <= J!SumFunction([x \in Run |-> J!RecentOf(x, t)])'
    BY <2>4, JudgeSums, JudgeTerms
  <2> QED BY <1>u, <2>5, <2>6 DEF J!AttemptsHoldSlots
<1> QED BY <1>1, <1>2 DEF J!ThreadReachesTransport, J!HandleRequest

LEMMA AttemptsStep ==
  ASSUME J!TypeOK, J!TypeOK', J!IInv, J!RunsAreReserved', [J!Next]_(J!vars)
  PROVE  J!AttemptsHoldSlots'
<1>1. ASSUME NEW r \in Run, RunActs(r) PROVE J!AttemptsHoldSlots'
  <2>1. CASE J!ThreadReachesTransport(r)
    BY <2>1, AdmittedStep
  <2>2. CASE ~J!ThreadReachesTransport(r)
    <3>1. RecentKept
      BY <1>1, <2>2, RecentStep
    <3>2. reached' = reached /\ judgeNow' = judgeNow
      BY <1>1, <2>2 DEF RunActs, J!Accept, J!ReserveRealRun, J!RefuseRealRun, J!ReplayOrRefuse,
         J!Gather, J!Answered, J!TimesOut, J!Sign, J!Fail, J!SettleRealRun
    <3> QED BY <3>1, <3>2, AttemptsKept
  <2> QED BY <2>1, <2>2
<1>2. CASE J!Tick
  <2>1. judgeNow' = judgeNow + 1 /\ UNCHANGED <<open, attempts, hourly, reached>> /\ judgeNow \in Nat
    BY <1>2 DEF J!Tick, J!TypeOK
  <2>2. \A t : J!SumFunction([r \in Run |-> J!RecentOf(r, t)])'
                 = J!SumFunction([r \in Run |-> J!RecentOf(r, t)])
    BY <2>1 DEF J!RecentOf
  <2>3. /\ judgeNow' + 1 .. JudgeTime \subseteq judgeNow + 1 .. JudgeTime
        /\ judgeNow'..JudgeTime \subseteq judgeNow..JudgeTime
    BY <2>1, JudgeNumbers
  <2> QED BY <2>1, <2>2, <2>3 DEF J!IInv, J!AttemptsHoldSlots
<1>3. CASE UNCHANGED <<judgeNow, open, attempts, hourly, reached>>
  BY <1>3 DEF J!IInv, J!AttemptsHoldSlots, J!RecentOf
<1> QED BY <1>1, <1>2, <1>3, JudgeSteps DEF J!Mint, J!GrantNac, J!vars

\* The hours still to come, or under way.
LaterHours == \A t \in judgeNow..JudgeTime : SumFunctionOnSet(reached, J!HourTo(t)) <= PerHour

\* They have no more attempts than there are slots.
LEMMA HourOfSlots ==
  J!TypeOK /\ J!RunsAreReserved /\ J!SlotsAreHeld /\ J!AttemptsHoldSlots => LaterHours
<1> SUFFICES ASSUME J!TypeOK, J!RunsAreReserved, J!SlotsAreHeld, J!AttemptsHoldSlots,
                    NEW t \in judgeNow..JudgeTime
             PROVE  SumFunctionOnSet(reached, J!HourTo(t)) <= PerHour
  BY DEF LaterHours
<1> DEFINE held == [x \in Run |-> hourly[x].n]
<1>s. /\ judgeNow \in Nat /\ reached \in [0..JudgeTime -> Nat] /\ hourly \in [Run -> J!HeldSlots]
      /\ JudgeTime \in Nat /\ PerHour \in Nat /\ PerRun \in Nat /\ IsFiniteSet(Run)
  BY JudgeNumbers DEF J!TypeOK
<1>1. SumFunctionOnSet(reached, J!HourTo(t)) <= SumFunctionOnSet(Recent(t), Run)
  BY JudgeSums, JudgeTerms DEF J!AttemptsHoldSlots
<1>2. \A x \in Run : Recent(t)[x] \in Nat /\ held[x] \in Nat /\ Recent(t)[x] <= held[x]
  <2> SUFFICES ASSUME NEW x \in Run
               PROVE  Recent(t)[x] \in Nat /\ held[x] \in Nat /\ Recent(t)[x] <= held[x]
    OBVIOUS
  <2>1. hourly[x].n \in Nat /\ Recent(t)[x] \in Nat
    BY <1>s, RecentNumbers DEF J!HeldSlots
  <2>2. x \in open => attempts[x].count <= hourly[x].n
    BY DEF J!RunsAreReserved, J!RunIsReserved, J!SlotsAreHeld
  <2>3. Recent(t)[x] <= hourly[x].n
    BY <2>1, <2>2 DEF Recent, J!RecentOf
  <2> QED BY <2>1, <2>3
<1>3. SumFunctionOnSet(held, Run) <= PerHour
  BY JudgeTerms DEF J!SlotsAreHeld
<1> HIDE DEF held
<1>4. SumFunctionOnSet(Recent(t), Run) <= SumFunctionOnSet(held, Run)
  BY <1>s, <1>2, SumAtMost
<1>5. SumFunctionOnSet(Recent(t), Run) \in Nat /\ SumFunctionOnSet(held, Run) \in Nat
  BY <1>s, <1>2, SumNat
<1>6. SumFunctionOnSet(reached, J!HourTo(t)) \in Int
  <2>1. IsFiniteSet(J!HourTo(t)) /\ J!HourTo(t) \subseteq 0..JudgeTime
    BY <1>s, HourIs
  <2> QED BY <1>s, <2>1, SumInt
<1> QED BY <1>s, <1>1, <1>3, <1>4, <1>5, <1>6

\* The hours that are over see no further attempt.
LEMMA HourStep ==
  ASSUME J!TypeOK, J!IInv, [J!Next]_(J!vars), LaterHours'
  PROVE  J!HourIsBounded'
<1>s. /\ judgeNow \in 0..JudgeTime /\ judgeNow \in Nat /\ reached \in [0..JudgeTime -> Nat]
      /\ JudgeTime \in Nat
  BY JudgeNumbers DEF J!TypeOK
<1>1. \A t \in 0..JudgeTime : SumFunctionOnSet(reached, J!HourTo(t)) <= PerHour
  BY JudgeSums DEF J!IInv, J!HourIsBounded
<1>2. \A t \in judgeNow'..JudgeTime : SumFunctionOnSet(reached', J!HourTo(t)) <= PerHour
  BY DEF LaterHours
<1>3. \/ judgeNow' = judgeNow /\ reached' = [reached EXCEPT ![judgeNow] = @ + 1]
      \/ judgeNow' \in {judgeNow, judgeNow + 1} /\ reached' = reached
  BY DEF J!Next, J!vars, J!Mint, J!GrantNac, J!Accept, J!ReserveRealRun, J!RefuseRealRun,
     J!ReplayOrRefuse, J!Gather, J!ThreadReachesTransport, J!HandleRequest, J!Answered, J!TimesOut,
     J!Sign, J!Fail, J!SettleRealRun, J!Tick
<1>4. ASSUME NEW t \in 0..JudgeTime
      PROVE  SumFunctionOnSet(reached', J!HourTo(t)) <= PerHour
  <2>1. CASE t < judgeNow'
    <3>1. IsFiniteSet(J!HourTo(t)) /\ J!HourTo(t) = {u \in 0..t : u > t - Hour}
      BY <1>s, HourIs
    <3>2. \A u \in J!HourTo(t) : reached'[u] = reached[u]
      BY <1>s, <1>3, <2>1, <3>1
    <3>3. SumFunctionOnSet(reached', J!HourTo(t)) = SumFunctionOnSet(reached, J!HourTo(t))
      BY <3>1, <3>2, SumSame
    <3> QED BY <1>1, <3>3
  <2>2. CASE ~(t < judgeNow')
    BY <1>s, <1>2, <1>3, <2>2
  <2> QED BY <2>1, <2>2
<1> QED BY <1>4, JudgeSums DEF J!HourIsBounded

LEMMA JudgeStep ==
  ASSUME J!TypeOK, J!IInv, [J!Next]_(J!vars) PROVE J!TypeOK' /\ J!IInv'
<1>1. J!TypeOK'
  BY JudgeTypeStep
<1>2. J!RunsAreReserved'
  BY <1>1, RunsAreReservedStep
<1>3. (active = J!Cardinality(open) /\ active <= MaxConcurrent)'
  BY ActiveStep
<1>4. J!ChargesAddUp'
  BY <1>1, <1>2, ChargesStep
<1>5. J!SlotsAreHeld'
  BY <1>1, SlotsStep
<1>6. J!AttemptsHoldSlots'
  BY <1>1, <1>2, AttemptsStep
<1>7. LaterHours'
  BY <1>1, <1>2, <1>5, <1>6, HourOfSlots, PTL
<1>8. J!HourIsBounded'
  BY <1>7, HourStep
<1>9. J!SignedCountIsFinal'
  BY <1>1, SignedStep
<1> QED BY <1>1, <1>2, <1>3, <1>4, <1>5, <1>6, <1>8, <1>9 DEF J!IInv

LEMMA JudgeInit == ASSUME J!Init PROVE J!TypeOK /\ J!IInv
<1> USE JudgeNumbers
<1>i. /\ judgeNow = 0 /\ session = [s \in Session |-> None] /\ live = {} /\ open = {} /\ active = 0
      /\ hourly = [r \in Run |-> J!NoSlots] /\ run = [r \in Run |-> J!FreshRun]
      /\ attempts = [r \in Run |-> [count |-> 0, sealed |-> FALSE]]
      /\ call = [r \in Run |-> [made |-> 0, awaited |-> "none", late |-> 0]]
      /\ reached = [t \in 0..JudgeTime |-> 0]
  BY DEF J!Init
<1>1. J!TypeOK
  <2>1. J!NoSlots \in J!HeldSlots
    BY DEF J!NoSlots, J!HeldSlots
  <2>2. J!FreshRun \in J!RunRequest
    BY DEF J!FreshRun, J!RunRequest
  <2>3. [count |-> 0, sealed |-> FALSE] \in J!Log
    BY DEF J!Log
  <2>4. [made |-> 0, awaited |-> "none", late |-> 0] \in J!SdkCall
    BY DEF J!SdkCall
  <2> QED BY <1>i, <2>1, <2>2, <2>3, <2>4 DEF J!TypeOK
<1>2. J!RunsAreReserved
  BY <1>i DEF J!RunsAreReserved, J!RunIsReserved, J!FreshRun
<1>3. active = J!Cardinality(open) /\ active <= MaxConcurrent
  <2>1. Cardinality({}) = 0
    BY FS_EmptySet
  <2> QED BY <1>i, <2>1, JudgeSums
<1>4. J!ChargesAddUp
  BY <1>i DEF J!ChargesAddUp
<1>5. J!SlotsAreHeld
  <2>1. \A r \in Run : hourly[r].n = 0 /\ hourly[r].at = 0
    BY <1>i DEF J!NoSlots
  <2>2. J!SlotsOf(hourly) = 0
    <3>1. SumFunctionOnSet([r \in Run |-> hourly[r].n], Run) = 0
      BY <2>1, SumZero
    <3> QED BY <3>1, JudgeTerms
  <2> QED BY <1>i, <2>1, <2>2 DEF J!SlotsAreHeld
<1>6. \A t \in 0..JudgeTime : SumFunctionOnSet(reached, J!HourTo(t)) = 0
  <2> SUFFICES ASSUME NEW t \in 0..JudgeTime PROVE SumFunctionOnSet(reached, J!HourTo(t)) = 0
    OBVIOUS
  <2>1. IsFiniteSet(J!HourTo(t)) /\ J!HourTo(t) \subseteq 0..JudgeTime
    BY HourIs
  <2> QED BY <1>i, <2>1, SumZero
<1>7. J!AttemptsHoldSlots
  <2>1. \A t \in 0..JudgeTime : SumFunctionOnSet(Recent(t), Run) \in Nat
    BY <1>1, RecentNumbers, SumNat
  <2>2. \A t \in 0..JudgeTime :
          J!SumFunctionOnSet(reached, J!HourTo(t)) <= J!SumFunction([r \in Run |-> J!RecentOf(r, t)])
    <3> SUFFICES ASSUME NEW t \in 0..JudgeTime
                 PROVE  SumFunctionOnSet(reached, J!HourTo(t)) <= SumFunctionOnSet(Recent(t), Run)
      BY JudgeSums, JudgeTerms
    <3> QED BY <1>6, <2>1
  <2>3. \A t \in judgeNow + 1 .. JudgeTime : reached[t] = 0
    BY <1>i
  <2>4. judgeNow..JudgeTime = 0..JudgeTime
    BY <1>i
  <2> QED BY <2>2, <2>3, <2>4 DEF J!AttemptsHoldSlots
<1>8. J!HourIsBounded
  BY <1>6, JudgeSums DEF J!HourIsBounded
<1>9. J!SignedCountIsFinal
  BY <1>i DEF J!SignedCountIsFinal, J!FreshRun
<1> QED BY <1>1, <1>2, <1>3, <1>4, <1>5, <1>7, <1>8, <1>9 DEF J!IInv

\* In every state of a behaviour that is a judge's, and trivially in the others,
\* the runs, the charges and the slots agree.
THEOREM JudgeInvariance == Spec => [](J!TypeOK /\ J!IInv)
<1>1. Init => J!TypeOK /\ J!IInv
  BY JudgeInit DEF Init
<1>2. ASSUME J!TypeOK, J!IInv, [Next]_vars PROVE J!TypeOK' /\ J!IInv'
  <2>1. [J!Next]_(J!vars)
    BY <1>2 DEF Next, vars, judgeVars, J!vars
  <2> QED BY <1>2, <2>1, JudgeStep
<1> QED BY <1>1, <1>2, PTL DEF Spec

-----------------------------------------------------------------------------
(* What a judge is promised *)

\* Every attempt of a run is held, or was paid, by the run.
LEMMA AttemptsArePaid ==
  ASSUME J!TypeOK, J!IInv, NEW s
  PROVE  J!MadeBy(s) <= J!HeldBy(s) + J!SpentBy(s)
<1> DEFINE both == [x \in Run |-> Held(s)[x] + Paid(s)[x]]
<1>1. \A x \in Run : /\ Held(s)[x] \in Nat /\ Paid(s)[x] \in Nat /\ Made(s)[x] \in Nat
                     /\ Made(s)[x] <= Held(s)[x] + Paid(s)[x]
  <2> SUFFICES ASSUME NEW x \in Run
               PROVE  /\ Held(s)[x] \in Nat /\ Paid(s)[x] \in Nat /\ Made(s)[x] \in Nat
                      /\ Made(s)[x] <= Held(s)[x] + Paid(s)[x]
    OBVIOUS
  <2>1. attempts[x].count \in Nat /\ attempts[x].count <= PerRun /\ PerRun \in Nat
    BY JudgeRecords, JudgeNumbers DEF J!IInv, J!RunsAreReserved, J!RunIsReserved
  <2>2. J!Spent(x) \in Nat /\ attempts[x].count <= J!Spent(x)
    BY <2>1, SpentIs
  <2>3. x \in open \/ run[x].pc = "settled" \/ attempts[x].count = 0
    <3>1. run[x].pc \in {"idle", "accepted", "running", "signed", "raised", "settled", "refused"}
      BY DEF J!TypeOK, J!RunRequest
    <3> QED BY <3>1 DEF J!IInv, J!RunsAreReserved, J!RunIsReserved
  <2>4. Held(s)[x] = IF run[x].of = s /\ x \in open THEN PerRun ELSE 0
    BY DEF Held
  <2>5. Paid(s)[x] = IF run[x].of = s /\ run[x].pc = "settled" THEN J!Spent(x) ELSE 0
    BY DEF Paid
  <2>6. Made(s)[x] = IF run[x].of = s THEN attempts[x].count ELSE 0
    BY DEF Made
  <2> QED BY <2>1, <2>2, <2>3, <2>4, <2>5, <2>6
<1>2. IsFiniteSet(Run)
  BY JudgeNumbers
<1>3. SumFunctionOnSet(both, Run) = SumFunctionOnSet(Held(s), Run) + SumFunctionOnSet(Paid(s), Run)
  BY <1>1, <1>2, SumPlus
<1>4. SumFunctionOnSet(Made(s), Run) <= SumFunctionOnSet(both, Run)
  <2>1. \A x \in Run : Made(s)[x] \in Int /\ both[x] \in Int /\ Made(s)[x] <= both[x]
    BY <1>1
  <2> HIDE DEF both
  <2> QED BY <1>2, <2>1, SumAtMost
<1> HIDE DEF both
<1> QED BY <1>3, <1>4, JudgeTerms

\* Whatever runs overlap, fail or time out, a session's operator attempts never
\* pass what it was charged or holds reserved, that never passes its allowance,
\* and no hour sees more attempts than the deployment's (reserve_real_run,
\* settle_real_run, _prune_hour, AttemptLog).
THEOREM SpendBounded == Spec => []SpendIsBounded
<1>1. ASSUME J!TypeOK, J!IInv PROVE SpendIsBounded
  <2>1. ASSUME NEW s \in Session, session[s] # None
        PROVE  /\ J!MadeBy(s) <= session[s].used + session[s].reserved
               /\ session[s].used + session[s].reserved <= PerSession
    <3>1. /\ session[s].reserved = J!HeldBy(s) /\ session[s].used = J!SpentBy(s)
          /\ session[s].used + session[s].reserved <= PerSession
          /\ session[s].reserved \in Nat /\ session[s].used \in Nat
      BY <1>1, <2>1 DEF J!IInv, J!ChargesAddUp, J!TypeOK, J!JudgeSession
    <3>2. J!MadeBy(s) <= J!HeldBy(s) + J!SpentBy(s)
      BY <1>1, AttemptsArePaid
    <3> QED BY <3>1, <3>2
  <2>2. active = J!Cardinality(open) /\ active <= MaxConcurrent /\ J!HourIsBounded
    BY <1>1 DEF J!IInv
  <2> QED BY <1>1, <2>1, <2>2 DEF SpendIsBounded, J!EveryAttemptIsPaid
<1> QED BY <1>1, JudgeInvariance, PTL

\* The number of attempts inside the signed bytes is the number ever made: no
\* thread that outlives its timeout gets through after the signature (stamp).
THEOREM SignedCountStands == Spec => []SignedCountIsFinal
<1>1. J!IInv => SignedCountIsFinal
  BY DEF J!IInv, SignedCountIsFinal
<1> QED BY <1>1, JudgeInvariance, PTL

-----------------------------------------------------------------------------
(* The merchant pilot *)

LEMMA PilotNumbers ==
  /\ PhoneRetention \in Nat /\ FlowRetention \in Nat /\ PilotSessions \in Nat /\ PilotTime \in Nat
  /\ None \notin Req
BY PilotAssumption DEF P!PilotAssumption

LEMMA PilotCardinality == \A S : P!Cardinality(S) = Cardinality(S)
BY DEF P!Cardinality, Cardinality

\* Minimizing a flow takes the phone at most, and never what a request stands on.
LEMMA MinimizedIs ==
  ASSUME P!TypeOK, NEW f \in P!FlowRecord
  PROVE  /\ P!Minimized(f) \in P!FlowRecord
         /\ P!Minimized(f).verifying = f.verifying /\ P!Minimized(f).creating = f.creating
         /\ P!Minimized(f).session = f.session
<1> DEFINE expires == IF f.phoneExpires = None THEN pilotNow + PhoneRetention ELSE f.phoneExpires
           kept == f.phone /\ f.status = "COMPLETED" /\ f.session = 0 /\ pilotNow < expires
<1>1. expires \in Nat /\ kept \in BOOLEAN
  BY PilotNumbers DEF P!TypeOK, P!FlowRecord
<1>2. P!Minimized(f) = f \/ P!Minimized(f) = [f EXCEPT !.phoneExpires = expires, !.phone = kept]
  BY DEF P!Minimized
<1> HIDE DEF expires, kept
<1>3. CASE P!Minimized(f) = f
  BY <1>3
<1>4. CASE P!Minimized(f) = [f EXCEPT !.phoneExpires = expires, !.phone = kept]
  <2> DEFINE g == [f EXCEPT !.phoneExpires = expires, !.phone = kept]
  <2>1. g \in P!FlowRecord
    BY <1>1 DEF P!FlowRecord
  <2>2. g.verifying = f.verifying /\ g.creating = f.creating /\ g.session = f.session
    BY DEF P!FlowRecord
  <2> QED BY <1>4, <2>1, <2>2
<1> QED BY <1>2, <1>3, <1>4

\* What one request's move does to what is awaited.
LEMMA AwaitingStep ==
  ASSUME P!TypeOK, NEW r \in Req, NEW q \in P!Asked, req' = [req EXCEPT ![r] = q]
  PROVE  /\ req' \in [Req -> P!Asked] /\ req'[r] = q /\ \A x \in Req \ {r} : req'[x] = req[x]
         /\ \A w : P!Awaiting(w)' =
              IF q.awaits = w THEN P!Awaiting(w) \cup {r} ELSE P!Awaiting(w) \ {r}
<1>1. req \in [Req -> P!Asked]
  BY DEF P!TypeOK
<1>2. req' \in [Req -> P!Asked] /\ req'[r] = q /\ \A x \in Req \ {r} : req'[x] = req[x]
  BY <1>1
<1> QED BY <1>2 DEF P!Awaiting

\* A request moves the flow to f, unless the move blocks the loop.
Moves(r, q, f) ==
  /\ req' = [req EXCEPT ![r] = q]
  /\ ~frozen /\ flow' \in {f, flow} /\ (~frozen' => flow' = f)
  /\ trust' = trust

\* The requests in /verify are those the flag stands for, when the flag is
\* raised by the request that enters and lowered by the one that leaves.
LEMMA OneVerifiesMoves ==
  ASSUME P!TypeOK, P!IInv, NEW r \in Req, NEW q \in P!Asked, NEW f \in P!FlowRecord, Moves(r, q, f),
         \/ f.verifying = flow.verifying /\ (q.awaits = "verify" <=> req[r].awaits = "verify")
         \/ f.verifying /\ ~flow.verifying /\ q.awaits = "verify"
         \/ ~f.verifying /\ req[r].awaits = "verify" /\ q.awaits # "verify"
  PROVE  P!OneVerifies'
<1> SUFFICES ASSUME ~frozen'
             PROVE  \/ f.verifying /\ \E x \in Req : P!Awaiting("verify")' = {x}
                    \/ ~f.verifying /\ P!Awaiting("verify")' = {}
  BY DEF P!OneVerifies, Moves
<1>1. \/ flow.verifying /\ \E x \in Req : P!Awaiting("verify") = {x}
      \/ ~flow.verifying /\ P!Awaiting("verify") = {}
  BY DEF P!IInv, P!OneVerifies, Moves
<1>2. P!Awaiting("verify")' =
        IF q.awaits = "verify" THEN P!Awaiting("verify") \cup {r} ELSE P!Awaiting("verify") \ {r}
  BY AwaitingStep DEF Moves
<1>3. r \in P!Awaiting("verify") <=> req[r].awaits = "verify"
  BY DEF P!Awaiting
<1>4. CASE f.verifying = flow.verifying /\ (q.awaits = "verify" <=> req[r].awaits = "verify")
  <2>1. P!Awaiting("verify")' = P!Awaiting("verify")
    BY <1>2, <1>3, <1>4
  <2> QED BY <1>1, <1>4, <2>1
<1>5. CASE f.verifying /\ ~flow.verifying /\ q.awaits = "verify"
  BY <1>1, <1>2, <1>5
<1>6. CASE ~f.verifying /\ req[r].awaits = "verify" /\ q.awaits # "verify"
  BY <1>1, <1>2, <1>3, <1>6
<1> QED BY <1>4, <1>5, <1>6

LEMMA OneCreatesMoves ==
  ASSUME P!TypeOK, P!IInv, NEW r \in Req, NEW q \in P!Asked, NEW f \in P!FlowRecord, Moves(r, q, f),
         \/ f.creating = flow.creating /\ (q.awaits = "open" <=> req[r].awaits = "open")
         \/ f.creating /\ ~flow.creating /\ q.awaits = "open"
         \/ ~f.creating /\ req[r].awaits = "open" /\ q.awaits # "open",
         f.session # flow.session => req[r].awaits = "open" /\ q.awaits # "open",
         q.awaits = "open" => flow.session = 0
  PROVE  P!OneCreates'
<1>1. \/ flow.creating /\ \E x \in Req : P!Awaiting("open") = {x}
      \/ ~flow.creating /\ P!Awaiting("open") = {}
  BY DEF P!IInv, P!OneCreates, Moves
<1>2. P!Awaiting("open")' =
        IF q.awaits = "open" THEN P!Awaiting("open") \cup {r} ELSE P!Awaiting("open") \ {r}
  BY AwaitingStep DEF Moves
<1>3. r \in P!Awaiting("open") <=> req[r].awaits = "open"
  BY DEF P!Awaiting
<1>4. ASSUME ~frozen'
      PROVE  \/ f.creating /\ \E x \in Req : P!Awaiting("open")' = {x}
             \/ ~f.creating /\ P!Awaiting("open")' = {}
  <2>1. CASE f.creating = flow.creating /\ (q.awaits = "open" <=> req[r].awaits = "open")
    <3>1. P!Awaiting("open")' = P!Awaiting("open")
      BY <1>2, <1>3, <2>1
    <3> QED BY <1>1, <2>1, <3>1
  <2>2. CASE f.creating /\ ~flow.creating /\ q.awaits = "open"
    BY <1>1, <1>2, <2>2
  <2>3. CASE ~f.creating /\ req[r].awaits = "open" /\ q.awaits # "open"
    BY <1>1, <1>2, <1>3, <2>3
  <2> QED BY <2>1, <2>2, <2>3
<1>5. ASSUME flow'.session # 0 PROVE P!Awaiting("open")' = {}
  <2>1. CASE flow.session # 0
    <3>1. P!Awaiting("open") = {}
      BY <2>1 DEF P!IInv, P!OneCreates
    <3> QED BY <1>2, <2>1, <3>1
  <2>2. CASE flow.session = 0
    <3>1. req[r].awaits = "open" /\ q.awaits # "open"
      BY <1>5, <2>2 DEF Moves
    <3> QED BY <1>1, <1>2, <1>3, <3>1
  <2> QED BY <2>1, <2>2
<1> QED BY <1>4, <1>5 DEF P!OneCreates, Moves

LEMMA SessionsMove ==
  ASSUME P!TypeOK, P!IInv, NEW r \in Req, NEW q \in P!Asked, NEW f \in P!FlowRecord, Moves(r, q, f),
         f.session # flow.session => f.session \in 1..P!Len(trust),
         q.answer = None,
         q.awaits \in {"swap", "release"} => flow.session # 0,
         flow.session # 0 => f.session = flow.session
  PROVE  P!SessionsWereOpened'
<1>1. /\ flow.session \in 0..P!Len(trust)
      /\ \A x \in Req :
           /\ req[x].awaits = "open" /\ req[x].answer # None => req[x].answer <= P!Len(trust)
           /\ req[x].awaits \in {"swap", "release"} => flow.session # 0
  BY DEF P!IInv, P!SessionsWereOpened
<1>2. req'[r] = q /\ \A x \in Req \ {r} : req'[x] = req[x]
  BY AwaitingStep DEF Moves
<1>3. trust' = trust /\ (flow'.session = flow.session \/ flow'.session = f.session)
  BY DEF Moves
<1>4. flow'.session \in 0..P!Len(trust) /\ (flow.session # 0 => flow'.session # 0)
  <2>1. P!Len(trust) \in Nat
    BY DEF P!TypeOK
  <2> QED BY <1>1, <1>3, <2>1
<1>5. \A x \in Req :
        /\ req'[x].awaits = "open" /\ req'[x].answer # None => req'[x].answer <= P!Len(trust)
        /\ req'[x].awaits \in {"swap", "release"} => flow'.session # 0
  BY <1>1, <1>2, <1>4
<1> QED BY <1>3, <1>4, <1>5 DEF P!SessionsWereOpened

\* A move that keeps what each flag stands for.
Fits(r, q, f) ==
  /\ \/ f.verifying = flow.verifying /\ (q.awaits = "verify" <=> req[r].awaits = "verify")
     \/ f.verifying /\ ~flow.verifying /\ q.awaits = "verify"
     \/ ~f.verifying /\ req[r].awaits = "verify" /\ q.awaits # "verify"
  /\ \/ f.creating = flow.creating /\ (q.awaits = "open" <=> req[r].awaits = "open")
     \/ f.creating /\ ~flow.creating /\ q.awaits = "open"
     \/ ~f.creating /\ req[r].awaits = "open" /\ q.awaits # "open"
  /\ f.session # flow.session =>
       /\ req[r].awaits = "open" /\ q.awaits # "open"
       /\ flow.session = 0 /\ f.session \in 1..P!Len(trust)
  /\ q.answer = None
  /\ q.awaits = "open" => flow.session = 0
  /\ q.awaits \in {"swap", "release"} => flow.session # 0

\* What every step of the pilot keeps.
PilotKeeps ==
  /\ P!TypeOK' /\ P!IInv'
  /\ flow.session # 0 => flow'.session = flow.session

LEMMA PilotMoves ==
  ASSUME P!TypeOK, P!IInv, NEW r \in Req, NEW q \in P!Asked, NEW f \in P!FlowRecord,
         Moves(r, q, f), Fits(r, q, f), pilotNow' = pilotNow, consent' = consent,
         stored' \in BOOLEAN, lock' \in Req \cup {None}, frozen' \in BOOLEAN
  PROVE  PilotKeeps
<1>1. P!TypeOK'
  <2>1. req' \in [Req -> P!Asked]
    BY AwaitingStep DEF Moves
  <2>2. flow' \in P!FlowRecord /\ trust' = trust
    BY DEF Moves, P!TypeOK
  <2> QED BY <2>1, <2>2 DEF P!TypeOK
<1>2. P!OneVerifies'
  BY OneVerifiesMoves DEF Fits
<1>3. P!OneCreates'
  BY OneCreatesMoves DEF Fits
<1>4. P!SessionsWereOpened'
  BY SessionsMove DEF Fits
<1>5. flow.session # 0 => flow'.session = flow.session
  BY DEF Moves, Fits
<1> QED BY <1>1, <1>2, <1>3, <1>4, <1>5 DEF PilotKeeps, P!IInv

\* A step that moves no request keeps what they wait for.
LEMMA PilotStays ==
  ASSUME P!IInv, flow'.verifying = flow.verifying, flow'.creating = flow.creating,
         flow'.session = flow.session, frozen => frozen',
         \A x \in Req : /\ req'[x].awaits = req[x].awaits
                        /\ req[x].awaits = "open" =>
                             req'[x].answer = req[x].answer \/ req'[x].answer <= P!Len(trust'),
         P!Len(trust) \in Nat, P!Len(trust') \in Nat, P!Len(trust) <= P!Len(trust'),
         \A x \in Req : req[x].awaits = "open" /\ req[x].answer # None => req[x].answer \in Nat
  PROVE  P!IInv'
<1>1. \A w : P!Awaiting(w)' = P!Awaiting(w)
  BY DEF P!Awaiting
<1>2. P!OneVerifies'
  <2>1. P!Awaiting("verify")' = P!Awaiting("verify")
    BY <1>1
  <2> QED BY <2>1 DEF P!IInv, P!OneVerifies
<1>3. P!OneCreates'
  <2>1. P!Awaiting("open")' = P!Awaiting("open")
    BY <1>1
  <2> QED BY <2>1 DEF P!IInv, P!OneCreates
<1>4. P!SessionsWereOpened'
  <2>1. flow'.session \in 0..P!Len(trust')
    BY DEF P!IInv, P!SessionsWereOpened
  <2>2. ASSUME NEW x \in Req
        PROVE  /\ req'[x].awaits = "open" /\ req'[x].answer # None => req'[x].answer <= P!Len(trust')
               /\ req'[x].awaits \in {"swap", "release"} => flow'.session # 0
    BY DEF P!IInv, P!SessionsWereOpened
  <2> QED BY <2>1, <2>2 DEF P!SessionsWereOpened
<1> QED BY <1>2, <1>3, <1>4 DEF P!IInv

\* Locking is the move, or the block.
LEMMA LockingIs ==
  ASSUME NEW f, P!Locking(f)
  PROVE  ~frozen /\ flow' \in {f, flow} /\ (~frozen' => flow' = f) /\ frozen' \in BOOLEAN
BY DEF P!Locking

LEMMA AskedIs ==
  /\ \A w \in {"none", "status", "verify", "swap", "release", "open"} :
       [awaits |-> w, answer |-> None] \in P!Asked
  /\ P!Idle = [awaits |-> "none", answer |-> None]
BY DEF P!Asked, P!Idle

LEMMA PilotRequestStep ==
  ASSUME P!TypeOK, P!IInv, NEW r \in Req,
         \/ P!Poll(r) \/ P!StatusArrives(r) \/ P!VerdictArrives(r) \/ P!PollLost(r)
         \/ P!OpenTrustSession(r) \/ P!SessionOpened(r) \/ P!OpenLost(r)
         \/ P!SimulateSwap(r) \/ P!SwapEnds(r)
         \/ P!ReleaseOrder(r) \/ P!ReleaseArrives(r) \/ P!ReleaseLost(r)
  PROVE  PilotKeeps
<1>t. /\ flow \in P!FlowRecord /\ req[r] \in P!Asked /\ stored \in BOOLEAN
      /\ lock \in Req \cup {None} /\ frozen \in BOOLEAN
  BY DEF P!TypeOK
<1>m. /\ P!Minimized(flow) \in P!FlowRecord
      /\ P!Minimized(flow).verifying = flow.verifying /\ P!Minimized(flow).creating = flow.creating
      /\ P!Minimized(flow).session = flow.session
  BY <1>t, MinimizedIs
<1>a. /\ P!Idle \in P!Asked /\ P!Idle.awaits = "none" /\ P!Idle.answer = None
      /\ \A w \in {"status", "verify", "swap", "release", "open"} :
           [awaits |-> w, answer |-> None] \in P!Asked
  BY AskedIs
<1>1. ASSUME P!Poll(r) PROVE PilotKeeps
  <2> DEFINE q == [awaits |-> "status", answer |-> None]
             f == P!Minimized(flow)
  <2>1. P!Locking(f) /\ req' = [req EXCEPT ![r] = q] /\ trust' = trust
    BY <1>1 DEF P!Poll, P!Sweep, P!Await
  <2>2. Moves(r, q, f) /\ frozen' \in BOOLEAN
    BY <2>1, LockingIs DEF Moves
  <2>3. req[r].awaits = "none"
    BY <1>1, <1>a DEF P!Poll
  <2>4. Fits(r, q, f)
    BY <1>m, <2>3 DEF Fits
  <2>5. pilotNow' = pilotNow /\ consent' = consent /\ stored' \in BOOLEAN /\ lock' = lock
    BY <1>1 DEF P!Poll, P!Sweep
  <2> QED BY <1>t, <1>m, <1>a, <2>2, <2>4, <2>5, PilotMoves
<1>2. ASSUME P!StatusArrives(r) PROVE PilotKeeps
  <2> DEFINE to == IF req[r].answer = "GONE" THEN "UNAVAILABLE" ELSE req[r].answer
             g == [flow EXCEPT !.status = to]
  <2>1. /\ req[r].awaits = "status" /\ to \in P!UpstreamStatus \cup {"UNAVAILABLE"}
    BY <1>2, <1>t DEF P!StatusArrives, P!Answers, P!Asked
  <2>2. /\ pilotNow' = pilotNow /\ consent' = consent /\ stored' = stored /\ lock' = lock
        /\ trust' = trust
    BY <1>2 DEF P!StatusArrives
  <2>3. /\ g \in P!FlowRecord /\ g.verifying = flow.verifying /\ g.creating = flow.creating
        /\ g.session = flow.session
    <3> HIDE DEF to
    <3> QED BY <1>t, <2>1 DEF P!FlowRecord
  <2>4. \/ ~g.verifying /\ P!Locking([g EXCEPT !.verifying = TRUE]) /\ P!Await(r, "verify")
        \/ P!Locking(P!Minimized(g)) /\ P!Finish(r)
    BY <1>2, Zenon DEF P!StatusArrives
  <2> HIDE DEF g
  <2>5. CASE ~g.verifying /\ P!Locking([g EXCEPT !.verifying = TRUE]) /\ P!Await(r, "verify")
    <3> DEFINE q == [awaits |-> "verify", answer |-> None]
               f == [g EXCEPT !.verifying = TRUE]
    <3>1. /\ f \in P!FlowRecord /\ f.verifying /\ f.creating = flow.creating
          /\ f.session = flow.session
      BY <2>3 DEF P!FlowRecord
    <3>2. P!Locking(f) /\ req' = [req EXCEPT ![r] = q]
      BY <2>5 DEF P!Await
    <3> HIDE DEF f
    <3>3. Moves(r, q, f) /\ frozen' \in BOOLEAN
      BY <2>2, <3>2, LockingIs DEF Moves
    <3>4. Fits(r, q, f)
      BY <2>1, <2>3, <2>5, <3>1 DEF Fits
    <3> QED BY <1>t, <1>a, <2>2, <3>1, <3>3, <3>4, PilotMoves
  <2>6. CASE P!Locking(P!Minimized(g)) /\ P!Finish(r)
    <3> DEFINE f == P!Minimized(g)
    <3>1. /\ f \in P!FlowRecord /\ f.verifying = flow.verifying /\ f.creating = flow.creating
          /\ f.session = flow.session
      BY <2>3, MinimizedIs
    <3>2. P!Locking(f) /\ req' = [req EXCEPT ![r] = P!Idle]
      BY <2>6 DEF P!Finish
    <3> HIDE DEF f
    <3>3. Moves(r, P!Idle, f) /\ frozen' \in BOOLEAN
      BY <2>2, <3>2, LockingIs DEF Moves
    <3>4. Fits(r, P!Idle, f)
      BY <1>a, <2>1, <3>1 DEF Fits
    <3> QED BY <1>t, <1>a, <2>2, <3>1, <3>3, <3>4, PilotMoves
  <2> QED BY <2>4, <2>5, <2>6
\* The request leaves /verify, and lowers the flag.
<1>3. ASSUME NEW g \in P!FlowRecord, ~g.verifying, g.creating = flow.creating,
             g.session = flow.session, req[r].awaits = "verify",
             P!Locking(P!Minimized(g)), P!Finish(r),
             UNCHANGED <<pilotNow, consent, trust, stored, lock>>
      PROVE  PilotKeeps
  <2> DEFINE f == P!Minimized(g)
  <2>1. /\ f \in P!FlowRecord /\ ~f.verifying /\ f.creating = flow.creating
        /\ f.session = flow.session
    BY <1>3, MinimizedIs
  <2>2. P!Locking(f) /\ req' = [req EXCEPT ![r] = P!Idle]
    BY <1>3 DEF P!Finish
  <2> HIDE DEF f
  <2>3. Moves(r, P!Idle, f) /\ frozen' \in BOOLEAN
    BY <1>3, <2>2, LockingIs DEF Moves
  <2>4. Fits(r, P!Idle, f)
    BY <1>a, <1>3, <2>1 DEF Fits
  <2> QED BY <1>t, <1>a, <1>3, <2>1, <2>3, <2>4, PilotMoves
<1>4. ASSUME P!VerdictArrives(r) PROVE PilotKeeps
  <2> DEFINE g == IF req[r].answer = "OK"
                  THEN [flow EXCEPT !.verifying = FALSE, !.result = TRUE, !.status = "COMPLETED"]
                  ELSE [flow EXCEPT !.verifying = FALSE]
  <2>1. /\ g \in P!FlowRecord /\ ~g.verifying /\ g.creating = flow.creating
        /\ g.session = flow.session
    BY <1>t DEF P!FlowRecord, P!UpstreamStatus
  <2>2. /\ req[r].awaits = "verify" /\ P!Locking(P!Minimized(g)) /\ P!Finish(r)
        /\ UNCHANGED <<pilotNow, consent, trust, stored, lock>>
    BY <1>4 DEF P!VerdictArrives, P!Answers
  <2> HIDE DEF g
  <2> QED BY <1>3, <2>1, <2>2
<1>5. ASSUME P!PollLost(r) PROVE PilotKeeps
  <2> DEFINE g == [flow EXCEPT !.verifying = @ /\ req[r].awaits # "verify"]
  <2>1. /\ P!Locking(P!Minimized(g)) /\ P!Finish(r)
        /\ UNCHANGED <<pilotNow, consent, trust, stored, lock>>
    BY <1>5 DEF P!PollLost
  <2>2. CASE req[r].awaits = "verify"
    <3>1. /\ g \in P!FlowRecord /\ ~g.verifying /\ g.creating = flow.creating
          /\ g.session = flow.session
      BY <1>t, <2>2 DEF P!FlowRecord
    <3> HIDE DEF g
    <3> QED BY <1>3, <2>1, <2>2, <3>1
  <2>3. CASE req[r].awaits = "status"
    <3> DEFINE f == P!Minimized(g)
    <3>1. /\ g \in P!FlowRecord /\ g.verifying = flow.verifying /\ g.creating = flow.creating
          /\ g.session = flow.session
      BY <1>t, <2>3 DEF P!FlowRecord
    <3> HIDE DEF g
    <3>2. /\ f \in P!FlowRecord /\ f.verifying = flow.verifying /\ f.creating = flow.creating
          /\ f.session = flow.session
      BY <3>1, MinimizedIs
    <3>3. P!Locking(f) /\ req' = [req EXCEPT ![r] = P!Idle]
      BY <2>1 DEF P!Finish
    <3> HIDE DEF f
    <3>4. Moves(r, P!Idle, f) /\ frozen' \in BOOLEAN
      BY <2>1, <3>3, LockingIs DEF Moves
    <3>5. Fits(r, P!Idle, f)
      BY <1>a, <2>3, <3>2 DEF Fits
    <3> QED BY <1>t, <1>a, <2>1, <3>2, <3>4, <3>5, PilotMoves
  <2> QED BY <1>5, <2>2, <2>3 DEF P!PollLost
<1>6. ASSUME P!OpenTrustSession(r) PROVE PilotKeeps
  <2> DEFINE q == [awaits |-> "open", answer |-> None]
             f == [P!Minimized(flow) EXCEPT !.creating = TRUE]
  <2>1. /\ f \in P!FlowRecord /\ f.verifying = flow.verifying /\ f.creating
        /\ f.session = flow.session
    BY <1>m DEF P!FlowRecord
  <2>2. /\ P!Locking(f) /\ req' = [req EXCEPT ![r] = q] /\ req[r] = P!Idle
        /\ flow.session = 0 /\ ~flow.creating
        /\ UNCHANGED <<pilotNow, consent, trust, stored, lock>>
    BY <1>6 DEF P!OpenTrustSession, P!Await
  <2> HIDE DEF f
  <2>3. Moves(r, q, f) /\ frozen' \in BOOLEAN
    BY <2>2, LockingIs DEF Moves
  <2>4. Fits(r, q, f)
    BY <1>a, <2>1, <2>2 DEF Fits
  <2> QED BY <1>t, <1>a, <2>1, <2>2, <2>3, <2>4, PilotMoves
\* The request to open a session returns, with one or not.
<1>7. ASSUME NEW g \in P!FlowRecord, ~g.creating, g.verifying = flow.verifying,
             req[r].awaits = "open",
             g.session # flow.session => flow.session = 0 /\ g.session \in 1..P!Len(trust),
             P!Locking(P!Minimized(g)), P!Finish(r),
             UNCHANGED <<pilotNow, consent, trust, stored, lock>>
      PROVE  PilotKeeps
  <2> DEFINE f == P!Minimized(g)
  <2>1. /\ f \in P!FlowRecord /\ ~f.creating /\ f.verifying = flow.verifying
        /\ f.session = g.session
    BY <1>7, MinimizedIs
  <2>2. P!Locking(f) /\ req' = [req EXCEPT ![r] = P!Idle]
    BY <1>7 DEF P!Finish
  <2> HIDE DEF f
  <2>3. Moves(r, P!Idle, f) /\ frozen' \in BOOLEAN
    BY <1>7, <2>2, LockingIs DEF Moves
  <2>4. Fits(r, P!Idle, f)
    BY <1>a, <1>7, <2>1 DEF Fits
  <2> QED BY <1>t, <1>a, <1>7, <2>1, <2>3, <2>4, PilotMoves
<1>8. ASSUME P!SessionOpened(r) PROVE PilotKeeps
  <2> DEFINE g == [flow EXCEPT !.session = req[r].answer, !.creating = FALSE]
  <2>1. /\ req[r].awaits = "open" /\ req[r].answer # None
        /\ P!Locking(P!Minimized(g)) /\ P!Finish(r)
        /\ UNCHANGED <<pilotNow, consent, trust, stored, lock>>
    BY <1>8 DEF P!SessionOpened, P!Answers
  <2>2. req[r].answer \in 1..PilotSessions /\ req[r].answer \in 1..P!Len(trust)
    <3>1. req[r].answer \in 1..PilotSessions
      BY <1>t, <2>1 DEF P!Asked
    <3>2. req[r].answer <= P!Len(trust) /\ P!Len(trust) \in Nat
      BY <2>1 DEF P!IInv, P!SessionsWereOpened, P!TypeOK
    <3> QED BY <3>1, <3>2, PilotNumbers
  <2>3. /\ g \in P!FlowRecord /\ ~g.creating /\ g.verifying = flow.verifying
        /\ g.session = req[r].answer
    <3>1. PICK n \in 0..PilotSessions : n = req[r].answer
      BY <2>2, PilotNumbers
    <3>2. g = [flow EXCEPT !.session = n, !.creating = FALSE]
      BY <3>1
    <3> HIDE DEF g
    <3>3. g \in P!FlowRecord /\ ~g.creating /\ g.verifying = flow.verifying /\ g.session = n
      BY <1>t, <3>2 DEF P!FlowRecord
    <3> QED BY <3>1, <3>3
  <2>4. flow.session = 0
    <3>1. P!Awaiting("open") # {}
      BY <2>1 DEF P!Awaiting
    <3> QED BY <3>1 DEF P!IInv, P!OneCreates
  <2> HIDE DEF g
  <2> QED BY <1>7, <2>1, <2>2, <2>3, <2>4
<1>9. ASSUME P!OpenLost(r) PROVE PilotKeeps
  <2> DEFINE g == [flow EXCEPT !.creating = FALSE]
  <2>1. /\ req[r].awaits = "open" /\ P!Locking(P!Minimized(g)) /\ P!Finish(r)
        /\ UNCHANGED <<pilotNow, consent, trust, stored, lock>>
    BY <1>9 DEF P!OpenLost
  <2>2. /\ g \in P!FlowRecord /\ ~g.creating /\ g.verifying = flow.verifying
        /\ g.session = flow.session
    BY <1>t DEF P!FlowRecord
  <2> HIDE DEF g
  <2> QED BY <1>7, <2>1, <2>2
<1>10. ASSUME NEW w \in {"swap", "release"}, req[r] = P!Idle, flow.session # 0,
              P!Locking(P!Minimized(flow)), P!Await(r, w), stored' \in BOOLEAN,
              lock' \in Req \cup {None}, UNCHANGED <<pilotNow, consent, trust>>
       PROVE  PilotKeeps
  <2> DEFINE q == [awaits |-> w, answer |-> None]
             f == P!Minimized(flow)
  <2>1. Moves(r, q, f) /\ frozen' \in BOOLEAN
    BY <1>10, LockingIs DEF Moves, P!Await
  <2>2. Fits(r, q, f)
    BY <1>a, <1>m, <1>10 DEF Fits
  <2> QED BY <1>m, <1>a, <1>10, <2>1, <2>2, PilotMoves
<1>11. ASSUME P!SimulateSwap(r) \/ P!ReleaseOrder(r) PROVE PilotKeeps
  BY <1>10, <1>11, <1>t DEF P!SimulateSwap, P!ReleaseOrder, P!Sweep
\* The request ends, without the flow's lock.
<1>12. ASSUME NEW f \in P!FlowRecord, f.verifying = flow.verifying, f.creating = flow.creating,
              f.session = flow.session, flow' = f, ~frozen,
              req[r].awaits \in {"swap", "release"}, P!Finish(r),
              lock' \in Req \cup {None}, UNCHANGED <<pilotNow, consent, trust, stored, frozen>>
       PROVE  PilotKeeps
  <2>1. Moves(r, P!Idle, f)
    BY <1>12 DEF Moves, P!Finish
  <2>2. Fits(r, P!Idle, f)
    BY <1>a, <1>12 DEF Fits
  <2> QED BY <1>t, <1>a, <1>12, <2>1, <2>2, PilotMoves
<1>13. ASSUME P!SwapEnds(r) \/ P!ReleaseLost(r) PROVE PilotKeeps
  BY <1>12, <1>13, <1>t DEF P!SwapEnds, P!ReleaseLost
<1>14. ASSUME P!ReleaseArrives(r) PROVE PilotKeeps
  <2> DEFINE f == [flow EXCEPT !.released = req[r].answer = "ACTIVE"]
  <2>1. /\ f \in P!FlowRecord /\ f.verifying = flow.verifying /\ f.creating = flow.creating
        /\ f.session = flow.session
    BY <1>t DEF P!FlowRecord
  <2>2. /\ flow' = f /\ ~frozen /\ req[r].awaits = "release" /\ P!Finish(r) /\ lock' = None
        /\ UNCHANGED <<pilotNow, consent, trust, stored, frozen>>
    BY <1>14 DEF P!ReleaseArrives, P!Answers
  <2> HIDE DEF f
  <2> QED BY <1>12, <2>1, <2>2
<1> QED
  BY <1>1, <1>2, <1>4, <1>5, <1>6, <1>8, <1>9, <1>11, <1>13, <1>14

\* Isnad's answer to a request leaves what it awaits.
LEMMA AnsweredStep ==
  ASSUME P!TypeOK, P!IInv, NEW r \in Req, NEW w, NEW a,
         req[r] = [awaits |-> w, answer |-> None],
         [awaits |-> w, answer |-> a] \in P!Asked, P!IsnadAnswers(r, a),
         w = "open" => a = P!Len(trust'),
         P!Len(trust) <= P!Len(trust'), trust' \in Seq(P!SessionStatus),
         P!Len(trust') <= PilotSessions, consent' \in P!UpstreamStatus \cup {"GONE"},
         UNCHANGED <<pilotNow, flow, stored, lock, frozen>>
  PROVE  PilotKeeps
<1>1. /\ req' \in [Req -> P!Asked]
      /\ \A x \in Req : /\ req'[x].awaits = req[x].awaits
                        /\ req'[x].answer = req[x].answer
                             \/ (x = r /\ req'[x].answer = a)
  <2>1. req' = [req EXCEPT ![r] = [awaits |-> w, answer |-> a]]
    <3>1. [[awaits |-> w, answer |-> None] EXCEPT !.answer = a] = [awaits |-> w, answer |-> a]
      OBVIOUS
    <3>2. req' = [req EXCEPT ![r] = [req[r] EXCEPT !.answer = a]]
      BY DEF P!IsnadAnswers
    <3> QED BY <3>1, <3>2
  <2> QED BY <2>1 DEF P!TypeOK
<1>2. P!TypeOK'
  BY <1>1 DEF P!TypeOK
<1>3. P!Len(trust) \in Nat /\ P!Len(trust') \in Nat
  BY DEF P!TypeOK
<1>4. \A x \in Req : /\ req[x] \in P!Asked
                     /\ req[x].awaits = "open" /\ req[x].answer # None => req[x].answer \in Nat
  <2>1. \A x \in Req : req[x] \in P!Asked
    BY DEF P!TypeOK
  <2>2. \A q \in P!Asked : q.awaits = "open" /\ q.answer # None => q.answer \in Nat
    BY PilotNumbers DEF P!Asked
  <2> QED BY <2>1, <2>2
<1>5. \A x \in Req : /\ req'[x].awaits = req[x].awaits
                     /\ req[x].awaits = "open" =>
                          req'[x].answer = req[x].answer \/ req'[x].answer <= P!Len(trust')
  BY <1>1, <1>3
<1>6. P!IInv'
  BY <1>3, <1>4, <1>5, PilotStays
<1> QED BY <1>2, <1>6 DEF PilotKeeps

LEMMA PilotAnswerStep ==
  ASSUME P!TypeOK, P!IInv, NEW r \in Req,
         \/ P!AnswerStatus(r) \/ P!AnswerVerify(r) \/ P!AnswerOpen(r)
         \/ P!AnswerSwap(r) \/ P!AnswerRelease(r)
  PROVE  PilotKeeps
<1>t. /\ consent \in P!UpstreamStatus \cup {"GONE"} /\ trust \in Seq(P!SessionStatus)
      /\ P!Len(trust) <= PilotSessions /\ P!Len(trust) \in Nat
  BY DEF P!TypeOK
<1>1. ASSUME P!AnswerStatus(r) PROVE PilotKeeps
  <2>1. [awaits |-> "status", answer |-> consent] \in P!Asked
    BY <1>t DEF P!Asked
  <2> QED BY <1>t, <1>1, <2>1, AnsweredStep DEF P!AnswerStatus
<1>2. ASSUME P!AnswerVerify(r) PROVE PilotKeeps
  <2>1. /\ [awaits |-> "verify", answer |-> "OK"] \in P!Asked
        /\ [awaits |-> "verify", answer |-> "CONFLICT"] \in P!Asked
    BY DEF P!Asked
  <2>2. consent' \in P!UpstreamStatus \cup {"GONE"}
    BY <1>t, <1>2 DEF P!AnswerVerify, P!UpstreamStatus
  <2>3. /\ req[r] = [awaits |-> "verify", answer |-> None]
        /\ P!IsnadAnswers(r, "OK") \/ P!IsnadAnswers(r, "CONFLICT")
        /\ UNCHANGED <<pilotNow, trust, flow, stored, lock, frozen>>
    BY <1>2 DEF P!AnswerVerify
  <2> QED BY <1>t, <2>1, <2>2, <2>3, AnsweredStep
<1>3. ASSUME P!AnswerOpen(r) PROVE PilotKeeps
  <2>1. /\ trust' \in Seq(P!SessionStatus) /\ P!Len(trust') = P!Len(trust) + 1
        /\ P!Len(trust) < PilotSessions
    BY <1>t, <1>3 DEF P!AnswerOpen, P!SessionStatus
  <2>2. [awaits |-> "open", answer |-> P!Len(trust')] \in P!Asked
    <3>1. P!Len(trust') \in 1..PilotSessions
      BY <1>t, <2>1, PilotNumbers
    <3> QED BY <3>1 DEF P!Asked
  <2>3. P!Len(trust) <= P!Len(trust') /\ P!Len(trust') <= PilotSessions
    BY <1>t, <2>1, PilotNumbers
  <2> QED BY <1>t, <1>3, <2>1, <2>2, <2>3, AnsweredStep DEF P!AnswerOpen
<1>4. ASSUME P!AnswerSwap(r) PROVE PilotKeeps
  <2>1. trust' \in Seq(P!SessionStatus) /\ P!Len(trust') = P!Len(trust)
    <3>1. trust \in [1..P!Len(trust) -> P!SessionStatus]
      BY <1>t
    <3>2. trust' = [trust EXCEPT ![flow.session] = "REVOKED"] /\ "REVOKED" \in P!SessionStatus
      BY <1>4 DEF P!AnswerSwap, P!SessionStatus
    <3>3. trust' \in [1..P!Len(trust) -> P!SessionStatus]
      BY <3>1, <3>2
    <3> QED BY <1>t, <3>3
  <2>2. [awaits |-> "swap", answer |-> "OK"] \in P!Asked
    BY DEF P!Asked
  <2> QED BY <1>t, <1>4, <2>1, <2>2, AnsweredStep DEF P!AnswerSwap
<1>5. ASSUME P!AnswerRelease(r) PROVE PilotKeeps
  <2>1. flow.session \in 1..P!Len(trust)
    BY <1>t, <1>5 DEF P!AnswerRelease, P!IInv, P!SessionsWereOpened
  <2>2. trust[flow.session] \in P!SessionStatus
    BY <1>t, <2>1
  <2>3. [awaits |-> "release", answer |-> trust[flow.session]] \in P!Asked
    BY <2>2 DEF P!Asked
  <2> QED BY <1>t, <1>5, <2>3, AnsweredStep DEF P!AnswerRelease
<1> QED BY <1>1, <1>2, <1>3, <1>4, <1>5

LEMMA PilotStep == ASSUME P!TypeOK, P!IInv, [P!Next]_(P!vars) PROVE PilotKeeps
<1>t. /\ flow \in P!FlowRecord /\ req \in [Req -> P!Asked] /\ stored \in BOOLEAN
      /\ consent \in P!UpstreamStatus \cup {"GONE"} /\ trust \in Seq(P!SessionStatus)
      /\ P!Len(trust) <= PilotSessions /\ P!Len(trust) \in Nat
  BY DEF P!TypeOK
<1>a. \A x \in Req : req[x].awaits = "open" /\ req[x].answer # None => req[x].answer \in Nat
  <2>1. \A q \in P!Asked : q.awaits = "open" /\ q.answer # None => q.answer \in Nat
    BY PilotNumbers DEF P!Asked
  <2> QED BY <1>t, <2>1
<1>1. ASSUME P!Cleanup PROVE PilotKeeps
  <2>1. /\ flow' \in {P!Minimized(flow), flow} /\ frozen' \in BOOLEAN /\ ~frozen
        /\ stored' \in BOOLEAN /\ UNCHANGED <<pilotNow, consent, trust, lock, req>>
    BY <1>1, LockingIs DEF P!Cleanup, P!Sweep
  <2>2. /\ flow' \in P!FlowRecord /\ flow'.verifying = flow.verifying
        /\ flow'.creating = flow.creating /\ flow'.session = flow.session
    BY <1>t, <2>1, MinimizedIs
  <2>3. P!TypeOK'
    BY <2>1, <2>2 DEF P!TypeOK
  <2>4. P!IInv'
    BY <1>t, <1>a, <2>1, <2>2, PilotStays
  <2> QED BY <2>2, <2>3, <2>4 DEF PilotKeeps
<1>2. ASSUME P!ConsentMoves PROVE PilotKeeps
  <2>1. /\ consent' \in P!UpstreamStatus \cup {"GONE"}
        /\ UNCHANGED <<pilotNow, trust, flow, stored, lock, req, frozen>>
    BY <1>2 DEF P!ConsentMoves, P!UpstreamStatus
  <2>2. P!TypeOK'
    BY <2>1 DEF P!TypeOK
  <2>3. P!IInv'
    BY <1>t, <1>a, <2>1, PilotStays
  <2> QED BY <2>1, <2>2, <2>3 DEF PilotKeeps
<1>3. ASSUME P!Tick PROVE PilotKeeps
  <2>1. /\ pilotNow' \in 0..PilotTime /\ UNCHANGED <<consent, flow, stored, lock, req, frozen>>
    BY <1>3, PilotNumbers DEF P!Tick, P!TypeOK
  <2>2. trust' \in Seq(P!SessionStatus) /\ P!Len(trust') = P!Len(trust)
    <3>1. PICK ends : trust' = [i \in DOMAIN trust |-> IF i \in ends THEN "EXPIRED" ELSE trust[i]]
      BY <1>3 DEF P!Tick
    <3>2. DOMAIN trust = 1..P!Len(trust) /\ \A i \in DOMAIN trust : trust[i] \in P!SessionStatus
      BY <1>t
    <3>3. trust' \in [1..P!Len(trust) -> P!SessionStatus]
      BY <3>1, <3>2 DEF P!SessionStatus
    <3> QED BY <1>t, <3>3
  <2>3. P!TypeOK'
    BY <1>t, <2>1, <2>2 DEF P!TypeOK
  <2>4. P!IInv'
    BY <1>t, <1>a, <2>1, <2>2, PilotStays
  <2> QED BY <2>1, <2>3, <2>4 DEF PilotKeeps
<1>4. CASE UNCHANGED P!vars
  <2>1. UNCHANGED <<pilotNow, consent, trust, flow, stored, lock, req, frozen>>
    BY <1>4 DEF P!vars
  <2>2. P!TypeOK'
    BY <2>1 DEF P!TypeOK
  <2>3. P!IInv'
    BY <1>t, <1>a, <2>1, PilotStays
  <2> QED BY <2>1, <2>2, <2>3 DEF PilotKeeps
<1> QED BY <1>1, <1>2, <1>3, <1>4, PilotRequestStep, PilotAnswerStep DEF P!Next

LEMMA PilotInit == ASSUME P!Init PROVE P!TypeOK /\ P!IInv
<1>1. /\ pilotNow = 0 /\ consent = "PENDING" /\ trust = <<>> /\ flow = P!NewFlow /\ stored = TRUE
      /\ lock = None /\ req = [r \in Req |-> P!Idle] /\ frozen = FALSE
  BY DEF P!Init
<1>2. P!NewFlow \in P!FlowRecord /\ ~P!NewFlow.verifying /\ ~P!NewFlow.creating /\ P!NewFlow.session = 0
  BY PilotNumbers DEF P!NewFlow, P!FlowRecord, P!UpstreamStatus
<1>3. P!Idle \in P!Asked /\ P!Idle.awaits = "none"
  BY AskedIs
<1>4. P!Len(trust) = 0 /\ trust \in Seq(P!SessionStatus)
  BY <1>1
<1>5. P!TypeOK
  <2>1. pilotNow \in 0..PilotTime /\ P!Len(trust) <= PilotSessions
    BY <1>1, <1>4, PilotNumbers
  <2>2. req \in [Req -> P!Asked] /\ flow \in P!FlowRecord
    BY <1>1, <1>2, <1>3
  <2>3. consent \in P!UpstreamStatus \cup {"GONE"}
    BY <1>1 DEF P!UpstreamStatus
  <2> QED BY <1>1, <1>4, <2>1, <2>2, <2>3 DEF P!TypeOK
<1>6. P!Awaiting("verify") = {} /\ P!Awaiting("open") = {}
  BY <1>1, <1>3 DEF P!Awaiting
<1>7. P!SessionsWereOpened
  BY <1>1, <1>2, <1>3, <1>4 DEF P!SessionsWereOpened
<1> QED BY <1>1, <1>2, <1>5, <1>6, <1>7 DEF P!IInv, P!OneVerifies, P!OneCreates

\* In every state each flag stands for the one request in flight.
THEOREM PilotInvariance == Spec => [](P!TypeOK /\ P!IInv)
<1>1. Init => P!TypeOK /\ P!IInv
  BY PilotInit DEF Init
<1>2. ASSUME P!TypeOK, P!IInv, [Next]_vars PROVE P!TypeOK' /\ P!IInv'
  <2>1. [P!Next]_(P!vars)
    BY <1>2 DEF Next, vars, pilotVars, P!vars
  <2> QED BY <1>2, <2>1, PilotStep DEF PilotKeeps
<1> QED BY <1>1, <1>2, PTL DEF Spec

\* However polls overlap and whichever answers are lost, the verifying flag is up
\* exactly while one request is in /verify, as long as the loop runs
\* (_poll_and_maybe_complete).
THEOREM VerifiesOnce == Spec => []OneVerifyAtATime
<1>1. ASSUME P!TypeOK, P!IInv PROVE OneVerifyAtATime
  <2>1. ASSUME ~frozen
        PROVE  Cardinality(P!Awaiting("verify")) = IF flow.verifying THEN 1 ELSE 0
    <3>1. CASE flow.verifying
      <4>1. PICK r \in Req : P!Awaiting("verify") = {r}
        BY <1>1, <2>1, <3>1 DEF P!IInv, P!OneVerifies
      <4> QED BY <3>1, <4>1, FS_Singleton
    <3>2. CASE ~flow.verifying
      <4>1. P!Awaiting("verify") = {}
        BY <1>1, <2>1, <3>2 DEF P!IInv, P!OneVerifies
      <4> QED BY <3>2, <4>1, FS_EmptySet
    <3> QED BY <3>1, <3>2
  <2> QED BY <1>1, <2>1, PilotCardinality DEF OneVerifyAtATime, P!OneVerifyAtATime
<1> QED BY <1>1, PilotInvariance, PTL

\* The flow's trust session never changes once bound, nor is a request to open
\* one in flight beside it (open_trust_session).
THEOREM SessionBound == Spec => SessionStaysBound
<1>1. ASSUME P!TypeOK, P!IInv, [Next]_vars
      PROVE  [/\ flow.session # 0 => flow'.session = flow.session
              /\ flow.session # 0 => P!Awaiting("open")' = {}]_(P!vars)
  <2>1. [P!Next]_(P!vars)
    BY <1>1 DEF Next, vars, pilotVars, P!vars
  <2>2. PilotKeeps
    BY <1>1, <2>1, PilotStep
  <2>3. flow'.session # 0 => P!Awaiting("open")' = {}
    BY <2>2 DEF PilotKeeps, P!IInv, P!OneCreates
  <2> QED BY <2>2, <2>3 DEF PilotKeeps
<1> QED BY <1>1, PilotInvariance, PTL DEF Spec, SessionStaysBound, P!SessionStaysBound

-----------------------------------------------------------------------------
(* The gate: Admission, for every set of requests and whatever each sends, *)
(* every limit, every window and every ceiling.                            *)

LEMMA GateNumbers ==
  ASSUME A!AdmissionAssumption
  PROVE  /\ MaxBuckets \in Nat \ {0} /\ MaxInFlight \in Nat \ {0} /\ Slots \in Nat \ {0}
         /\ PerInvestigation \in Nat \ {0} /\ Window \in Nat \ {0} /\ ModelHour \in Nat \ {0}
         /\ Ceiling \in Nat /\ AdmissionTime \in Nat
         /\ DOMAIN Limit = {"key", "screen", "ip"}
         /\ \A l \in DOMAIN Limit : Limit[l] \in Nat \ {0}
BY DEF A!AdmissionAssumption

LEMMA StageIs ==
  ASSUME NEW pc \in A!Stages, NEW at \in Nat, NEW bucket \in A!Names \cup {None}, NEW client \in A!Clients
  PROVE  /\ A!Stage(pc, at, bucket, client) \in A!Requests
         /\ A!Stage(pc, at, bucket, client).pc = pc /\ A!Stage(pc, at, bucket, client).at = at
         /\ A!Stage(pc, at, bucket, client).bucket = bucket
BY DEF A!Stage, A!Requests

LEMMA NamesAre ==
  ASSUME A!AdmissionAssumption, A!TypeOK, NEW r \in Request
  PROVE  /\ A!Bucket(r) \in A!Names /\ A!Bucket(r) # None
         /\ A!LimiterOf(r) \in DOMAIN Limit
         /\ A!EffectiveKey(r) \in A!Clients /\ A!Client(r) \in A!Clients
<1>1. {Sends[r].session, Sends[r].bearer, Sends[r].ip} \subseteq A!Names
  BY DEF A!Names
<1>2. A!Bucket(r) \in {Sends[r].session, Sends[r].bearer, Sends[r].ip}
  BY DEF A!Bucket, A!KeyBucket
<1>3. A!Bucket(r) # None
  BY DEF A!Bucket, A!KeyBucket, A!LimiterOf, A!AdmissionAssumption, A!TypeOK
<1>4. A!LimiterOf(r) \in DOMAIN Limit
  BY DEF A!LimiterOf, A!AdmissionAssumption
<1>5. A!EffectiveKey(r) \in A!Clients
  BY DEF A!EffectiveKey, A!Selected, A!Supplied, A!Clients
<1>6. A!Client(r) \in A!Clients
  BY <1>5 DEF A!Client, A!Clients
<1> QED BY <1>1, <1>2, <1>3, <1>4, <1>5, <1>6

\* What one request becomes, the others stand.
LEMMA BecomesIs ==
  ASSUME A!TypeOK, NEW r \in Request, NEW x \in A!Requests, A!Becomes(r, x)
  PROVE  /\ request' \in [Request -> A!Requests] /\ request'[r] = x
         /\ \A q \in Request \ {r} : request'[q] = request[q]
BY DEF A!TypeOK, A!Becomes

-----------------------------------------------------------------------------
(* The deque: what popleft leaves *)

LEMMA LeastIs ==
  ASSUME NEW S \in SUBSET Nat, S # {}
  PROVE  A!Min(S) \in S /\ \A n \in S : A!Min(S) <= n
BY LeastExists, Zenon DEF A!Min

LEMMA SinceIs ==
  ASSUME now \in Nat, NEW hits \in Seq(Nat), NEW length \in Nat
  PROVE  \E d \in 0 .. Len(hits) :
           /\ A!Since(hits, length) \in Seq(Nat) /\ Len(A!Since(hits, length)) = Len(hits) - d
           /\ \A i \in 1 .. Len(hits) - d : A!Since(hits, length)[i] = hits[i + d]
           /\ \A i \in 1 .. d : hits[i] + length <= now
           /\ d < Len(hits) => hits[d + 1] + length > now
<1> DEFINE alive == {i \in DOMAIN hits : hits[i] + length > now}
<1>0. Len(hits) \in Nat /\ DOMAIN hits = 1 .. Len(hits) /\ \A i \in DOMAIN hits : hits[i] \in Nat
  OBVIOUS
<1>1. CASE alive = {}
  <2>1. A!Since(hits, length) = <<>>
    BY <1>1 DEF A!Since
  <2>2. \A i \in 1 .. Len(hits) : hits[i] + length <= now
    BY <1>0, <1>1
  <2>3. PICK n \in 0 .. Len(hits) : n = Len(hits)
    <3>1. Len(hits) \in 0 .. Len(hits)
      BY <1>0
    <3> QED BY <3>1
  <2>4. Len(A!Since(hits, length)) = Len(hits) - n /\ 1 .. Len(hits) - n = {} /\ ~(n < Len(hits))
    BY <1>0, <2>1, <2>3
  <2>5. \A i \in 1 .. n : hits[i] + length <= now
    BY <2>2, <2>3
  <2> QED BY <2>1, <2>4, <2>5
<1>2. CASE alive # {}
  <2>1. PICK m \in DOMAIN hits : m = A!Min(alive) /\ hits[m] + length > now /\ \A n \in alive : m <= n
    <3>1. alive \in SUBSET Nat
      BY <1>0
    <3>2. A!Min(alive) \in alive /\ \A n \in alive : A!Min(alive) <= n
      <4> HIDE DEF alive
      <4> QED BY <1>2, <3>1, LeastIs
    <3> QED BY <3>2
  <2>2. A!Since(hits, length) = SubSeq(hits, m, Len(hits))
    BY <1>2, <2>1 DEF A!Since
  <2>3. PICK d \in Nat : d = m - 1
    BY <1>0
  <2>4. /\ SubSeq(hits, m, Len(hits)) \in Seq(Nat)
        /\ Len(SubSeq(hits, m, Len(hits))) = Len(hits) - d
        /\ \A i \in 1 .. Len(hits) - d : SubSeq(hits, m, Len(hits))[i] = hits[i + d]
    <3>1. m \in Int /\ Len(hits) \in Int /\ m = d + 1 /\ m <= Len(hits) /\ \A i \in m .. Len(hits) : hits[i] \in Nat
      BY <1>0, <2>3
    <3>2. /\ SubSeq(hits, m, Len(hits)) \in Seq(Nat)
          /\ Len(SubSeq(hits, m, Len(hits))) = Len(hits) - m + 1
          /\ \A i \in 1 .. Len(hits) - m + 1 : SubSeq(hits, m, Len(hits))[i] = hits[m + i - 1]
      <4>1. PICK k \in Int : k = Len(hits)
        BY <3>1
      <4>2. \A i \in m .. k : hits[i] \in Nat
        BY <3>1, <4>1
      <4>3. /\ SubSeq(hits, m, k) \in Seq(Nat)
            /\ Len(SubSeq(hits, m, k)) = IF m <= k THEN k - m + 1 ELSE 0
            /\ \A i \in 1 .. k - m + 1 : SubSeq(hits, m, k)[i] = hits[m + i - 1]
        BY <3>1, <4>2, SubSeqProperties
      <4>4. m <= k
        BY <3>1, <4>1
      <4> QED BY <4>1, <4>3, <4>4
    <3>3. Len(hits) - m + 1 = Len(hits) - d
      BY <1>0, <3>1
    <3>4. \A i \in 1 .. Len(hits) - d : m + i - 1 = i + d
      BY <1>0, <3>1
    <3> QED BY <3>2, <3>3, <3>4
  <2>5. ASSUME NEW i \in 1 .. d PROVE hits[i] + length <= now
    <3>1. i \in DOMAIN hits /\ ~(m <= i) /\ i \in Nat /\ hits[i] \in Nat
      BY <1>0, <2>3
    <3>2. i \notin alive
      <4> HIDE DEF alive
      <4> QED BY <2>1, <3>1
    <3> QED BY <3>1, <3>2
  <2>6. d \in 0 .. Len(hits) /\ hits[d + 1] + length > now
    BY <1>0, <2>1, <2>3
  <2> QED BY <2>2, <2>4, <2>5, <2>6
<1> QED BY <1>1, <1>2

-----------------------------------------------------------------------------
(* The buckets in use *)

LEMMA CountingUp ==
  ASSUME NEW Q, 0 \in Q, \A n \in Nat : n \in Q => n + 1 \in Q
  PROVE  Nat \subseteq Q
<1> SUFFICES ASSUME ~(Nat \subseteq Q) PROVE FALSE
  OBVIOUS
<1>1. Nat \ Q \in SUBSET Nat /\ Nat \ Q # {}
  OBVIOUS
<1>2. PICK n \in Nat \ Q : \A m \in Nat \ Q : n <= m
  BY <1>1, LeastExists
<1>3. n # 0 /\ n - 1 \in Nat /\ ~(n <= n - 1) /\ (n - 1) + 1 = n
  BY <1>2
<1> QED BY <1>2, <1>3

\* One loop over the buckets keeps those of before n that are in use.
UpTo(buckets, n, f) ==
  f = [k \in 0 .. n |-> IF k = 0 THEN <<>>
                       ELSE IF A!Recent(buckets[k]) THEN Append(f[k - 1], buckets[k]) ELSE f[k - 1]]

LEMMA LoopExists == ASSUME NEW buckets PROVE \A n \in Nat : \E f : UpTo(buckets, n, f)
<1> DEFINE Q == {n \in Nat : \E f : UpTo(buckets, n, f)}
<1>1. 0 \in Q
  <2>1. PICK f : f = [k \in 0 .. 0 |-> <<>>]
    OBVIOUS
  <2>2. f = [k \in 0 .. 0 |-> IF k = 0 THEN <<>>
                       ELSE IF A!Recent(buckets[k]) THEN Append(f[k - 1], buckets[k]) ELSE f[k - 1]]
    BY <2>1
  <2> QED BY <2>2 DEF UpTo
<1>2. ASSUME NEW n \in Nat, n \in Q PROVE n + 1 \in Q
  <2>1. PICK f : UpTo(buckets, n, f)
    BY <1>2
  <2>2. PICK last : last = IF A!Recent(buckets[n + 1]) THEN Append(f[n], buckets[n + 1]) ELSE f[n]
    OBVIOUS
  <2>3. PICK g : g = [k \in 0 .. n + 1 |-> IF k \in 0 .. n THEN f[k] ELSE last]
    OBVIOUS
  <2>4. ASSUME NEW k \in 0 .. n + 1
        PROVE  g[k] = IF k = 0 THEN <<>>
                      ELSE IF A!Recent(buckets[k]) THEN Append(g[k - 1], buckets[k]) ELSE g[k - 1]
    <3>1. CASE k \in 0 .. n
      <4>1. g[k] = f[k] /\ (k # 0 => g[k - 1] = f[k - 1])
        BY <2>3, <3>1
      <4> QED BY <2>1, <3>1, <4>1 DEF UpTo
    <3>2. CASE k = n + 1
      <4>1. g[k] = last /\ g[k - 1] = f[n] /\ k # 0
        BY <2>3, <3>2
      <4> QED BY <2>2, <3>2, <4>1
    <3> QED BY <3>1, <3>2
  <2>5. g = [k \in 0 .. n + 1 |-> IF k = 0 THEN <<>>
                      ELSE IF A!Recent(buckets[k]) THEN Append(g[k - 1], buckets[k]) ELSE g[k - 1]]
    <3>1. g = [k \in 0 .. n + 1 |-> g[k]]
      BY <2>3
    <3> QED BY <2>4, <3>1
  <2>6. \E h : UpTo(buckets, n + 1, h)
    BY <2>5 DEF UpTo
  <2> QED BY <2>6
<1> HIDE DEF Q
<1>3. Nat \subseteq Q
  BY <1>1, <1>2, CountingUp
<1> QED BY <1>3 DEF Q

\* The buckets of a limiter are distinct.
Distinct(ws) == \A i, j \in DOMAIN ws : ws[i].bucket = ws[j].bucket => i = j

LEMMA AliveIs ==
  ASSUME NEW ws \in Seq(A!Buckets), Distinct(ws)
  PROVE  /\ A!Alive(ws) \in Seq(A!Buckets) /\ Distinct(A!Alive(ws))
         /\ \A j \in DOMAIN A!Alive(ws) : \E k \in DOMAIN ws : A!Recent(ws[k]) /\ A!Alive(ws)[j] = ws[k]
         /\ \A k \in DOMAIN ws : A!Recent(ws[k]) => \E j \in DOMAIN A!Alive(ws) : A!Alive(ws)[j] = ws[k]
<1>0. Len(ws) \in Nat /\ DOMAIN ws = 1 .. Len(ws) /\ \A k \in DOMAIN ws : ws[k] \in A!Buckets
  OBVIOUS
<1>1. PICK f : UpTo(ws, Len(ws), f) /\ A!Alive(ws) = f[Len(ws)]
  <2>1. PICK f : f = CHOOSE g : UpTo(ws, Len(ws), g)
    OBVIOUS
  <2>2. UpTo(ws, Len(ws), f)
    BY <1>0, <2>1, LoopExists
  <2>3. A!Alive(ws) = f[Len(ws)]
    BY <2>1 DEF A!Alive, UpTo
  <2> QED BY <2>2, <2>3
<1> DEFINE Good(n, s) ==
             /\ s \in Seq(A!Buckets) /\ Distinct(s)
             /\ \A j \in DOMAIN s : \E k \in 1 .. n : A!Recent(ws[k]) /\ s[j] = ws[k]
             /\ \A k \in 1 .. n : A!Recent(ws[k]) => \E j \in DOMAIN s : s[j] = ws[k]
           Q == {n \in Nat : n <= Len(ws) => Good(n, f[n])}
<1>2. 0 \in Q
  <2>1. f[0] = <<>>
    BY <1>0, <1>1 DEF UpTo
  <2>2. <<>> \in Seq(A!Buckets) /\ DOMAIN <<>> = {} /\ 1 .. 0 = {}
    OBVIOUS
  <2> QED BY <2>1, <2>2 DEF Distinct
<1>3. ASSUME NEW n \in Nat, n \in Q PROVE n + 1 \in Q
  <2> SUFFICES ASSUME n + 1 <= Len(ws) PROVE Good(n + 1, f[n + 1])
    OBVIOUS
  <2>1. /\ n + 1 \in 0 .. Len(ws) /\ n + 1 \in DOMAIN ws /\ n + 1 # 0 /\ (n + 1) - 1 = n
        /\ n <= Len(ws) /\ 1 .. n + 1 = (1 .. n) \cup {n + 1} /\ n + 1 \notin 1 .. n
        /\ 1 .. n \subseteq DOMAIN ws
    BY <1>0
  <2>2. f[n + 1] = IF A!Recent(ws[n + 1]) THEN Append(f[n], ws[n + 1]) ELSE f[n]
    BY <1>1, <2>1 DEF UpTo
  <2>3. PICK s : s = f[n] /\ Good(n, s)
    BY <1>3, <2>1
  <2>4. CASE ~A!Recent(ws[n + 1])
    BY <2>1, <2>2, <2>3, <2>4
  <2>5. CASE A!Recent(ws[n + 1])
    <3>0. ws[n + 1] \in A!Buckets /\ s \in Seq(A!Buckets)
      BY <1>0, <2>1, <2>3
    <3>1. PICK t : t = Append(s, ws[n + 1]) /\ t = f[n + 1]
      BY <2>2, <2>3, <2>5
    <3>2. /\ t \in Seq(A!Buckets) /\ DOMAIN t = DOMAIN s \cup {Len(s) + 1} /\ t[Len(s) + 1] = ws[n + 1]
          /\ \A j \in DOMAIN s : t[j] = s[j] /\ j # Len(s) + 1
      <4>1. /\ t \in Seq(A!Buckets) /\ Len(t) = Len(s) + 1 /\ t[Len(s) + 1] = ws[n + 1]
            /\ \A j \in 1 .. Len(s) : t[j] = s[j]
        <5>1. PICK w \in A!Buckets : w = ws[n + 1] /\ t = Append(s, w)
          BY <3>0, <3>1
        <5>2. /\ Append(s, w) \in Seq(A!Buckets) /\ Len(Append(s, w)) = Len(s) + 1
              /\ Append(s, w)[Len(s) + 1] = w
              /\ \A j \in 1 .. Len(s) : Append(s, w)[j] = s[j]
          BY <3>0, AppendProperties
        <5> QED BY <5>1, <5>2
      <4>2. Len(s) \in Nat /\ DOMAIN s = 1 .. Len(s) /\ DOMAIN t = 1 .. Len(s) + 1
        BY <3>0, <4>1
      <4>3. 1 .. Len(s) + 1 = (1 .. Len(s)) \cup {Len(s) + 1} /\ Len(s) + 1 \notin 1 .. Len(s)
        BY <4>2
      <4> QED BY <4>1, <4>2, <4>3
    <3>3. Distinct(t)
      <4>1. ASSUME NEW j \in DOMAIN s, s[j].bucket = ws[n + 1].bucket PROVE FALSE
        <5>1. PICK k \in 1 .. n : s[j] = ws[k]
          BY <2>3
        <5> QED BY <2>1, <4>1, <5>1 DEF Distinct
      <4>2. \A i, j \in DOMAIN s : s[i].bucket = s[j].bucket => i = j
        BY <2>3 DEF Distinct
      <4> QED BY <3>2, <4>1, <4>2 DEF Distinct
    <3>4. \A j \in DOMAIN t : \E k \in 1 .. n + 1 : A!Recent(ws[k]) /\ t[j] = ws[k]
      <4> SUFFICES ASSUME NEW j \in DOMAIN t
                   PROVE  \E k \in 1 .. n + 1 : A!Recent(ws[k]) /\ t[j] = ws[k]
        OBVIOUS
      <4>1. CASE j \in DOMAIN s
        <5>1. PICK k \in 1 .. n : A!Recent(ws[k]) /\ s[j] = ws[k]
          BY <2>3, <4>1
        <5> QED BY <2>1, <3>2, <4>1, <5>1
      <4>2. CASE j = Len(s) + 1
        BY <2>1, <2>5, <3>2, <4>2
      <4> QED BY <3>2, <4>1, <4>2
    <3>5. \A k \in 1 .. n + 1 : A!Recent(ws[k]) => \E j \in DOMAIN t : t[j] = ws[k]
      <4> SUFFICES ASSUME NEW k \in 1 .. n + 1, A!Recent(ws[k])
                   PROVE  \E j \in DOMAIN t : t[j] = ws[k]
        OBVIOUS
      <4>1. CASE k \in 1 .. n
        <5>1. PICK j \in DOMAIN s : s[j] = ws[k]
          BY <2>3, <4>1
        <5> QED BY <3>2, <5>1
      <4>2. CASE k = n + 1
        BY <3>2, <4>2
      <4> QED BY <2>1, <4>1, <4>2
    <3> QED BY <3>1, <3>2, <3>3, <3>4, <3>5
  <2> QED BY <2>4, <2>5
<1>4. Len(ws) \in Q
  <2> HIDE DEF Q
  <2> QED BY <1>0, <1>2, <1>3, CountingUp
<1>5. Good(Len(ws), f[Len(ws)])
  <2>1. Len(ws) <= Len(ws)
    BY <1>0
  <2> HIDE DEF Good
  <2> QED BY <1>4, <2>1
<1>6. Good(Len(ws), A!Alive(ws))
  <2> HIDE DEF Good
  <2> QED BY <1>1, <1>5
<1> QED BY <1>0, <1>6

LEMMA InjectionIs ==
  ASSUME NEW S, NEW T, NEW h
  PROVE  h \in A!Injection(S, T) <=> h \in [S -> T] /\ \A a, b \in S : h[a] = h[b] => a = b
BY DEF A!Injection, A!IsInjective

\* The names of the buckets in use, of which there may be more than there is room for.
RecentNames(ws) == {ws[k].bucket : k \in {i \in DOMAIN ws : A!Recent(ws[i])}}
KeepsRecent(ws, all) == \A k \in DOMAIN ws : A!Recent(ws[k]) => \E j \in DOMAIN all : all[j] = ws[k]

LEMMA EvictIs ==
  ASSUME A!AdmissionAssumption, NEW ws \in Seq(A!Buckets), Distinct(ws)
  PROVE  /\ A!Evict(ws) \in Seq(A!Buckets) /\ Distinct(A!Evict(ws))
         /\ \A j \in DOMAIN A!Evict(ws) : \E k \in DOMAIN ws : A!Evict(ws)[j] = ws[k]
         /\ KeepsRecent(ws, A!Evict(ws)) \/ \E h : h \in A!Injection(1 .. MaxBuckets, RecentNames(ws))
<1>0. MaxBuckets \in Nat \ {0} /\ Len(ws) \in Nat
  BY GateNumbers
<1>1. CASE Len(ws) < MaxBuckets
  BY <1>1 DEF A!Evict, KeepsRecent
<1>2. CASE ~(Len(ws) < MaxBuckets)
  <2>1. PICK alive \in Seq(A!Buckets) : alive = A!Alive(ws)
    BY AliveIs
  <2>2. /\ Distinct(alive)
        /\ \A j \in DOMAIN alive : \E k \in DOMAIN ws : A!Recent(ws[k]) /\ alive[j] = ws[k]
        /\ KeepsRecent(ws, alive)
        /\ Len(alive) \in Nat /\ DOMAIN alive = 1 .. Len(alive)
    BY <2>1, AliveIs DEF KeepsRecent
  <2>3. PICK spare \in Nat :
          /\ spare = IF Len(alive) < MaxBuckets THEN 0 ELSE Len(alive) - MaxBuckets + 1
          /\ spare <= Len(alive)
    <3>1. CASE Len(alive) < MaxBuckets
      BY <1>0, <2>2, <3>1
    <3>2. CASE ~(Len(alive) < MaxBuckets)
      <4>1. PICK n \in Nat : n = Len(alive) - MaxBuckets + 1 /\ n <= Len(alive)
        <5>1. Len(alive) - MaxBuckets + 1 \in Nat /\ Len(alive) - MaxBuckets + 1 <= Len(alive)
          BY <1>0, <2>2, <3>2
        <5> QED BY <5>1
      <4> QED BY <3>2, <4>1
    <3> QED BY <3>1, <3>2
  <2>4. PICK left : left = SubSeq(alive, spare + 1, Len(alive)) /\ left = A!Evict(ws)
    BY <1>2, <2>1, <2>3 DEF A!Evict
  <2>5. /\ left \in Seq(A!Buckets) /\ DOMAIN left = 1 .. Len(alive) - spare
        /\ \A i \in 1 .. Len(alive) - spare : left[i] = alive[spare + i] /\ spare + i \in DOMAIN alive
    <3>1. spare + 1 \in Int /\ Len(alive) \in Int /\ \A i \in spare + 1 .. Len(alive) : alive[i] \in A!Buckets
      BY <2>2, <2>3
    <3>2. /\ SubSeq(alive, spare + 1, Len(alive)) \in Seq(A!Buckets)
          /\ Len(SubSeq(alive, spare + 1, Len(alive))) =
               IF spare + 1 <= Len(alive) THEN Len(alive) - (spare + 1) + 1 ELSE 0
          /\ \A i \in 1 .. Len(alive) - (spare + 1) + 1 :
               SubSeq(alive, spare + 1, Len(alive))[i] = alive[(spare + 1) + i - 1]
      BY <3>1, SubSeqProperties
    <3>3. Len(left) = Len(alive) - spare /\ left \in Seq(A!Buckets)
      BY <2>2, <2>3, <2>4, <3>2
    <3>4. ASSUME NEW i \in 1 .. Len(alive) - spare
          PROVE  left[i] = alive[spare + i] /\ spare + i \in DOMAIN alive
      <4>1. i \in 1 .. Len(alive) - (spare + 1) + 1 /\ (spare + 1) + i - 1 = spare + i
            /\ spare + i \in 1 .. Len(alive)
        BY <2>2, <2>3
      <4> QED BY <2>2, <2>4, <3>2, <4>1
    <3> QED BY <3>3, <3>4
  <2>6. Distinct(left)
    <3> SUFFICES ASSUME NEW i \in DOMAIN left, NEW j \in DOMAIN left, left[i].bucket = left[j].bucket
                 PROVE  i = j
      BY DEF Distinct
    <3>1. spare + i = spare + j
      BY <2>2, <2>5 DEF Distinct
    <3>2. i \in Nat /\ j \in Nat
      BY <2>2, <2>3, <2>5
    <3> QED BY <2>3, <3>1, <3>2
  <2>7. \A j \in DOMAIN left : \E k \in DOMAIN ws : left[j] = ws[k]
    BY <2>2, <2>5
  <2>8. KeepsRecent(ws, left) \/ \E h : h \in A!Injection(1 .. MaxBuckets, RecentNames(ws))
    <3>1. CASE Len(alive) < MaxBuckets
      <4>1. spare = 0
        BY <2>3, <3>1
      <4>2. \A i \in DOMAIN alive : i \in DOMAIN left /\ left[i] = alive[i]
        BY <2>2, <2>5, <4>1
      <4> QED BY <2>2, <4>2 DEF KeepsRecent
    <3>2. CASE ~(Len(alive) < MaxBuckets)
      <4>1. 1 .. MaxBuckets \subseteq DOMAIN alive
        BY <1>0, <2>2, <3>2
      <4>2. PICK h : h = [j \in 1 .. MaxBuckets |-> alive[j].bucket]
        OBVIOUS
      <4>3. ASSUME NEW j \in 1 .. MaxBuckets PROVE h[j] \in RecentNames(ws)
        <5>1. PICK k \in DOMAIN ws : A!Recent(ws[k]) /\ alive[j] = ws[k]
          BY <2>2, <4>1
        <5> QED BY <4>2, <5>1 DEF RecentNames
      <4>4. \A i, j \in 1 .. MaxBuckets : h[i] = h[j] => i = j
        BY <2>2, <4>1, <4>2 DEF Distinct
      <4>5. h \in A!Injection(1 .. MaxBuckets, RecentNames(ws))
        <5>1. h \in [1 .. MaxBuckets -> RecentNames(ws)]
          BY <4>2, <4>3
        <5> QED BY <4>4, <5>1, InjectionIs
      <4> QED BY <4>5
    <3> QED BY <3>1, <3>2
  <2> QED BY <2>4, <2>5, <2>6, <2>7, <2>8
<1> QED BY <1>1, <1>2

\* The buckets a check works on, the caller's among them.
LEMMA AllIs ==
  ASSUME A!AdmissionAssumption, A!TypeOK, NEW l \in DOMAIN Limit, NEW b \in A!Names, Distinct(windows[l])
  PROVE  /\ A!All(l, b) \in Seq(A!Buckets) /\ Distinct(A!All(l, b))
         /\ \E m \in DOMAIN A!All(l, b) : A!All(l, b)[m].bucket = b
         /\ \A j \in DOMAIN A!All(l, b) :
              \/ \E k \in DOMAIN windows[l] : A!All(l, b)[j] = windows[l][k]
              \/ ~A!Known(l, b) /\ A!All(l, b)[j] = [bucket |-> b, hits |-> <<>>]
         /\ \/ KeepsRecent(windows[l], A!All(l, b))
            \/ ~A!Known(l, b) /\ \E h : h \in A!Injection(1 .. MaxBuckets, RecentNames(windows[l]))
<1>0. windows[l] \in Seq(A!Buckets)
  BY DEF A!TypeOK
<1>1. CASE A!Known(l, b)
  BY <1>0, <1>1 DEF A!All, A!Known, KeepsRecent
<1>2. CASE ~A!Known(l, b)
  <2>1. PICK s \in Seq(A!Buckets) : s = A!Evict(windows[l])
    BY <1>0, EvictIs
  <2>2. /\ Distinct(s)
        /\ \A j \in DOMAIN s : \E k \in DOMAIN windows[l] : s[j] = windows[l][k]
        /\ KeepsRecent(windows[l], s) \/ \E h : h \in A!Injection(1 .. MaxBuckets, RecentNames(windows[l]))
    BY <1>0, <2>1, EvictIs
  <2>3. PICK w \in A!Buckets : w = [bucket |-> b, hits |-> <<>>] /\ w.bucket = b
    <3>1. [bucket |-> b, hits |-> <<>>] \in A!Buckets
      BY DEF A!Buckets
    <3> QED BY <3>1
  <2>4. PICK t : t = Append(s, w) /\ t = A!All(l, b)
    BY <1>2, <2>1, <2>3 DEF A!All
  <2>5. /\ t \in Seq(A!Buckets) /\ DOMAIN t = DOMAIN s \cup {Len(s) + 1} /\ t[Len(s) + 1] = w
        /\ \A j \in DOMAIN s : t[j] = s[j]
    <3>1. /\ t \in Seq(A!Buckets) /\ Len(t) = Len(s) + 1 /\ t[Len(s) + 1] = w
          /\ \A j \in 1 .. Len(s) : t[j] = s[j]
      <4>1. /\ Append(s, w) \in Seq(A!Buckets) /\ Len(Append(s, w)) = Len(s) + 1
            /\ Append(s, w)[Len(s) + 1] = w
            /\ \A j \in 1 .. Len(s) : Append(s, w)[j] = s[j]
        BY AppendProperties
      <4> QED BY <2>4, <4>1
    <3>2. Len(s) \in Nat /\ DOMAIN s = 1 .. Len(s) /\ DOMAIN t = 1 .. Len(s) + 1
      BY <3>1
    <3>3. 1 .. Len(s) + 1 = (1 .. Len(s)) \cup {Len(s) + 1}
      BY <3>2
    <3> QED BY <3>1, <3>2, <3>3
  <2>6. \A j \in DOMAIN s : s[j].bucket # b
    BY <1>2, <2>2 DEF A!Known
  <2>7. Distinct(t)
    BY <2>2, <2>3, <2>5, <2>6 DEF Distinct
  <2>8. /\ \E m \in DOMAIN t : t[m].bucket = b
        /\ \A j \in DOMAIN t : (\E k \in DOMAIN windows[l] : t[j] = windows[l][k]) \/ t[j] = w
    BY <2>2, <2>3, <2>5
  <2>9. KeepsRecent(windows[l], s) => KeepsRecent(windows[l], t)
    <3>1. \A j \in DOMAIN s : j \in DOMAIN t /\ t[j] = s[j]
      BY <2>5
    <3> QED BY <3>1 DEF KeepsRecent
  <2> QED BY <1>2, <2>2, <2>3, <2>4, <2>5, <2>7, <2>8, <2>9
<1> QED BY <1>1, <1>2

\* What a check answers and leaves behind: d hits of the caller's bucket m are past.
AnswerIs(all, m, b, hits, limit) ==
  [ok |-> Len(hits) < limit,
   all |-> [all EXCEPT ![m] =
     [bucket |-> b, hits |-> IF Len(hits) < limit THEN Append(hits, now) ELSE hits]]]

CheckSees(l, b, all, m, d, hits) ==
  /\ all = A!All(l, b) /\ all[m].bucket = b
  /\ A!Check(l, b).ok <=> Len(hits) < Limit[l]
  /\ A!Check(l, b).all = [all EXCEPT ![m] =
       [bucket |-> b, hits |-> IF Len(hits) < Limit[l] THEN Append(hits, now) ELSE hits]]
  /\ Len(hits) = Len(all[m].hits) - d
  /\ \A i \in 1 .. Len(hits) : hits[i] = all[m].hits[i + d]
  /\ \A i \in 1 .. d : all[m].hits[i] + Window <= now
  /\ hits # <<>> => hits[1] + Window > now

LEMMA CheckIs ==
  ASSUME A!AdmissionAssumption, A!TypeOK, NEW l \in DOMAIN Limit, NEW b \in A!Names, Distinct(windows[l])
  PROVE  \E all \in Seq(A!Buckets), hits \in Seq(Nat) :
           \E m \in DOMAIN all : \E d \in 0 .. Len(all[m].hits) : CheckSees(l, b, all, m, d, hits)
<1>1. PICK all \in Seq(A!Buckets) : all = A!All(l, b)
  BY AllIs
<1>2. PICK m \in DOMAIN all : m = CHOOSE i \in DOMAIN all : all[i].bucket = b
  BY <1>1, AllIs
<1>3. all[m].bucket = b /\ all[m] \in A!Buckets /\ all[m].hits \in Seq(Nat)
  <2>1. all[m].bucket = b
    BY <1>1, <1>2, AllIs
  <2>2. all[m] \in A!Buckets
    OBVIOUS
  <2> QED BY <2>1, <2>2 DEF A!Buckets
<1>4. PICK d \in 0 .. Len(all[m].hits) :
           /\ A!Since(all[m].hits, Window) \in Seq(Nat)
           /\ Len(A!Since(all[m].hits, Window)) = Len(all[m].hits) - d
           /\ \A i \in 1 .. Len(all[m].hits) - d : A!Since(all[m].hits, Window)[i] = all[m].hits[i + d]
           /\ \A i \in 1 .. d : all[m].hits[i] + Window <= now
           /\ d < Len(all[m].hits) => all[m].hits[d + 1] + Window > now
  <2>1. now \in Nat /\ Window \in Nat
    BY GateNumbers DEF A!TypeOK
  <2> QED BY <1>3, <2>1, SinceIs
<1>5. PICK hits \in Seq(Nat) : hits = A!Since(all[m].hits, Window)
  BY <1>4
<1>7. hits # <<>> => hits[1] + Window > now
  <2> SUFFICES ASSUME hits # <<>> PROVE hits[1] + Window > now
    OBVIOUS
  <2>1. Len(all[m].hits) \in Nat /\ Len(hits) \in Nat /\ Len(hits) # 0
    BY <1>3
  <2>2. d < Len(all[m].hits) /\ hits[1] = all[m].hits[1 + d] /\ d \in Nat
    BY <1>4, <1>5, <2>1
  <2> QED BY <1>4, <2>1, <2>2
<1>8. /\ A!Check(l, b).ok <=> Len(hits) < Limit[l]
      /\ A!Check(l, b).all = [all EXCEPT ![m] =
           [bucket |-> b, hits |-> IF Len(hits) < Limit[l] THEN Append(hits, now) ELSE hits]]
  <2>1. PICK mine : mine = CHOOSE i \in DOMAIN A!All(l, b) : A!All(l, b)[i].bucket = b
    OBVIOUS
  <2>2. A!Check(l, b) = AnswerIs(A!All(l, b), mine, b, A!Since(A!All(l, b)[mine].hits, Window), Limit[l])
    BY <2>1 DEF A!Check, AnswerIs
  <2>3. A!Check(l, b) = AnswerIs(all, m, b, hits, Limit[l])
    BY <1>1, <1>2, <1>5, <2>1, <2>2
  <2>4. AnswerIs(all, m, b, hits, Limit[l]).ok <=> Len(hits) < Limit[l]
    BY DEF AnswerIs
  <2>5. AnswerIs(all, m, b, hits, Limit[l]).all = [all EXCEPT ![m] =
           [bucket |-> b, hits |-> IF Len(hits) < Limit[l] THEN Append(hits, now) ELSE hits]]
    BY DEF AnswerIs
  <2> QED BY <2>3, <2>4, <2>5
<1>9. Len(hits) = Len(all[m].hits) - d /\ \A i \in 1 .. Len(hits) : hits[i] = all[m].hits[i + d]
  BY <1>4, <1>5
<1>10. CheckSees(l, b, all, m, d, hits)
  BY <1>1, <1>3, <1>4, <1>7, <1>8, <1>9 DEF CheckSees
<1> QED BY <1>10

-----------------------------------------------------------------------------
(* Counting *)

LEMMA GateFunctions ==
  /\ \A S : A!IsFiniteSet(S) <=> IsFiniteSet(S)
  /\ \A S : A!Cardinality(S) = Cardinality(S)
  /\ \A S, T : A!Injection(S, T) = Injection(S, T)
<1>1. \A S : A!IsFiniteSet(S) <=> IsFiniteSet(S)
  BY DEF A!IsFiniteSet, IsFiniteSet
<1>2. \A S : A!Cardinality(S) = Cardinality(S)
  BY DEF A!Cardinality, Cardinality
<1>3. \A S, T : A!Injection(S, T) = Injection(S, T)
  BY DEF A!Injection, Injection, A!IsInjective, IsInjective
<1> QED BY <1>1, <1>2, <1>3

LEMMA FinitePlaces ==
  /\ A!IsFiniteSet({}) /\ A!Cardinality({}) = 0
  /\ \A S : A!IsFiniteSet(S) => A!Cardinality(S) \in Nat
  /\ \A S, x : A!IsFiniteSet(S) => A!IsFiniteSet(S \cup {x})
  /\ \A S, x : A!IsFiniteSet(S) /\ x \notin S => A!Cardinality(S \cup {x}) = A!Cardinality(S) + 1
  /\ \A S, x : A!IsFiniteSet(S) /\ x \in S =>
       A!IsFiniteSet(S \ {x}) /\ A!Cardinality(S \ {x}) = A!Cardinality(S) - 1
  /\ \A S, T : A!IsFiniteSet(T) /\ S \subseteq T => A!IsFiniteSet(S) /\ A!Cardinality(S) <= A!Cardinality(T)
<1>1. ASSUME NEW S, A!IsFiniteSet(S), NEW x
      PROVE  /\ A!IsFiniteSet(S \cup {x}) /\ A!Cardinality(S) \in Nat
             /\ x \notin S => A!Cardinality(S \cup {x}) = A!Cardinality(S) + 1
  BY <1>1, GateFunctions, FS_AddElement, FS_CardinalityType
<1>2. ASSUME NEW S, A!IsFiniteSet(S), NEW x \in S
      PROVE  A!IsFiniteSet(S \ {x}) /\ A!Cardinality(S \ {x}) = A!Cardinality(S) - 1
  BY <1>2, GateFunctions, FS_RemoveElement
<1>3. ASSUME NEW T, A!IsFiniteSet(T), NEW S, S \subseteq T
      PROVE  A!IsFiniteSet(S) /\ A!Cardinality(S) <= A!Cardinality(T)
  BY <1>3, GateFunctions, FS_Subset
<1> QED BY <1>1, <1>2, <1>3, GateFunctions, FS_EmptySet

\* What is numbered apart from one to n by members of T is at least n of them, and at
\* most n when it is numbered from one to n.
LEMMA NumberedApart ==
  ASSUME NEW n \in Nat, NEW T, NEW h
  PROVE  /\ h \in A!Injection(1 .. n, T) /\ A!IsFiniteSet(T) => n <= A!Cardinality(T)
         /\ h \in A!Injection(T, 1 .. n) => A!IsFiniteSet(T) /\ A!Cardinality(T) <= n
<1>1. A!IsFiniteSet(1 .. n) /\ A!Cardinality(1 .. n) = n
  BY FS_Interval, GateFunctions
<1>2. ASSUME h \in A!Injection(1 .. n, T), A!IsFiniteSet(T) PROVE n <= A!Cardinality(T)
  BY <1>1, <1>2, FS_Injection, GateFunctions
<1>3. ASSUME h \in A!Injection(T, 1 .. n) PROVE A!IsFiniteSet(T) /\ A!Cardinality(T) <= n
  BY <1>1, <1>3, FS_Injection, GateFunctions
<1> QED BY <1>2, <1>3

LEMMA ImagesAreFinite ==
  ASSUME NEW S, A!IsFiniteSet(S), NEW f
  PROVE  A!IsFiniteSet({f[q] : q \in S})
<1>1. PICK g : g = [q \in S |-> f[q]]
  OBVIOUS
<1>2. g \in Surjection(S, {f[q] : q \in S})
  BY <1>1 DEF Surjection
<1> QED BY <1>2, FS_Surjection, GateFunctions

LEMMA PassesAreFinite ==
  ASSUME A!TypeOK, NEW l, NEW b, NEW t
  PROVE  A!IsFiniteSet(A!PassesOf(l, b, t))
<1>1. A!PassesOf(l, b, t) \subseteq A!BucketedRequests
  BY DEF A!PassesOf, A!BucketedRequests, A!Passed
<1> QED BY <1>1, FinitePlaces DEF A!TypeOK

-----------------------------------------------------------------------------
(* The limiters *)

\* What HitsArePasses says of a bucket's window.
Sound(l, w) ==
  /\ Len(w.hits) <= Limit[l]
  /\ \A a, b \in DOMAIN w.hits : a <= b => w.hits[a] <= w.hits[b]
  /\ A!BackedBy(l, w)

LEMMA SoundWindows ==
  A!HitsArePasses <=> \A l \in DOMAIN Limit : Distinct(windows[l])
                                              /\ \A i \in DOMAIN windows[l] : Sound(l, windows[l][i])
<1>1. ASSUME A!HitsArePasses, NEW l \in DOMAIN Limit
      PROVE  Distinct(windows[l]) /\ \A i \in DOMAIN windows[l] : Sound(l, windows[l][i])
  BY <1>1 DEF A!HitsArePasses, Distinct, Sound
<1>2. ASSUME \A l \in DOMAIN Limit : Distinct(windows[l])
                                       /\ \A i \in DOMAIN windows[l] : Sound(l, windows[l][i])
      PROVE  A!HitsArePasses
  BY <1>2 DEF A!HitsArePasses, Distinct, Sound
<1> QED BY <1>1, <1>2

LEMMA EmptyIsSound ==
  ASSUME A!AdmissionAssumption, NEW l \in DOMAIN Limit, NEW b
  PROVE  Sound(l, [bucket |-> b, hits |-> <<>>])
<1>1. PICK w : w = [bucket |-> b, hits |-> <<>>]
  OBVIOUS
<1>2. w.hits = <<>> /\ DOMAIN w.hits = {} /\ Len(w.hits) = 0 /\ Limit[l] \in Nat
  BY <1>1, GateNumbers
<1>3. PICK g : g = [j \in {} |-> j]
  OBVIOUS
<1>4. g \in A!Injection({}, Request)
  <2>1. g \in [{} -> Request]
    BY <1>3
  <2> QED BY <2>1, InjectionIs
<1>5. A!BackedBy(l, w)
  BY <1>2, <1>4 DEF A!BackedBy
<1> QED BY <1>1, <1>2, <1>5 DEF Sound

\* A bucket that is in use is that of a request in the window.
LEMMA RecentPassed ==
  ASSUME A!AdmissionAssumption, A!TypeOK, A!PlacesAreTaken, NEW l \in DOMAIN Limit, NEW w \in A!Buckets,
         Sound(l, w), A!Recent(w)
  PROVE  w.bucket \in A!BucketsIn(l, now)
<1>1. w.hits \in Seq(Nat) /\ w.hits # <<>>
  BY DEF A!Buckets, A!Recent
<1>2. PICK n \in DOMAIN w.hits : w.hits[n] + Window > now
  <2>1. Len(w.hits) \in DOMAIN w.hits
    BY <1>1
  <2> QED BY <1>1, <2>1 DEF A!Recent, A!Last
<1>3. PICK g \in A!Injection(DOMAIN w.hits, Request) : \A j \in DOMAIN w.hits :
        /\ A!Passed(g[j]) /\ A!LimiterOf(g[j]) = l
        /\ request[g[j]].bucket = w.bucket /\ request[g[j]].at = w.hits[j]
  BY DEF Sound, A!BackedBy
<1>4. g[n] \in Request
  BY <1>2, <1>3, InjectionIs
<1>5. request[g[n]].at <= now
  BY <1>4 DEF A!PlacesAreTaken
<1> QED BY <1>2, <1>3, <1>4, <1>5 DEF A!BucketsIn, A!Within

\* So it is if a pass of the window is among its hits.
LEMMA KeptIsRecent ==
  ASSUME A!AdmissionAssumption, A!TypeOK, NEW l \in DOMAIN Limit, NEW w \in A!Buckets, Sound(l, w),
         NEW n \in DOMAIN w.hits, w.hits[n] + Window > now
  PROVE  A!Recent(w)
<1>1. w.hits \in Seq(Nat) /\ Len(w.hits) \in Nat /\ DOMAIN w.hits = 1 .. Len(w.hits)
  BY DEF A!Buckets
<1>2. Len(w.hits) \in DOMAIN w.hits /\ n <= Len(w.hits) /\ w.hits # <<>>
  BY <1>1
<1>3. w.hits[n] <= w.hits[Len(w.hits)] /\ w.hits[n] \in Nat /\ w.hits[Len(w.hits)] \in Nat
  BY <1>1, <1>2 DEF Sound
<1>4. now \in Nat /\ Window \in Nat
  BY GateNumbers DEF A!TypeOK
<1>5. w.hits[Len(w.hits)] + Window > now
  BY <1>3, <1>4
<1> QED BY <1>2, <1>5 DEF A!Recent, A!Last

\* Requests the limiters have counted, and the windows, stand.
LEMMA SameLimits ==
  ASSUME A!HitsArePasses, A!PassesAreHits, A!RefusedAtTheLimit,
         UNCHANGED <<now, windows>>,
         \A q \in Request :
           /\ request'[q].bucket = request[q].bucket
           /\ request[q].bucket # None =>
                request'[q].at = request[q].at /\ (request'[q].pc = "429" <=> request[q].pc = "429")
  PROVE  A!HitsArePasses' /\ A!PassesAreHits' /\ A!RefusedAtTheLimit'
<1>1. \A q \in Request : A!Passed(q)' <=> A!Passed(q)
  BY DEF A!Passed
<1>2. \A l, b : A!PassesOf(l, b, now)' = A!PassesOf(l, b, now)
  BY <1>1 DEF A!PassesOf, A!Within, A!LimiterOf, A!Passed
<1>3. \A l, t : A!BucketsIn(l, t)' = A!BucketsIn(l, t)
  BY <1>1 DEF A!BucketsIn, A!Within, A!LimiterOf, A!Passed
<1>4. \A l, t : A!CrowdAt(l, t)' <=> A!CrowdAt(l, t)
  BY <1>3 DEF A!CrowdAt
<1>5. ASSUME NEW l, NEW b PROVE A!Sheltered(l, b)' = A!Sheltered(l, b)
  <2>1. \A q \in A!PassesOf(l, b, now) : request'[q].at = request[q].at
    BY DEF A!PassesOf, A!Passed
  <2> QED BY <1>2, <1>4, <2>1 DEF A!Sheltered
<1>6. ASSUME NEW l, NEW w, A!BackedBy(l, w) PROVE A!BackedBy(l, w)'
  <2>1. PICK g \in A!Injection(DOMAIN w.hits, Request) : \A j \in DOMAIN w.hits :
          /\ A!Passed(g[j]) /\ A!LimiterOf(g[j]) = l
          /\ request[g[j]].bucket = w.bucket /\ request[g[j]].at = w.hits[j]
    BY <1>6 DEF A!BackedBy
  <2>2. \A j \in DOMAIN w.hits : g[j] \in Request
    BY <2>1, InjectionIs
  <2>3. \A j \in DOMAIN w.hits :
          /\ A!Passed(g[j])' /\ A!LimiterOf(g[j])' = l
          /\ request'[g[j]].bucket = w.bucket /\ request'[g[j]].at = w.hits[j]
    BY <1>1, <2>1, <2>2 DEF A!LimiterOf, A!Passed
  <2> QED BY <2>1, <2>3 DEF A!BackedBy
<1>7. A!HitsArePasses'
  BY <1>6 DEF A!HitsArePasses
<1>8. A!PassesAreHits'
  <2> SUFFICES ASSUME NEW l \in DOMAIN Limit, NEW b \in A!Names, A!Sheltered(l, b)' # {}
               PROVE  \E i \in DOMAIN windows[l] : A!KeptIn(l, b, windows[l][i])'
    BY DEF A!PassesAreHits
  <2>1. PICK i \in DOMAIN windows[l] : A!KeptIn(l, b, windows[l][i])
    BY <1>5 DEF A!PassesAreHits
  <2>2. PICK S : S = A!Sheltered(l, b) /\ S = A!Sheltered(l, b)'
    BY <1>5
  <2>3. \A q \in S : request'[q].at = request[q].at
    BY <2>2 DEF A!Sheltered, A!PassesOf, A!Passed
  <2> QED BY <2>1, <2>2, <2>3 DEF A!KeptIn
<1>9. A!RefusedAtTheLimit'
  <2> SUFFICES ASSUME NEW r \in Request, request'[r].bucket # None, request'[r].pc = "429",
                      request'[r].at = now
               PROVE  \E g \in A!Injection(1 .. Limit[A!LimiterOf(r)], Request) :
                        \A j \in 1 .. Limit[A!LimiterOf(r)] :
                          g[j] \in A!PassesOf(A!LimiterOf(r), request[r].bucket, now)'
    BY DEF A!RefusedAtTheLimit, A!LimiterOf
  <2>1. request[r].bucket # None /\ request[r].pc = "429" /\ request[r].at = now
    OBVIOUS
  <2> QED BY <1>2, <2>1 DEF A!RefusedAtTheLimit
<1> QED BY <1>7, <1>8, <1>9

\* As the clock moves on, passes leave the window and nothing else changes.
LEMMA TickLimits ==
  ASSUME A!AdmissionAssumption, A!TypeOK, A!PlacesAreTaken, A!HitsArePasses, A!PassesAreHits,
         now' = now + 1, UNCHANGED <<windows, request>>
  PROVE  A!HitsArePasses' /\ A!PassesAreHits' /\ A!RefusedAtTheLimit'
<1>0. now \in Nat /\ Window \in Nat /\ \A q \in Request : request[q].at \in Nat /\ request[q].at <= now
  BY GateNumbers DEF A!TypeOK, A!Requests, A!PlacesAreTaken
<1>1. \A l, t : A!CrowdAt(l, t)' <=> A!CrowdAt(l, t)
  BY DEF A!CrowdAt, A!BucketsIn, A!Within, A!LimiterOf, A!Passed
<1>2. A!HitsArePasses'
  BY DEF A!HitsArePasses, A!BackedBy, A!Passed, A!LimiterOf
<1>3. ASSUME NEW l, NEW b PROVE A!Sheltered(l, b)' \subseteq A!Sheltered(l, b)
  <2> SUFFICES ASSUME NEW q \in A!Sheltered(l, b)' PROVE q \in A!Sheltered(l, b)
    OBVIOUS
  <2>1. /\ q \in Request /\ A!Passed(q) /\ A!LimiterOf(q) = l /\ request[q].bucket = b
        /\ request[q].at + Window > now + 1
        /\ \A e \in 0 .. now + 1 : A!CrowdAt(l, e) => e < request[q].at
    BY <1>1 DEF A!Sheltered, A!PassesOf, A!Passed, A!LimiterOf, A!Within
  <2>2. request[q].at + Window > now /\ request[q].at <= now
    BY <1>0, <2>1
  <2>3. \A e \in 0 .. now : e \in 0 .. now + 1
    BY <1>0
  <2> QED BY <2>1, <2>2, <2>3 DEF A!Sheltered, A!PassesOf, A!Within
<1>4. A!PassesAreHits'
  <2> SUFFICES ASSUME NEW l \in DOMAIN Limit, NEW b \in A!Names, A!Sheltered(l, b)' # {}
               PROVE  \E i \in DOMAIN windows[l] : A!KeptIn(l, b, windows[l][i])'
    BY DEF A!PassesAreHits
  <2>1. PICK i \in DOMAIN windows[l] : A!KeptIn(l, b, windows[l][i])
    BY <1>3 DEF A!PassesAreHits
  <2>2. PICK S : S = A!Sheltered(l, b)
    OBVIOUS
  <2>3. PICK T : T = A!Sheltered(l, b)' /\ T \subseteq S
    BY <1>3, <2>2
  <2>4. PICK f \in A!Injection(S, DOMAIN windows[l][i].hits) :
          \A q \in S : windows[l][i].hits[f[q]] = request[q].at
    BY <2>1, <2>2 DEF A!KeptIn
  <2>5. PICK h : h = [q \in T |-> f[q]]
    OBVIOUS
  <2>6. h \in A!Injection(T, DOMAIN windows[l][i].hits)
    <3>1. f \in [S -> DOMAIN windows[l][i].hits] /\ \A x, y \in S : f[x] = f[y] => x = y
      BY <2>4, InjectionIs
    <3>2. h \in [T -> DOMAIN windows[l][i].hits] /\ \A x, y \in T : h[x] = h[y] => x = y
      BY <2>3, <2>5, <3>1
    <3> QED BY <3>2, InjectionIs
  <2>7. \A q \in T : windows[l][i].hits[h[q]] = request[q].at
    BY <2>3, <2>4, <2>5
  <2> QED BY <2>1, <2>3, <2>6, <2>7 DEF A!KeptIn
<1>5. A!RefusedAtTheLimit'
  <2>1. \A q \in Request : request[q].at # now + 1
    BY <1>0
  <2> QED BY <2>1 DEF A!RefusedAtTheLimit
<1> QED BY <1>2, <1>4, <1>5

LEMMA RestrictedIs ==
  ASSUME NEW S, NEW D, NEW f \in A!Injection(S, D), NEW T, T \subseteq S
  PROVE  [q \in T |-> f[q]] \in A!Injection(T, D)
<1>1. f \in [S -> D] /\ \A x, y \in S : f[x] = f[y] => x = y
  BY InjectionIs
<1>2. PICK h : h = [q \in T |-> f[q]]
  OBVIOUS
<1>3. h \in [T -> D] /\ \A x, y \in T : h[x] = h[y] => x = y
  BY <1>1, <1>2
<1> QED BY <1>2, <1>3, InjectionIs

\* A request is counted by a check of its limiter.
IsCounted(r) ==
  /\ request[r].bucket = None
  /\ request'[r].bucket = A!Bucket(r) /\ request'[r].at = now
  /\ request'[r].pc = "429" <=> ~A!Check(A!LimiterOf(r), A!Bucket(r)).ok
  /\ \A q \in Request \ {r} : request'[q] = request[q]
  /\ windows' = [windows EXCEPT ![A!LimiterOf(r)] = A!Check(A!LimiterOf(r), A!Bucket(r)).all]
  /\ now' = now

LEMMA CountedPasses ==
  ASSUME A!AdmissionAssumption, A!TypeOK, A!TypeOK', NEW r \in Request, IsCounted(r)
  PROVE  /\ \A q \in Request \ {r} : A!Passed(q)' <=> A!Passed(q)
         /\ ~A!Passed(r) /\ (A!Passed(r)' <=> A!Check(A!LimiterOf(r), A!Bucket(r)).ok)
         /\ \A l, t : A!BucketsIn(l, t) \subseteq A!BucketsIn(l, t)' /\ A!IsFiniteSet(A!BucketsIn(l, t)')
         /\ \A l, t : A!CrowdAt(l, t) => A!CrowdAt(l, t)'
         /\ \A l, b : A!PassesOf(l, b, now) \subseteq A!PassesOf(l, b, now)'
         /\ \A l, b : A!Sheltered(l, b)' \subseteq A!Sheltered(l, b) \cup {r}
         /\ \A l, w : A!BackedBy(l, w) => A!BackedBy(l, w)'
<1>0. A!Bucket(r) # None
  BY NamesAre
<1>1. /\ \A q \in Request \ {r} : A!Passed(q)' <=> A!Passed(q)
      /\ ~A!Passed(r) /\ (A!Passed(r)' <=> A!Check(A!LimiterOf(r), A!Bucket(r)).ok)
  BY <1>0 DEF A!Passed, IsCounted
<1>2. \A q \in Request : A!Passed(q) => A!Passed(q)' /\ request'[q] = request[q]
  BY <1>1 DEF IsCounted
<1>3. \A l, t : A!BucketsIn(l, t) \subseteq A!BucketsIn(l, t)'
  BY <1>2 DEF A!BucketsIn, A!Within, A!LimiterOf
<1>a. ASSUME NEW l, NEW t PROVE A!IsFiniteSet(A!BucketsIn(l, t)')
  <2>1. PICK Q : Q = {q \in Request : A!Passed(q) /\ A!LimiterOf(q) = l /\ A!Within(q, t, Window)}'
    OBVIOUS
  <2>2. Q \subseteq A!BucketedRequests' /\ A!IsFiniteSet(A!BucketedRequests')
    BY <2>1 DEF A!BucketedRequests, A!Passed, A!TypeOK
  <2>3. PICK f : f = [q \in Q |-> request'[q].bucket]
    OBVIOUS
  <2>4. A!BucketsIn(l, t)' = {f[q] : q \in Q}
    BY <2>1, <2>3 DEF A!BucketsIn
  <2>5. A!IsFiniteSet(Q)
    BY <2>2, FinitePlaces
  <2>6. A!IsFiniteSet({f[q] : q \in Q})
    BY <2>5, ImagesAreFinite
  <2> QED BY <2>4, <2>6
<1>4. ASSUME NEW l, NEW t, A!CrowdAt(l, t) PROVE A!CrowdAt(l, t)'
  <2>1. A!IsFiniteSet(A!BucketsIn(l, t)')
    BY <1>a
  <2>2. PICK S : S = A!BucketsIn(l, t)
    OBVIOUS
  <2>3. PICK T : T = A!BucketsIn(l, t)'
    OBVIOUS
  <2>4. A!Cardinality(S) <= A!Cardinality(T) /\ A!Cardinality(T) \in Nat /\ A!Cardinality(S) \in Nat
    BY <1>3, <2>1, <2>2, <2>3, FinitePlaces
  <2>5. A!Cardinality(S) > MaxBuckets
    BY <1>4, <2>2 DEF A!CrowdAt
  <2>6. A!Cardinality(T) > MaxBuckets
    BY <2>4, <2>5, GateNumbers
  <2> QED BY <2>3, <2>6 DEF A!CrowdAt
<1>5. \A l, b : A!PassesOf(l, b, now) \subseteq A!PassesOf(l, b, now)'
  BY <1>2 DEF A!PassesOf, A!Within, A!LimiterOf, IsCounted
<1>6. ASSUME NEW l, NEW b, NEW q \in A!Sheltered(l, b)', q # r PROVE q \in A!Sheltered(l, b)
  <2>1. /\ q \in Request /\ A!Passed(q)' /\ A!LimiterOf(q) = l /\ request'[q].bucket = b
        /\ request'[q].at <= now /\ request'[q].at + Window > now
        /\ \A e \in 0 .. now : A!CrowdAt(l, e)' => e < request'[q].at
    BY <1>6 DEF A!Sheltered, A!PassesOf, A!LimiterOf, A!Within, IsCounted
  <2>2. request'[q] = request[q] /\ A!Passed(q)
    BY <1>1, <1>6, <2>1 DEF IsCounted
  <2> QED BY <1>4, <2>1, <2>2 DEF A!Sheltered, A!PassesOf, A!Within
<1>7. ASSUME NEW l, NEW w, A!BackedBy(l, w) PROVE A!BackedBy(l, w)'
  <2>1. PICK g \in A!Injection(DOMAIN w.hits, Request) : \A j \in DOMAIN w.hits :
          /\ A!Passed(g[j]) /\ A!LimiterOf(g[j]) = l
          /\ request[g[j]].bucket = w.bucket /\ request[g[j]].at = w.hits[j]
    BY <1>7 DEF A!BackedBy
  <2>2. \A j \in DOMAIN w.hits : g[j] \in Request
    BY <2>1, InjectionIs
  <2>3. \A j \in DOMAIN w.hits :
          /\ A!Passed(g[j])' /\ A!LimiterOf(g[j])' = l
          /\ request'[g[j]].bucket = w.bucket /\ request'[g[j]].at = w.hits[j]
    BY <1>2, <2>1, <2>2 DEF A!LimiterOf
  <2> QED BY <2>1, <2>3 DEF A!BackedBy
<1> QED BY <1>1, <1>3, <1>a, <1>4, <1>5, <1>6, <1>7

\* What the check works on is sound, and so is what is left of the caller's hits.
LEMMA CheckedAreSound ==
  ASSUME A!AdmissionAssumption, A!TypeOK, A!HitsArePasses, NEW l \in DOMAIN Limit, NEW b \in A!Names
  PROVE  \A j \in DOMAIN A!All(l, b) : Sound(l, A!All(l, b)[j])
<1>1. Distinct(windows[l]) /\ \A i \in DOMAIN windows[l] : Sound(l, windows[l][i])
  BY SoundWindows
<1>2. \A j \in DOMAIN A!All(l, b) :
        (\E k \in DOMAIN windows[l] : A!All(l, b)[j] = windows[l][k])
          \/ A!All(l, b)[j] = [bucket |-> b, hits |-> <<>>]
  BY <1>1, AllIs
<1> QED BY <1>1, <1>2, EmptyIsSound

LEMMA LeftAreSound ==
  ASSUME A!AdmissionAssumption, A!TypeOK, NEW l \in DOMAIN Limit, NEW w \in A!Buckets, Sound(l, w),
         NEW hits \in Seq(Nat), NEW d \in 0 .. Len(w.hits), Len(hits) = Len(w.hits) - d,
         \A i \in 1 .. Len(hits) : hits[i] = w.hits[i + d]
  PROVE  Sound(l, [bucket |-> w.bucket, hits |-> hits])
<1>0. /\ w.hits \in Seq(Nat) /\ Len(w.hits) \in Nat /\ DOMAIN w.hits = 1 .. Len(w.hits)
      /\ Len(hits) \in Nat /\ DOMAIN hits = 1 .. Len(hits) /\ d \in Nat /\ Limit[l] \in Nat
  BY GateNumbers DEF A!Buckets
<1>1. \A i \in DOMAIN hits : i + d \in DOMAIN w.hits /\ i \in Nat
  <2>1. PICK n \in Nat, k \in Nat : n = Len(hits) /\ k = Len(w.hits) /\ n = k - d
    BY <1>0
  <2>2. \A i \in 1 .. n : i + d \in 1 .. k /\ i \in Nat
    BY <1>0, <2>1
  <2> QED BY <1>0, <2>1, <2>2
<1>2. Len(hits) <= Limit[l]
  BY <1>0 DEF Sound
<1>3. ASSUME NEW x \in DOMAIN hits, NEW y \in DOMAIN hits, x <= y PROVE hits[x] <= hits[y]
  <2>1. x + d <= y + d
    BY <1>0, <1>1, <1>3
  <2> QED BY <1>0, <1>1, <2>1 DEF Sound
<1>4. PICK g \in A!Injection(DOMAIN w.hits, Request) : \A j \in DOMAIN w.hits :
        /\ A!Passed(g[j]) /\ A!LimiterOf(g[j]) = l
        /\ request[g[j]].bucket = w.bucket /\ request[g[j]].at = w.hits[j]
  BY DEF Sound, A!BackedBy
<1>5. PICK h : h = [i \in DOMAIN hits |-> g[i + d]]
  OBVIOUS
<1>6. h \in A!Injection(DOMAIN hits, Request)
  <2>1. g \in [DOMAIN w.hits -> Request] /\ \A x, y \in DOMAIN w.hits : g[x] = g[y] => x = y
    BY <1>4, InjectionIs
  <2>2. h \in [DOMAIN hits -> Request]
    BY <1>1, <1>5, <2>1
  <2>3. ASSUME NEW x \in DOMAIN hits, NEW y \in DOMAIN hits, h[x] = h[y] PROVE x = y
    <3>1. x + d = y + d
      BY <1>1, <1>5, <2>1, <2>3
    <3> QED BY <1>0, <1>1, <3>1
  <2> QED BY <2>2, <2>3, InjectionIs
<1>7. \A j \in DOMAIN hits :
        /\ A!Passed(h[j]) /\ A!LimiterOf(h[j]) = l
        /\ request[h[j]].bucket = w.bucket /\ request[h[j]].at = hits[j]
  BY <1>0, <1>1, <1>4, <1>5
<1>8. PICK v : v = [bucket |-> w.bucket, hits |-> hits]
  OBVIOUS
<1>9. v.hits = hits /\ v.bucket = w.bucket
  BY <1>8
<1>10. A!BackedBy(l, v)
  BY <1>6, <1>7, <1>9 DEF A!BackedBy
<1>11. Sound(l, v)
  BY <1>2, <1>3, <1>9, <1>10 DEF Sound
<1> QED BY <1>8, <1>11

\* The buckets ws that a check leaves: the caller's has its hits renewed.
Renews(l, b, all, m, d, hits, left, ws) ==
  /\ CheckSees(l, b, all, m, d, hits)
  /\ left = IF Len(hits) < Limit[l] THEN Append(hits, now) ELSE hits
  /\ Len(hits) \in Nat /\ DOMAIN hits = 1 .. Len(hits)
  /\ Len(hits) < Limit[l] =>
       /\ DOMAIN left = 1 .. Len(hits) + 1 /\ Len(left) = Len(hits) + 1 /\ left[Len(hits) + 1] = now
       /\ \A i \in DOMAIN hits : left[i] = hits[i]
  /\ DOMAIN ws = DOMAIN all /\ ws[m].bucket = b /\ ws[m].hits = left
  /\ \A j \in DOMAIN all \ {m} : ws[j] = all[j]

LEMMA CountsRenew ==
  ASSUME A!AdmissionAssumption, A!TypeOK, A!HitsArePasses, NEW r \in Request, IsCounted(r)
  PROVE  /\ \A l \in DOMAIN Limit \ {A!LimiterOf(r)} : windows'[l] = windows[l]
         /\ \E all \in Seq(A!Buckets), hits \in Seq(Nat), left \in Seq(Nat) :
              \E m \in DOMAIN all : \E d \in 0 .. Len(all[m].hits) :
                Renews(A!LimiterOf(r), A!Bucket(r), all, m, d, hits, left, windows'[A!LimiterOf(r)])
<1>1. PICK l \in DOMAIN Limit : l = A!LimiterOf(r)
  BY NamesAre
<1>2. PICK b \in A!Names : b = A!Bucket(r)
  BY NamesAre
<1>3. Distinct(windows[l])
  BY SoundWindows
<1>4. PICK all \in Seq(A!Buckets), hits \in Seq(Nat) :
        \E m \in DOMAIN all : \E d \in 0 .. Len(all[m].hits) : CheckSees(l, b, all, m, d, hits)
  BY <1>3, CheckIs
<1>5. PICK m \in DOMAIN all : \E d \in 0 .. Len(all[m].hits) : CheckSees(l, b, all, m, d, hits)
  BY <1>4
<1>6. PICK d \in 0 .. Len(all[m].hits) : CheckSees(l, b, all, m, d, hits)
  BY <1>5
<1>7. now \in Nat
  BY DEF A!TypeOK
<1>8. PICK left \in Seq(Nat) : left = IF Len(hits) < Limit[l] THEN Append(hits, now) ELSE hits
  <2>1. Append(hits, now) \in Seq(Nat)
    BY <1>7, AppendProperties
  <2> QED BY <2>1
<1>9. PICK ws : ws = A!Check(l, b).all
  OBVIOUS
<1>10. /\ windows'[l] = ws
       /\ \A k \in DOMAIN Limit \ {l} : windows'[k] = windows[k]
  BY <1>1, <1>2, <1>9 DEF IsCounted, A!TypeOK
<1>11. ws = [all EXCEPT ![m] = [bucket |-> b, hits |-> left]]
  BY <1>6, <1>8, <1>9 DEF CheckSees
<1>12. /\ DOMAIN ws = DOMAIN all /\ ws[m].bucket = b /\ ws[m].hits = left
       /\ \A j \in DOMAIN all \ {m} : ws[j] = all[j]
  <2>1. PICK w : w = [bucket |-> b, hits |-> left]
    OBVIOUS
  <2>2. w.bucket = b /\ w.hits = left
    BY <2>1
  <2>3. ws = [all EXCEPT ![m] = w]
    BY <1>11, <2>1
  <2>4. DOMAIN ws = DOMAIN all /\ ws[m] = w /\ \A j \in DOMAIN all \ {m} : ws[j] = all[j]
    <3>1. all \in [1 .. Len(all) -> A!Buckets] /\ DOMAIN all = 1 .. Len(all)
      OBVIOUS
    <3> QED BY <2>3, <3>1
  <2> QED BY <2>2, <2>4
<1>13. Len(hits) \in Nat /\ DOMAIN hits = 1 .. Len(hits)
  OBVIOUS
<1>14. Len(hits) < Limit[l] =>
         /\ DOMAIN left = 1 .. Len(hits) + 1 /\ Len(left) = Len(hits) + 1 /\ left[Len(hits) + 1] = now
         /\ \A i \in DOMAIN hits : left[i] = hits[i]
  <2> SUFFICES ASSUME Len(hits) < Limit[l]
               PROVE  /\ DOMAIN left = 1 .. Len(hits) + 1 /\ Len(left) = Len(hits) + 1
                      /\ left[Len(hits) + 1] = now
                      /\ \A i \in DOMAIN hits : left[i] = hits[i]
    OBVIOUS
  <2>1. left = Append(hits, now)
    BY <1>8
  <2>2. /\ Len(Append(hits, now)) = Len(hits) + 1 /\ Append(hits, now)[Len(hits) + 1] = now
        /\ \A i \in 1 .. Len(hits) : Append(hits, now)[i] = hits[i]
    BY <1>7, AppendProperties
  <2>3. DOMAIN left = 1 .. Len(left)
    OBVIOUS
  <2> QED BY <1>13, <2>1, <2>2, <2>3
<1>15. Renews(l, b, all, m, d, hits, left, ws)
  BY <1>6, <1>8, <1>12, <1>13, <1>14 DEF Renews
<1> QED BY <1>1, <1>2, <1>10, <1>15

\* The caller's renewed hits are its passes, this one included.
LEMMA RenewedIsSound ==
  ASSUME A!AdmissionAssumption, A!TypeOK, A!TypeOK', A!PlacesAreTaken, A!HitsArePasses, NEW r \in Request, IsCounted(r),
         NEW all \in Seq(A!Buckets), NEW hits \in Seq(Nat), NEW left \in Seq(Nat),
         NEW m \in DOMAIN all, NEW d \in 0 .. Len(all[m].hits), NEW ws,
         Renews(A!LimiterOf(r), A!Bucket(r), all, m, d, hits, left, ws)
  PROVE  /\ Len(ws[m].hits) <= Limit[A!LimiterOf(r)]
         /\ \A x, y \in DOMAIN ws[m].hits : x <= y => ws[m].hits[x] <= ws[m].hits[y]
         /\ A!BackedBy(A!LimiterOf(r), ws[m])'
<1>1. PICK l \in DOMAIN Limit : l = A!LimiterOf(r)
  BY NamesAre
<1>2. PICK b \in A!Names : b = A!Bucket(r)
  BY NamesAre
<1>3. Renews(l, b, all, m, d, hits, left, ws) /\ CheckSees(l, b, all, m, d, hits)
  BY <1>1, <1>2 DEF Renews
<1>4. PICK n \in Nat : n = Len(hits) /\ DOMAIN hits = 1 .. n
  BY <1>3 DEF Renews
<1>5. PICK v : v = [bucket |-> b, hits |-> hits]
  OBVIOUS
<1>6. v.hits = hits /\ v.bucket = b
  BY <1>5
<1>7. Sound(l, v)
  <2>1. Sound(l, all[m]) /\ all[m].bucket = b /\ all[m] \in A!Buckets
    BY <1>3, CheckedAreSound DEF CheckSees
  <2>2. Len(hits) = Len(all[m].hits) - d /\ \A i \in 1 .. Len(hits) : hits[i] = all[m].hits[i + d]
    BY <1>3 DEF CheckSees
  <2> QED BY <1>5, <2>1, <2>2, LeftAreSound
<1>8. PICK g \in A!Injection(DOMAIN hits, Request) : \A j \in DOMAIN hits :
        /\ A!Passed(g[j]) /\ A!LimiterOf(g[j]) = l
        /\ request[g[j]].bucket = b /\ request[g[j]].at = hits[j]
  BY <1>6, <1>7 DEF Sound, A!BackedBy
<1>9. g \in [DOMAIN hits -> Request] /\ \A x, y \in DOMAIN hits : g[x] = g[y] => x = y
  BY <1>8, InjectionIs
<1>10. \A j \in DOMAIN hits :
         /\ g[j] # r /\ A!Passed(g[j])' /\ A!LimiterOf(g[j])' = l
         /\ request'[g[j]].bucket = b /\ request'[g[j]].at = hits[j] /\ hits[j] <= now
  <2>1. \A j \in DOMAIN hits : g[j] \in Request \ {r}
    BY <1>8, <1>9, CountedPasses
  <2>2. \A j \in DOMAIN hits : hits[j] <= now
    BY <1>8, <2>1 DEF A!PlacesAreTaken
  <2>3. \A q \in Request \ {r} : (A!Passed(q)' <=> A!Passed(q)) /\ request'[q] = request[q]
    BY CountedPasses DEF IsCounted
  <2>4. \A q : A!LimiterOf(q)' = A!LimiterOf(q)
    BY DEF A!LimiterOf
  <2> QED BY <1>8, <2>1, <2>2, <2>3, <2>4
<1>11. CASE ~(Len(hits) < Limit[l])
  <2>1. ws[m].hits = hits /\ ws[m].bucket = b
    BY <1>3, <1>11 DEF Renews
  <2>2. A!BackedBy(l, ws[m])'
    <3>1. PICK w : w = ws[m] /\ w.hits = hits /\ w.bucket = b
      BY <2>1
    <3>2. A!BackedBy(l, w)'
      BY <1>8, <1>10, <3>1 DEF A!BackedBy
    <3> QED BY <3>1, <3>2 DEF A!BackedBy
  <2> QED BY <1>1, <1>6, <1>7, <2>1, <2>2 DEF Sound
<1>12. CASE Len(hits) < Limit[l]
  <2>1. /\ ws[m].hits = left /\ ws[m].bucket = b
        /\ DOMAIN left = 1 .. n + 1 /\ Len(left) = n + 1 /\ left[n + 1] = now
        /\ \A i \in DOMAIN hits : left[i] = hits[i]
    BY <1>3, <1>4, <1>12 DEF Renews
  <2>2. DOMAIN left = DOMAIN hits \cup {n + 1} /\ n + 1 \notin DOMAIN hits
    BY <1>4, <2>1
  <2>3. Len(left) <= Limit[l]
    <3>1. Limit[l] \in Nat /\ n < Limit[l]
      BY <1>4, <1>12, GateNumbers
    <3> QED BY <2>1, <3>1
  <2>4. \A x, y \in DOMAIN left : x <= y => left[x] <= left[y]
    <3> SUFFICES ASSUME NEW x \in DOMAIN left, NEW y \in DOMAIN left, x <= y
                 PROVE  left[x] <= left[y]
      OBVIOUS
    <3>1. now \in Nat
      BY DEF A!TypeOK
    <3>2. CASE x \in DOMAIN hits /\ y \in DOMAIN hits
      BY <1>6, <1>7, <2>1, <3>2 DEF Sound
    <3>3. CASE y = n + 1
      <4>1. CASE x = n + 1
        BY <2>1, <3>1, <3>3, <4>1
      <4>2. CASE x \in DOMAIN hits
        <5>1. left[x] = hits[x] /\ hits[x] <= now /\ left[y] = now
          BY <1>10, <2>1, <3>3, <4>2
        <5> QED BY <5>1
      <4> QED BY <2>2, <4>1, <4>2
    <3>4. CASE x = n + 1 /\ y \in DOMAIN hits
      BY <1>4, <3>4
    <3> QED BY <2>2, <3>2, <3>3, <3>4
  <2>5. PICK h : h = [j \in DOMAIN left |-> IF j = n + 1 THEN r ELSE g[j]]
    OBVIOUS
  <2>6. h \in A!Injection(DOMAIN left, Request)
    <3>1. h \in [DOMAIN left -> Request]
      BY <1>9, <2>2, <2>5
    <3>2. \A x, y \in DOMAIN left : h[x] = h[y] => x = y
      BY <1>9, <1>10, <2>2, <2>5
    <3> QED BY <3>1, <3>2, InjectionIs
  <2>7. \A j \in DOMAIN left :
          /\ A!Passed(h[j])' /\ A!LimiterOf(h[j])' = l
          /\ request'[h[j]].bucket = b /\ request'[h[j]].at = left[j]
    <3>1. ASSUME NEW j \in DOMAIN hits
          PROVE  /\ A!Passed(h[j])' /\ A!LimiterOf(h[j])' = l
                 /\ request'[h[j]].bucket = b /\ request'[h[j]].at = left[j]
      <4>1. h[j] = g[j] /\ left[j] = hits[j]
        BY <2>1, <2>2, <2>5
      <4> QED BY <1>10, <4>1 DEF A!Passed, A!LimiterOf
    <3>2. /\ A!Passed(h[n + 1])' /\ A!LimiterOf(h[n + 1])' = l
          /\ request'[h[n + 1]].bucket = b /\ request'[h[n + 1]].at = left[n + 1]
      <4>1. h[n + 1] = r
        BY <2>2, <2>5
      <4>2. A!Passed(r)'
        BY <1>1, <1>2, <1>3, <1>12, CountedPasses DEF CheckSees
      <4> QED BY <1>1, <1>2, <2>1, <4>1, <4>2 DEF IsCounted, A!LimiterOf, A!Passed
    <3> QED BY <2>2, <3>1, <3>2
  <2>8. A!BackedBy(l, ws[m])'
    <3>1. PICK w : w = ws[m] /\ w.hits = left /\ w.bucket = b
      BY <2>1
    <3>2. A!BackedBy(l, w)'
      BY <2>6, <2>7, <3>1 DEF A!BackedBy
    <3> QED BY <3>1, <3>2 DEF A!BackedBy
  <2> QED BY <1>1, <2>1, <2>3, <2>4, <2>8
<1> QED BY <1>11, <1>12

\* What a check leaves of a limiter's windows.
LEMMA ChecksLeave ==
  ASSUME A!AdmissionAssumption, A!TypeOK, A!HitsArePasses, NEW l \in DOMAIN Limit, NEW b \in A!Names,
         NEW all \in Seq(A!Buckets), NEW hits, NEW left, NEW m \in DOMAIN all, NEW d, NEW ws,
         Renews(l, b, all, m, d, hits, left, ws)
  PROVE  /\ DOMAIN ws = DOMAIN all /\ m \in DOMAIN ws /\ ws[m].bucket = b /\ Distinct(ws)
         /\ \A j \in DOMAIN all \ {m} : ws[j] = all[j] /\ Sound(l, ws[j]) /\ ws[j].bucket # b
         /\ \/ KeepsRecent(windows[l], all)
            \/ ~A!Known(l, b) /\ \E h : h \in A!Injection(1 .. MaxBuckets, RecentNames(windows[l]))
<1>1. Distinct(windows[l])
  BY SoundWindows
<1>2. all = A!All(l, b) /\ all[m].bucket = b
  BY DEF Renews, CheckSees
<1>3. Distinct(all) /\ \A j \in DOMAIN all : Sound(l, all[j])
  BY <1>1, <1>2, AllIs, CheckedAreSound
<1>4. /\ DOMAIN ws = DOMAIN all /\ ws[m].bucket = b
      /\ \A j \in DOMAIN all \ {m} : ws[j] = all[j]
  BY DEF Renews
<1>5. \A j \in DOMAIN all : ws[j].bucket = all[j].bucket
  BY <1>2, <1>4
<1>6. Distinct(ws)
  BY <1>3, <1>4, <1>5 DEF Distinct
<1>7. \A j \in DOMAIN all \ {m} : ws[j] = all[j] /\ Sound(l, ws[j]) /\ ws[j].bucket # b
  BY <1>2, <1>3, <1>4 DEF Distinct
<1>8. \/ KeepsRecent(windows[l], A!All(l, b))
      \/ ~A!Known(l, b) /\ \E h : h \in A!Injection(1 .. MaxBuckets, RecentNames(windows[l]))
  BY <1>1, AllIs
<1> QED BY <1>2, <1>4, <1>6, <1>7, <1>8

LEMMA HitsStay ==
  ASSUME A!AdmissionAssumption, A!TypeOK, A!TypeOK', A!PlacesAreTaken, A!HitsArePasses, NEW r \in Request, IsCounted(r)
  PROVE  A!HitsArePasses'
<1>1. PICK l \in DOMAIN Limit, b \in A!Names : l = A!LimiterOf(r) /\ b = A!Bucket(r)
  BY NamesAre
<1>2. PICK ws : ws = windows'[l]
  OBVIOUS
<1>3. PICK all \in Seq(A!Buckets), hits \in Seq(Nat), left \in Seq(Nat) :
        \E m \in DOMAIN all : \E d \in 0 .. Len(all[m].hits) : Renews(l, b, all, m, d, hits, left, ws)
  BY <1>1, <1>2, CountsRenew
<1>4. PICK m \in DOMAIN all :
        \E d \in 0 .. Len(all[m].hits) : Renews(l, b, all, m, d, hits, left, ws)
  BY <1>3
<1>5. PICK d \in 0 .. Len(all[m].hits) : Renews(l, b, all, m, d, hits, left, ws)
  BY <1>4
<1>6. /\ DOMAIN ws = DOMAIN all /\ m \in DOMAIN ws /\ ws[m].bucket = b /\ Distinct(ws)
      /\ \A j \in DOMAIN all \ {m} : ws[j] = all[j] /\ Sound(l, ws[j]) /\ ws[j].bucket # b
      /\ \/ KeepsRecent(windows[l], all)
         \/ ~A!Known(l, b) /\ \E h : h \in A!Injection(1 .. MaxBuckets, RecentNames(windows[l]))
  <2> HIDE <1>1, <1>2
  <2>1. Renews(l, b, all, m, d, hits, left, ws)
    BY <1>5
  <2> QED BY <2>1, ChecksLeave
<1>7. /\ Len(ws[m].hits) <= Limit[l]
      /\ \A x, y \in DOMAIN ws[m].hits : x <= y => ws[m].hits[x] <= ws[m].hits[y]
      /\ A!BackedBy(l, ws[m])'
  BY <1>1, <1>5, RenewedIsSound
<1>8. ASSUME NEW k \in DOMAIN Limit, NEW w, Sound(k, w) PROVE A!BackedBy(k, w)'
  BY <1>8, CountedPasses DEF Sound
<1>9. ASSUME NEW j \in DOMAIN ws
      PROVE  /\ Len(ws[j].hits) <= Limit[l]
             /\ \A x, y \in DOMAIN ws[j].hits : x <= y => ws[j].hits[x] <= ws[j].hits[y]
             /\ A!BackedBy(l, windows[l][j])'
  <2>1. A!BackedBy(l, ws[j])'
    <3>1. CASE j = m
      BY <1>7, <3>1
    <3>2. CASE j # m
      <4>1. PICK w : w = ws[j] /\ Sound(l, w)
        BY <1>6, <3>2
      <4>2. A!BackedBy(l, w)'
        BY <1>8, <4>1
      <4> QED BY <4>1, <4>2 DEF A!BackedBy
    <3> QED BY <3>1, <3>2
  <2> QED BY <1>2, <1>6, <1>7, <2>1 DEF Sound, A!BackedBy, A!LimiterOf, A!Passed
<1>10. ASSUME NEW k \in DOMAIN Limit \ {l}
       PROVE  /\ Distinct(windows'[k])
              /\ \A i \in DOMAIN windows'[k] :
                   /\ Len(windows'[k][i].hits) <= Limit[k]
                   /\ \A x, y \in DOMAIN windows'[k][i].hits :
                        x <= y => windows'[k][i].hits[x] <= windows'[k][i].hits[y]
                   /\ A!BackedBy(k, windows[k][i])'
  <2>1. windows'[k] = windows[k]
    BY <1>1, CountsRenew
  <2>2. Distinct(windows[k]) /\ \A i \in DOMAIN windows[k] : Sound(k, windows[k][i])
    BY SoundWindows
  <2>3. ASSUME NEW i \in DOMAIN windows[k] PROVE A!BackedBy(k, windows[k][i])'
    <3>1. PICK w : w = windows[k][i] /\ w = windows'[k][i] /\ Sound(k, w)
      BY <2>1, <2>2
    <3>2. A!BackedBy(k, w)'
      BY <1>8, <3>1
    <3> QED BY <3>1, <3>2 DEF A!BackedBy
  <2> QED BY <2>1, <2>2, <2>3 DEF Sound
<1> QED BY <1>2, <1>6, <1>9, <1>10 DEF A!HitsArePasses, Distinct

\* A window that stands keeps the passes of before.
LEMMA KeptOn ==
  ASSUME NEW r \in Request, IsCounted(r), NEW k, NEW c, NEW w,
         A!Sheltered(k, c)' \subseteq A!Sheltered(k, c), r \notin A!Sheltered(k, c)', A!KeptIn(k, c, w)
  PROVE  A!KeptIn(k, c, w)'
<1>1. PICK S : S = A!Sheltered(k, c)
  OBVIOUS
<1>2. PICK T : T = A!Sheltered(k, c)' /\ T \subseteq S /\ r \notin T
  BY <1>1
<1>3. w.bucket = c
  BY DEF A!KeptIn
<1>4. PICK f \in A!Injection(S, DOMAIN w.hits) : \A q \in S : w.hits[f[q]] = request[q].at
  BY <1>1 DEF A!KeptIn
<1>5. PICK h : h = [q \in T |-> f[q]] /\ h \in A!Injection(T, DOMAIN w.hits)
  BY <1>2, <1>4, RestrictedIs
<1>6. \A q \in T : q \in Request
  BY <1>1, <1>2 DEF A!Sheltered, A!PassesOf
<1>7. \A q \in T : w.hits[h[q]] = request'[q].at
  BY <1>2, <1>4, <1>5, <1>6 DEF IsCounted
<1> QED BY <1>2, <1>3, <1>5, <1>7 DEF A!KeptIn

\* A window holds no pass of a caller's that a check of it forgets.
LEMMA ShelteredAreLeft ==
  ASSUME A!AdmissionAssumption, A!TypeOK, A!HitsArePasses, A!PassesAreHits,
         NEW l \in DOMAIN Limit, NEW b \in A!Names,
         NEW all \in Seq(A!Buckets), NEW hits \in Seq(Nat), NEW m \in DOMAIN all,
         NEW d \in 0 .. Len(all[m].hits), CheckSees(l, b, all, m, d, hits)
  PROVE  \E f \in A!Injection(A!Sheltered(l, b), DOMAIN hits) :
           \A q \in A!Sheltered(l, b) : hits[f[q]] = request[q].at
<1>0. /\ now \in Nat /\ Window \in Nat /\ d \in Nat /\ Len(hits) \in Nat
      /\ DOMAIN hits = 1 .. Len(hits)
      /\ all[m].hits \in Seq(Nat)
  <2>1. all[m] \in A!Buckets
    OBVIOUS
  <2> QED BY <2>1, GateNumbers DEF A!TypeOK, A!Buckets
<1>1. PICK S : S = A!Sheltered(l, b)
  OBVIOUS
<1>2. CASE S = {}
  <2>1. PICK f : f = [q \in {} |-> 0]
    OBVIOUS
  <2>2. f \in A!Injection({}, DOMAIN hits)
    <3>1. f \in [{} -> DOMAIN hits]
      BY <2>1
    <3> QED BY <3>1, InjectionIs
  <2> QED BY <1>1, <1>2, <2>2
<1>3. CASE S # {}
  <2>1. PICK i \in DOMAIN windows[l] : A!KeptIn(l, b, windows[l][i])
    BY <1>1, <1>3 DEF A!PassesAreHits
  <2>2. all = windows[l] /\ i = m
    <3>1. windows[l][i].bucket = b /\ A!Known(l, b)
      BY <2>1 DEF A!KeptIn, A!Known
    <3>2. all = windows[l]
      BY <3>1 DEF CheckSees, A!All
    <3>3. all[m].bucket = b /\ Distinct(all)
      BY <3>2, SoundWindows DEF CheckSees
    <3> QED BY <2>1, <3>1, <3>2, <3>3 DEF Distinct
  <2>3. PICK old \in Seq(Nat) : old = all[m].hits
    BY <1>0
  <2>4. PICK f \in A!Injection(S, DOMAIN old) : \A q \in S : old[f[q]] = request[q].at
    BY <1>1, <2>1, <2>2, <2>3 DEF A!KeptIn
  <2>5. f \in [S -> DOMAIN old] /\ \A x, y \in S : f[x] = f[y] => x = y
    BY <2>4, InjectionIs
  <2>6. /\ Len(old) \in Nat /\ DOMAIN old = 1 .. Len(old) /\ Len(hits) = Len(old) - d
        /\ \A j \in 1 .. Len(hits) : hits[j] = old[j + d]
        /\ \A j \in 1 .. d : old[j] + Window <= now
    BY <2>3 DEF CheckSees
  <2>7. ASSUME NEW q \in S
        PROVE  f[q] \in Nat /\ f[q] - d \in 1 .. Len(hits) /\ hits[f[q] - d] = request[q].at
    <3>1. request[q].at + Window > now /\ f[q] \in 1 .. Len(old) /\ old[f[q]] = request[q].at
      BY <1>1, <2>4, <2>5, <2>6 DEF A!Sheltered, A!PassesOf, A!Within
    <3>2. f[q] \in Nat /\ old[f[q]] \in Nat
      BY <2>6, <3>1
    <3>3. f[q] \notin 1 .. d
      <4>1. ~(old[f[q]] + Window <= now)
        <5>1. PICK v \in Nat : v = old[f[q]] /\ v + Window > now
          BY <3>1, <3>2
        <5> QED BY <1>0, <5>1
      <4> QED BY <2>6, <4>1
    <3>4. f[q] - d \in 1 .. Len(hits) /\ (f[q] - d) + d = f[q]
      <4>1. PICK n \in Nat, x \in Nat : n = Len(old) /\ x = f[q] /\ x \in 1 .. n /\ x \notin 1 .. d
        BY <2>6, <3>1, <3>2, <3>3
      <4>2. x - d \in 1 .. n - d /\ (x - d) + d = x
        BY <1>0, <4>1
      <4> QED BY <2>6, <4>1, <4>2
    <3> QED BY <2>6, <3>1, <3>2, <3>4
  <2>8. PICK h : h = [q \in S |-> f[q] - d]
    OBVIOUS
  <2>9. h \in A!Injection(S, DOMAIN hits)
    <3>1. h \in [S -> DOMAIN hits]
      BY <1>0, <2>7, <2>8
    <3>2. ASSUME NEW x \in S, NEW y \in S, h[x] = h[y] PROVE x = y
      <4>1. f[x] - d = f[y] - d /\ f[x] \in Nat /\ f[y] \in Nat
        BY <2>7, <2>8, <3>2
      <4>2. f[x] = f[y]
        BY <1>0, <4>1
      <4> QED BY <2>5, <4>2
    <3> QED BY <3>1, <3>2, InjectionIs
  <2>10. \A q \in S : hits[h[q]] = request[q].at
    BY <2>7, <2>8
  <2> QED BY <1>1, <2>9, <2>10
<1> QED BY <1>2, <1>3

\* Making room for a caller forgets a window in use only when more callers are live
\* than there is room for.
LEMMA ForgettingIsCrowded ==
  ASSUME A!AdmissionAssumption, A!TypeOK, A!TypeOK', A!PlacesAreTaken, A!HitsArePasses, NEW r \in Request, IsCounted(r),
         ~A!Known(A!LimiterOf(r), A!Bucket(r)),
         NEW h \in A!Injection(1 .. MaxBuckets, RecentNames(windows[A!LimiterOf(r)]))
  PROVE  A!CrowdAt(A!LimiterOf(r), now)'
<1>1. PICK l \in DOMAIN Limit, b \in A!Names : l = A!LimiterOf(r) /\ b = A!Bucket(r)
  BY NamesAre
<1>2. PICK n \in Nat \ {0} : n = MaxBuckets
  BY GateNumbers
<1>3. PICK N : N = RecentNames(windows[l])
  OBVIOUS
<1>4. h \in [1 .. n -> N] /\ \A x, y \in 1 .. n : h[x] = h[y] => x = y
  BY <1>1, <1>2, <1>3, InjectionIs
<1>5. N \subseteq A!BucketsIn(l, now) /\ b \notin N
  <2>1. ASSUME NEW k \in DOMAIN windows[l], A!Recent(windows[l][k])
        PROVE  windows[l][k].bucket \in A!BucketsIn(l, now) /\ windows[l][k].bucket # b
    <3>1. windows[l][k] \in A!Buckets /\ Sound(l, windows[l][k])
      BY SoundWindows DEF A!TypeOK
    <3>2. windows[l][k].bucket \in A!BucketsIn(l, now)
      BY <2>1, <3>1, RecentPassed
    <3> QED BY <1>1, <3>2 DEF A!Known
  <2> QED BY <1>3, <2>1 DEF RecentNames
<1>6. A!Passed(r)'
  <2>1. PICK all \in Seq(A!Buckets), hits \in Seq(Nat) :
          \E m \in DOMAIN all : \E d \in 0 .. Len(all[m].hits) : CheckSees(l, b, all, m, d, hits)
    BY CheckIs, SoundWindows
  <2>2. PICK m \in DOMAIN all : \E d \in 0 .. Len(all[m].hits) : CheckSees(l, b, all, m, d, hits)
    BY <2>1
  <2>3. PICK d \in 0 .. Len(all[m].hits) : CheckSees(l, b, all, m, d, hits)
    BY <2>2
  <2>4. all[m] = [bucket |-> b, hits |-> <<>>]
    <3>1. all = A!All(l, b) /\ all[m].bucket = b /\ ~A!Known(l, b)
      BY <1>1, <2>3 DEF CheckSees
    <3>2. \A j \in DOMAIN all :
            \/ \E k \in DOMAIN windows[l] : all[j] = windows[l][k]
            \/ all[j] = [bucket |-> b, hits |-> <<>>]
      BY <3>1, AllIs, SoundWindows
    <3> QED BY <3>1, <3>2 DEF A!Known
  <2>5. all[m].hits = <<>> /\ Len(all[m].hits) = 0
    BY <2>4
  <2>6. Len(hits) = 0 /\ Limit[l] \in Nat \ {0}
    <3>1. Limit[l] \in Nat \ {0}
      BY GateNumbers
    <3>2. d = 0 /\ Len(hits) = Len(all[m].hits) - d
      BY <2>3, <2>5 DEF CheckSees
    <3> QED BY <2>5, <3>1, <3>2
  <2>7. A!Check(l, b).ok
    BY <2>3, <2>6 DEF CheckSees
  <2> QED BY <1>1, <2>7, CountedPasses
<1>7. PICK B : B = A!BucketsIn(l, now)' /\ A!IsFiniteSet(B)
  BY CountedPasses
<1>8. N \subseteq B /\ b \in B
  <2>1. A!BucketsIn(l, now) \subseteq B
    <3>1. A!BucketsIn(l, now) \subseteq A!BucketsIn(l, now)'
      <4>1. \A t : A!BucketsIn(l, t) \subseteq A!BucketsIn(l, t)'
        BY CountedPasses
      <4>2. now' = now
        BY DEF IsCounted
      <4> QED BY <4>1, <4>2 DEF A!BucketsIn, A!Within
    <3> QED BY <1>7, <3>1
  <2>2. request'[r].bucket = b /\ request'[r].at = now /\ now' = now
    BY <1>1 DEF IsCounted
  <2>3. A!Within(r, now, Window)'
    BY <2>2, GateNumbers DEF A!Within, A!TypeOK
  <2>4. request'[r].bucket \in A!BucketsIn(l, now)'
    BY <1>1, <1>6, <2>3 DEF A!BucketsIn, A!LimiterOf, A!Passed, A!Within
  <2> QED BY <1>5, <1>7, <2>1, <2>2, <2>4
<1>9. PICK f : f = [j \in 1 .. n + 1 |-> IF j = n + 1 THEN b ELSE h[j]]
  OBVIOUS
<1>10. f \in A!Injection(1 .. n + 1, B)
  <2>1. 1 .. n + 1 = (1 .. n) \cup {n + 1} /\ n + 1 \notin 1 .. n
    OBVIOUS
  <2>2. f \in [1 .. n + 1 -> B]
    BY <1>4, <1>8, <1>9, <2>1
  <2>3. \A x, y \in 1 .. n + 1 : f[x] = f[y] => x = y
    BY <1>4, <1>5, <1>9, <2>1
  <2> QED BY <2>2, <2>3, InjectionIs
<1>11. n + 1 <= A!Cardinality(B) /\ A!Cardinality(B) \in Nat
  BY <1>7, <1>10, NumberedApart, FinitePlaces
<1>12. A!Cardinality(B) > n
  BY <1>11
<1> QED BY <1>1, <1>2, <1>7, <1>12 DEF A!CrowdAt, A!BucketsIn, A!LimiterOf

LEMMA PassesStay ==
  ASSUME A!AdmissionAssumption, A!TypeOK, A!TypeOK', A!PlacesAreTaken, A!HitsArePasses, A!PassesAreHits,
         NEW r \in Request, IsCounted(r)
  PROVE  A!PassesAreHits'
<1> SUFFICES ASSUME NEW k \in DOMAIN Limit, NEW c \in A!Names, A!Sheltered(k, c)' # {}
             PROVE  \E i \in DOMAIN windows'[k] : A!KeptIn(k, c, windows[k][i])'
  BY DEF A!PassesAreHits
<1>1. PICK l \in DOMAIN Limit, b \in A!Names : l = A!LimiterOf(r) /\ b = A!Bucket(r)
  BY NamesAre
<1>2. PICK ws : ws = windows'[l]
  OBVIOUS
<1>3. PICK all \in Seq(A!Buckets), hits \in Seq(Nat), left \in Seq(Nat) :
        \E m \in DOMAIN all : \E d \in 0 .. Len(all[m].hits) : Renews(l, b, all, m, d, hits, left, ws)
  BY <1>1, <1>2, CountsRenew
<1>4. PICK m \in DOMAIN all :
        \E d \in 0 .. Len(all[m].hits) : Renews(l, b, all, m, d, hits, left, ws)
  BY <1>3
<1>5. PICK d \in 0 .. Len(all[m].hits) : Renews(l, b, all, m, d, hits, left, ws)
  BY <1>4
<1>6. /\ DOMAIN ws = DOMAIN all /\ m \in DOMAIN ws /\ ws[m].bucket = b /\ Distinct(ws)
      /\ \A j \in DOMAIN all \ {m} : ws[j] = all[j] /\ Sound(l, ws[j]) /\ ws[j].bucket # b
      /\ \/ KeepsRecent(windows[l], all)
         \/ ~A!Known(l, b) /\ \E h : h \in A!Injection(1 .. MaxBuckets, RecentNames(windows[l]))
  <2> HIDE <1>1, <1>2
  <2>1. Renews(l, b, all, m, d, hits, left, ws)
    BY <1>5
  <2> QED BY <2>1, ChecksLeave
<1>7. request'[r].bucket = b /\ request'[r].at = now /\ now' = now
  BY <1>1 DEF IsCounted
<1>8. A!Sheltered(k, c)' \subseteq A!Sheltered(k, c) \cup {r}
  BY CountedPasses
<1>9. r \in A!Sheltered(k, c)' => k = l /\ c = b
  BY <1>1, <1>7 DEF A!Sheltered, A!PassesOf, A!LimiterOf
<1>10. CASE k # l
  <2>1. windows'[k] = windows[k]
    BY <1>1, <1>10, CountsRenew
  <2>2. r \notin A!Sheltered(k, c)' /\ A!Sheltered(k, c)' \subseteq A!Sheltered(k, c)
    BY <1>8, <1>9, <1>10
  <2>3. PICK i \in DOMAIN windows[k] : A!KeptIn(k, c, windows[k][i])
    BY <2>2 DEF A!PassesAreHits
  <2>4. PICK w : w = windows[k][i] /\ w = windows'[k][i]
    BY <2>1
  <2>5. A!KeptIn(k, c, w)'
    BY <2>2, <2>3, <2>4, KeptOn
  <2> QED BY <2>1, <2>4, <2>5 DEF A!KeptIn
<1>11. CASE k = l /\ c # b
  <2>1. r \notin A!Sheltered(l, c)' /\ A!Sheltered(l, c)' \subseteq A!Sheltered(l, c)
    BY <1>8, <1>9, <1>11
  <2>2. PICK q \in A!Sheltered(l, c)' : q \in A!Sheltered(l, c)
    BY <1>11, <2>1
  <2>3. PICK i \in DOMAIN windows[l] : A!KeptIn(l, c, windows[l][i])
    BY <2>2 DEF A!PassesAreHits
  <2>4. A!Recent(windows[l][i])
    <3>1. PICK w \in A!Buckets : w = windows[l][i] /\ Sound(l, w)
      BY SoundWindows DEF A!TypeOK
    <3>2. PICK f \in A!Injection(A!Sheltered(l, c), DOMAIN w.hits) :
            \A p \in A!Sheltered(l, c) : w.hits[f[p]] = request[p].at
      BY <2>3, <3>1 DEF A!KeptIn
    <3>3. f[q] \in DOMAIN w.hits /\ w.hits[f[q]] = request[q].at
      BY <2>2, <3>2, InjectionIs
    <3>4. request[q].at + Window > now
      BY <2>2 DEF A!Sheltered, A!PassesOf, A!Within
    <3> QED BY <3>1, <3>3, <3>4, KeptIsRecent
  <2>5. KeepsRecent(windows[l], all)
    <3> SUFFICES ASSUME ~A!Known(l, b), NEW h \in A!Injection(1 .. MaxBuckets, RecentNames(windows[l]))
                 PROVE  FALSE
      BY <1>6
    <3>1. A!CrowdAt(l, now)'
      BY <1>1, ForgettingIsCrowded
    <3>2. now \in 0 .. now /\ now \in Nat
      BY DEF A!TypeOK
    <3>3. now' < request'[q].at /\ request'[q].at <= now'
      <4>1. /\ q \in A!PassesOf(l, c, now)'
            /\ \A e \in 0 .. now' : A!CrowdAt(l, e)' => e < request'[q].at
        BY <2>2 DEF A!Sheltered
      <4>2. request'[q].at <= now'
        BY <4>1 DEF A!PassesOf, A!Within
      <4>3. PICK t : t = now /\ t = now'
        BY <1>7
      <4>4. A!CrowdAt(l, t)'
        BY <3>1, <4>3 DEF A!CrowdAt, A!BucketsIn, A!Within
      <4> QED BY <3>2, <4>1, <4>2, <4>3, <4>4
    <3>4. request'[q].at \in Nat
      BY <2>2 DEF A!TypeOK, A!Requests, A!Sheltered, A!PassesOf
    <3> QED BY <1>7, <3>2, <3>3, <3>4
  <2>6. PICK j \in DOMAIN all : all[j] = windows[l][i]
    BY <2>4, <2>5 DEF KeepsRecent
  <2>7. ws[j] = windows[l][i]
    <3>1. all[j].bucket = c /\ all[m].bucket = b
      BY <1>5, <2>3, <2>6 DEF A!KeptIn, Renews, CheckSees
    <3> QED BY <1>6, <1>11, <2>6, <3>1
  <2>8. PICK w : w = ws[j] /\ w = windows[l][i]
    BY <2>7
  <2>9. A!KeptIn(l, c, w)'
    BY <2>1, <2>3, <2>8, KeptOn
  <2>10. j \in DOMAIN windows'[l] /\ A!KeptIn(l, c, windows[l][j])'
    BY <1>2, <1>6, <2>8, <2>9 DEF A!KeptIn
  <2> QED BY <1>11, <2>10
<1>12. CASE k = l /\ c = b
  <2>1. PICK S : S = A!Sheltered(l, b)
    OBVIOUS
  <2>2. PICK T : T = A!Sheltered(l, b)' /\ T \subseteq S \cup {r}
    BY <1>8, <1>12, <2>1
  <2>3. CheckSees(l, b, all, m, d, hits)
    BY <1>5 DEF Renews
  <2>4. PICK f \in A!Injection(S, DOMAIN hits) : \A q \in S : hits[f[q]] = request[q].at
    BY <2>1, <2>3, ShelteredAreLeft
  <2>5. f \in [S -> DOMAIN hits] /\ \A x, y \in S : f[x] = f[y] => x = y
    BY <2>4, InjectionIs
  <2>6. r \notin S /\ \A q \in S : q \in Request
    BY <2>1, CountedPasses DEF A!Sheltered, A!PassesOf
  <2>7. \A q \in T \ {r} : q \in S /\ request'[q].at = request[q].at
    BY <2>2, <2>6 DEF IsCounted
  <2>8. PICK n \in Nat : n = Len(hits) /\ DOMAIN hits = 1 .. n /\ n + 1 \notin DOMAIN hits
    <3>1. PICK n \in Nat : n = Len(hits) /\ DOMAIN hits = 1 .. n
      OBVIOUS
    <3>2. n + 1 \notin 1 .. n
      OBVIOUS
    <3> QED BY <3>1, <3>2
  <2>9. DOMAIN hits \subseteq DOMAIN left /\ \A i \in DOMAIN hits : left[i] = hits[i]
    <3>1. CASE Len(hits) < Limit[l]
      BY <1>5, <2>8, <3>1 DEF Renews
    <3>2. CASE ~(Len(hits) < Limit[l])
      BY <1>5, <3>2 DEF Renews
    <3> QED BY <3>1, <3>2
  <2>10. ASSUME r \in T PROVE n + 1 \in DOMAIN left /\ left[n + 1] = now
    <3>1. A!Passed(r)'
      BY <2>2, <2>10 DEF A!Sheltered, A!PassesOf
    <3>2. Len(hits) < Limit[l]
      BY <1>1, <2>3, <3>1, CountedPasses DEF CheckSees
    <3> QED BY <1>5, <2>8, <3>2 DEF Renews
  <2>11. PICK h : h = [q \in T |-> IF q = r THEN n + 1 ELSE f[q]]
    OBVIOUS
  <2>12. h \in A!Injection(T, DOMAIN left)
    <3>1. h \in [T -> DOMAIN left]
      BY <2>5, <2>7, <2>9, <2>10, <2>11
    <3>2. \A x, y \in T : h[x] = h[y] => x = y
      BY <2>5, <2>7, <2>8, <2>11
    <3> QED BY <3>1, <3>2, InjectionIs
  <2>13. ASSUME NEW q \in T PROVE left[h[q]] = request'[q].at
    <3>1. CASE q = r
      BY <1>7, <2>10, <2>11, <2>13, <3>1
    <3>2. CASE q # r
      <4>1. q \in S /\ h[q] = f[q] /\ f[q] \in DOMAIN hits
        BY <2>5, <2>7, <2>11, <3>2
      <4> QED BY <2>4, <2>7, <2>9, <3>2, <4>1
    <3> QED BY <3>1, <3>2
  <2>14. PICK w : w = ws[m] /\ w.bucket = b /\ w.hits = left
    BY <1>5, <1>6 DEF Renews
  <2>15. A!KeptIn(l, b, w)'
    BY <2>2, <2>12, <2>13, <2>14 DEF A!KeptIn
  <2>16. m \in DOMAIN windows'[l] /\ A!KeptIn(l, b, windows[l][m])'
    BY <1>2, <1>6, <2>14, <2>15 DEF A!KeptIn
  <2> QED BY <1>12, <2>16
<1> QED BY <1>10, <1>11, <1>12

\* A caller refused has as many passes in the window as its limit.
LEMMA RefusalsStay ==
  ASSUME A!AdmissionAssumption, A!TypeOK, A!TypeOK', A!PlacesAreTaken, A!HitsArePasses, A!RefusedAtTheLimit,
         NEW r \in Request, IsCounted(r)
  PROVE  A!RefusedAtTheLimit'
<1> SUFFICES ASSUME NEW q \in Request, request'[q].bucket # None, request'[q].pc = "429",
                    request'[q].at = now
             PROVE  \E g \in A!Injection(1 .. Limit[A!LimiterOf(q)], Request) :
                      \A j \in 1 .. Limit[A!LimiterOf(q)] :
                        g[j] \in A!PassesOf(A!LimiterOf(q), request[q].bucket, now)'
  BY DEF A!RefusedAtTheLimit, A!LimiterOf, IsCounted
<1>1. \A l, b : A!PassesOf(l, b, now) \subseteq A!PassesOf(l, b, now)'
  BY CountedPasses
<1>2. CASE q # r
  <2>1. request'[q] = request[q]
    BY <1>2 DEF IsCounted
  <2>2. PICK l, b : l = A!LimiterOf(q) /\ b = request[q].bucket
    OBVIOUS
  <2>3. PICK g \in A!Injection(1 .. Limit[l], Request) :
          \A j \in 1 .. Limit[l] : g[j] \in A!PassesOf(l, b, now)
    BY <2>1, <2>2 DEF A!RefusedAtTheLimit
  <2>4. \A j \in 1 .. Limit[l] : g[j] \in A!PassesOf(l, b, now)'
    BY <1>1, <2>3
  <2> QED BY <2>1, <2>2, <2>3, <2>4 DEF A!PassesOf
<1>3. CASE q = r
  <2>1. PICK l \in DOMAIN Limit, b \in A!Names : l = A!LimiterOf(r) /\ b = A!Bucket(r)
    BY NamesAre
  <2>2. PICK all \in Seq(A!Buckets), hits \in Seq(Nat) :
          \E m \in DOMAIN all : \E d \in 0 .. Len(all[m].hits) : CheckSees(l, b, all, m, d, hits)
    BY CheckIs, SoundWindows
  <2>3. PICK m \in DOMAIN all : \E d \in 0 .. Len(all[m].hits) : CheckSees(l, b, all, m, d, hits)
    BY <2>2
  <2>4. PICK d \in 0 .. Len(all[m].hits) : CheckSees(l, b, all, m, d, hits)
    BY <2>3
  <2>5. PICK v : v = [bucket |-> b, hits |-> hits]
    OBVIOUS
  <2>6. v.hits = hits /\ v.bucket = b
    BY <2>5
  <2>7. Sound(l, v)
    <3>1. Sound(l, all[m]) /\ all[m].bucket = b /\ all[m] \in A!Buckets
      BY <2>4, CheckedAreSound DEF CheckSees
    <3>2. Len(hits) = Len(all[m].hits) - d /\ \A i \in 1 .. Len(hits) : hits[i] = all[m].hits[i + d]
      BY <2>4 DEF CheckSees
    <3> QED BY <2>5, <3>1, <3>2, LeftAreSound
  <2>8. PICK g \in A!Injection(DOMAIN hits, Request) : \A j \in DOMAIN hits :
          /\ A!Passed(g[j]) /\ A!LimiterOf(g[j]) = l
          /\ request[g[j]].bucket = b /\ request[g[j]].at = hits[j]
    BY <2>6, <2>7 DEF Sound, A!BackedBy
  <2>9. PICK n \in Nat \ {0} : n = Limit[l] /\ 1 .. n \subseteq DOMAIN hits
    <3>1. ~(Len(hits) < Limit[l])
      BY <1>3, <2>1, <2>4 DEF IsCounted, CheckSees
    <3>2. PICK n \in Nat \ {0} : n = Limit[l]
      BY GateNumbers
    <3>3. PICK k \in Nat : k = Len(hits) /\ DOMAIN hits = 1 .. k
      OBVIOUS
    <3>4. 1 .. n \subseteq 1 .. k
      BY <3>1, <3>2, <3>3
    <3> QED BY <3>2, <3>3, <3>4
  <2>10. ASSUME NEW j \in DOMAIN hits PROVE g[j] \in A!PassesOf(l, b, now)
    <3>1. g[j] \in Request
      BY <2>8, InjectionIs
    <3>2. request[g[j]].at <= now /\ request[g[j]].at = hits[j]
      BY <2>8, <3>1 DEF A!PlacesAreTaken
    <3>3. hits[j] + Window > now
      <4>1. 1 \in DOMAIN hits /\ 1 <= j
        OBVIOUS
      <4>2. hits[1] <= hits[j] /\ hits[1] \in Nat /\ hits[j] \in Nat
        BY <2>6, <2>7, <4>1 DEF Sound
      <4>3. hits[1] + Window > now
        BY <2>4, <4>1 DEF CheckSees
      <4>4. now \in Nat /\ Window \in Nat
        BY GateNumbers DEF A!TypeOK
      <4> QED BY <4>2, <4>3, <4>4
    <3> QED BY <2>8, <3>1, <3>2, <3>3 DEF A!PassesOf, A!Within
  <2>11. PICK h : h = [j \in 1 .. n |-> g[j]] /\ h \in A!Injection(1 .. n, Request)
    BY <2>8, <2>9, RestrictedIs
  <2>12. \A j \in 1 .. n : h[j] \in A!PassesOf(l, b, now)'
    BY <1>1, <2>9, <2>10, <2>11
  <2>13. l = A!LimiterOf(q) /\ request'[q].bucket = b
    BY <1>3, <2>1 DEF IsCounted
  <2> QED BY <2>9, <2>11, <2>12, <2>13 DEF A!PassesOf, A!LimiterOf
<1> QED BY <1>2, <1>3

-----------------------------------------------------------------------------
(* The places and the types *)

GateHeld(x) == x.pc \in {"received", "running"}

\* A place is taken as a request comes in and given back as it leaves.
LEMMA OneRequest ==
  ASSUME A!TypeOK, A!PlacesAreTaken, NEW r \in Request, NEW x \in A!Requests, A!Becomes(r, x),
         now' = now, x.at <= now, x.pc \in {"unsent", "never", "received"} => x.bucket = None,
         \/ ~GateHeld(request[r]) /\ GateHeld(x) /\ inFlight' = inFlight + 1
         \/ GateHeld(request[r]) /\ ~GateHeld(x) /\ inFlight' = inFlight - 1
         \/ (GateHeld(request[r]) <=> GateHeld(x)) /\ inFlight' = inFlight
  PROVE  /\ request' \in [Request -> A!Requests] /\ inFlight' \in Nat
         /\ A!IsFiniteSet(A!Inside') /\ A!IsFiniteSet(A!BucketedRequests')
         /\ A!PlacesAreTaken'
<1>1. /\ request' \in [Request -> A!Requests] /\ request'[r] = x
      /\ \A q \in Request \ {r} : request'[q] = request[q]
  BY BecomesIs
<1>2. PICK was, is : was = A!Inside /\ is = A!Inside'
  OBVIOUS
<1>3. A!IsFiniteSet(was) /\ inFlight = A!Cardinality(was) /\ inFlight \in Nat
  BY <1>2 DEF A!TypeOK, A!PlacesAreTaken
<1>4. /\ \A q \in Request \ {r} : q \in is <=> q \in was
      /\ r \in was <=> GateHeld(request[r])
      /\ r \in is <=> GateHeld(x)
      /\ was \subseteq Request /\ is \subseteq Request
  BY <1>1, <1>2 DEF A!Inside, GateHeld
<1>5. A!IsFiniteSet(is) /\ inFlight' = A!Cardinality(is)
  <2>1. CASE r \notin was /\ r \in is /\ inFlight' = inFlight + 1
    <3>1. is = was \cup {r}
      BY <1>4, <2>1
    <3> QED BY <1>3, <2>1, <3>1, FinitePlaces
  <2>2. CASE r \in was /\ r \notin is /\ inFlight' = inFlight - 1
    <3>1. is = was \ {r}
      BY <1>4, <2>2
    <3> QED BY <1>3, <2>2, <3>1, FinitePlaces
  <2>3. CASE (r \in was <=> r \in is) /\ inFlight' = inFlight
    <3>1. is = was
      BY <1>4, <2>3
    <3> QED BY <1>3, <2>3, <3>1
  <2> QED BY <1>4, <2>1, <2>2, <2>3
<1>6. inFlight' \in Nat
  BY <1>5, FinitePlaces
<1>7. A!IsFiniteSet(A!BucketedRequests')
  <2>1. A!BucketedRequests' \subseteq A!BucketedRequests \cup {r}
    BY <1>1 DEF A!BucketedRequests
  <2>2. A!IsFiniteSet(A!BucketedRequests \cup {r})
    BY FinitePlaces DEF A!TypeOK
  <2> QED BY <2>1, <2>2, FinitePlaces
<1>8. /\ \A q \in Request : request'[q].at <= now'
      /\ \A q \in Request : request'[q].pc \in {"unsent", "never", "received"} => request'[q].bucket = None
  <2>1. ASSUME NEW q \in Request
        PROVE  /\ request'[q].at <= now'
               /\ request'[q].pc \in {"unsent", "never", "received"} => request'[q].bucket = None
    <3>1. CASE q = r
      BY <1>1, <3>1
    <3>2. CASE q # r
      BY <1>1, <3>2 DEF A!PlacesAreTaken
    <3> QED BY <3>1, <3>2
  <2> QED BY <2>1
<1> QED BY <1>1, <1>2, <1>5, <1>6, <1>7, <1>8 DEF A!PlacesAreTaken

LEMMA CheckTyped ==
  ASSUME A!AdmissionAssumption, A!TypeOK, A!HitsArePasses, NEW l \in DOMAIN Limit, NEW b \in A!Names
  PROVE  A!Check(l, b).all \in Seq(A!Buckets)
<1>1. PICK all \in Seq(A!Buckets), hits \in Seq(Nat) :
        \E m \in DOMAIN all : \E d \in 0 .. Len(all[m].hits) : CheckSees(l, b, all, m, d, hits)
  BY CheckIs, SoundWindows
<1>2. PICK m \in DOMAIN all : \E d \in 0 .. Len(all[m].hits) : CheckSees(l, b, all, m, d, hits)
  BY <1>1
<1>3. PICK d \in 0 .. Len(all[m].hits) : CheckSees(l, b, all, m, d, hits)
  BY <1>2
<1>4. PICK left \in Seq(Nat) : left = IF Len(hits) < Limit[l] THEN Append(hits, now) ELSE hits
  <2>1. Append(hits, now) \in Seq(Nat)
    <3>1. now \in Nat
      BY DEF A!TypeOK
    <3> QED BY <3>1, AppendProperties
  <2> QED BY <2>1
<1>5. PICK w \in A!Buckets : w = [bucket |-> b, hits |-> left]
  BY DEF A!Buckets
<1>6. A!Check(l, b).all = [all EXCEPT ![m] = w]
  BY <1>3, <1>4, <1>5 DEF CheckSees
<1>7. [all EXCEPT ![m] = w] \in Seq(A!Buckets)
  OBVIOUS
<1> QED BY <1>6, <1>7

\* The calls a reservation goes by, and those it leaves counted.
Keeps(kept, d) ==
  /\ Len(kept) = Len(calls) - d /\ \A i \in 1 .. Len(kept) : kept[i] = calls[i + d]
  /\ \A i \in 1 .. d : calls[i] + ModelHour <= now

LEMMA ReserveIs ==
  ASSUME A!AdmissionAssumption, A!TypeOK, NEW key
  PROVE  /\ A!Reserve(key).calls \in Seq(Nat)
         /\ \/ /\ Ceiling = 0 \/ ~A!UsesServerKey(key)
               /\ A!Reserve(key).ok = TRUE /\ A!Reserve(key).calls = calls
            \/ /\ Ceiling > 0 /\ A!UsesServerKey(key)
               /\ \E kept \in Seq(Nat) : \E d \in 0 .. Len(calls) :
                    /\ Keeps(kept, d)
                    /\ \/ Len(kept) >= Ceiling /\ A!Reserve(key).ok = FALSE /\ A!Reserve(key).calls = kept
                       \/ Len(kept) < Ceiling /\ A!Reserve(key).ok = TRUE
                             /\ A!Reserve(key).calls = Append(kept, now)
<1>0. now \in Nat /\ ModelHour \in Nat /\ calls \in Seq(Nat) /\ Ceiling \in Nat
  BY GateNumbers DEF A!TypeOK
<1>1. CASE Ceiling = 0 \/ ~A!UsesServerKey(key)
  BY <1>0, <1>1 DEF A!Reserve
<1>2. CASE ~(Ceiling = 0 \/ ~A!UsesServerKey(key))
  <2>1. PICK d \in 0 .. Len(calls) :
           /\ A!Since(calls, ModelHour) \in Seq(Nat) /\ Len(A!Since(calls, ModelHour)) = Len(calls) - d
           /\ \A i \in 1 .. Len(calls) - d : A!Since(calls, ModelHour)[i] = calls[i + d]
           /\ \A i \in 1 .. d : calls[i] + ModelHour <= now
    BY <1>0, SinceIs
  <2>2. PICK kept \in Seq(Nat) : kept = A!Since(calls, ModelHour)
    BY <2>1
  <2>3. Keeps(kept, d)
    BY <2>1, <2>2 DEF Keeps
  <2>4. Append(kept, now) \in Seq(Nat)
    BY <1>0, AppendProperties
  <2>5. Len(kept) \in Nat
    OBVIOUS
  <2>6. CASE Len(kept) >= Ceiling
    <3>1. A!Reserve(key) = [ok |-> FALSE, calls |-> kept]
      BY <1>2, <2>2, <2>6 DEF A!Reserve
    <3>2. A!Reserve(key).ok = FALSE /\ A!Reserve(key).calls = kept
      BY <3>1
    <3> QED BY <1>0, <1>2, <2>3, <2>6, <3>2
  <2>7. CASE ~(Len(kept) >= Ceiling)
    <3>1. A!Reserve(key) = [ok |-> TRUE, calls |-> Append(kept, now)]
      BY <1>2, <2>2, <2>7 DEF A!Reserve
    <3>2. A!Reserve(key).ok = TRUE /\ A!Reserve(key).calls = Append(kept, now)
      BY <3>1
    <3>3. Len(kept) < Ceiling /\ Ceiling > 0
      BY <1>0, <1>2, <2>5, <2>7
    <3> QED BY <1>2, <2>3, <2>4, <3>2, <3>3
  <2> QED BY <2>6, <2>7
<1> QED BY <1>1, <1>2

\* Nothing the limiters go by moves.
Calm ==
  /\ UNCHANGED <<now, windows>>
  /\ \A q \in Request :
       /\ request'[q].bucket = request[q].bucket
       /\ request[q].bucket # None =>
            request'[q].at = request[q].at /\ (request'[q].pc = "429" <=> request[q].pc = "429")

\* A step of a request that the limiters do not see.
LEMMA CalmStep ==
  ASSUME A!AdmissionAssumption, A!TypeOK, A!PlacesAreTaken, NEW r \in Request, NEW x \in A!Requests, A!Becomes(r, x),
         x.at <= now, x.bucket = request[r].bucket,
         request[r].bucket # None => x.at = request[r].at /\ (x.pc = "429" <=> request[r].pc = "429"),
         x.pc \in {"unsent", "never", "received"} => x.bucket = None,
         \/ ~GateHeld(request[r]) /\ GateHeld(x) /\ inFlight' = inFlight + 1
         \/ GateHeld(request[r]) /\ ~GateHeld(x) /\ inFlight' = inFlight - 1
         \/ (GateHeld(request[r]) <=> GateHeld(x)) /\ inFlight' = inFlight,
         UNCHANGED <<now, demo, credentials, windows>>,
         calls' \in Seq(Nat), posted' \subseteq A!Posts, A!IsFiniteSet(posted')
  PROVE  A!TypeOK' /\ A!PlacesAreTaken' /\ Calm
<1>1. /\ request' \in [Request -> A!Requests] /\ inFlight' \in Nat
      /\ A!IsFiniteSet(A!Inside') /\ A!IsFiniteSet(A!BucketedRequests')
      /\ A!PlacesAreTaken'
  BY OneRequest
<1>2. /\ request'[r] = x
      /\ \A q \in Request \ {r} : request'[q] = request[q]
  BY BecomesIs
<1>3. Calm
  <2>1. ASSUME NEW q \in Request
        PROVE  /\ request'[q].bucket = request[q].bucket
               /\ request[q].bucket # None =>
                    request'[q].at = request[q].at
                      /\ (request'[q].pc = "429" <=> request[q].pc = "429")
    <3>1. CASE q = r
      BY <1>2, <3>1
    <3>2. CASE q # r
      BY <1>2, <3>2
    <3> QED BY <3>1, <3>2
  <2> QED BY <2>1 DEF Calm
<1> QED BY <1>1, <1>3 DEF A!TypeOK

LEMMA CountedStep ==
  ASSUME A!AdmissionAssumption, A!TypeOK, A!PlacesAreTaken, A!HitsArePasses, NEW r \in Request,
         request[r].pc = "received",
         NEW status \in A!Stages \ {"unsent", "never", "received"}, NEW client \in A!Clients,
         A!Becomes(r, A!Stage(status, now, A!Bucket(r), client)),
         status = "429" <=> ~A!Check(A!LimiterOf(r), A!Bucket(r)).ok,
         windows' = [windows EXCEPT ![A!LimiterOf(r)] = A!Check(A!LimiterOf(r), A!Bucket(r)).all],
         inFlight' = IF status = "running" THEN inFlight ELSE inFlight - 1,
         UNCHANGED <<now, demo, credentials, calls, posted>>
  PROVE  A!TypeOK' /\ A!PlacesAreTaken' /\ IsCounted(r)
<1>1. PICK x \in A!Requests : /\ x = A!Stage(status, now, A!Bucket(r), client) /\ x.pc = status /\ x.at = now
                            /\ x.bucket = A!Bucket(r)
  <2>1. now \in Nat /\ A!Bucket(r) \in A!Names \cup {None} /\ status \in A!Stages
    BY NamesAre DEF A!TypeOK
  <2> QED BY <2>1, StageIs
<1>2. GateHeld(request[r]) /\ (GateHeld(x) <=> status = "running")
  BY <1>1 DEF GateHeld
<1>3. /\ request' \in [Request -> A!Requests] /\ inFlight' \in Nat
      /\ A!IsFiniteSet(A!Inside') /\ A!IsFiniteSet(A!BucketedRequests')
      /\ A!PlacesAreTaken'
  <2>1. now <= now
    BY DEF A!TypeOK
  <2> QED BY <1>1, <1>2, <2>1, OneRequest
<1>4. request'[r] = x /\ \A q \in Request \ {r} : request'[q] = request[q]
  BY <1>1, BecomesIs
<1>5. windows' \in [DOMAIN Limit -> Seq(A!Buckets)]
  <2>1. A!Check(A!LimiterOf(r), A!Bucket(r)).all \in Seq(A!Buckets)
    BY NamesAre, CheckTyped
  <2>2. windows \in [DOMAIN Limit -> Seq(A!Buckets)]
    BY DEF A!TypeOK
  <2> QED BY <2>1, <2>2
<1>6. A!TypeOK'
  BY <1>3, <1>5 DEF A!TypeOK
<1>7. request[r].bucket = None
  BY DEF A!PlacesAreTaken
<1> QED BY <1>1, <1>3, <1>4, <1>6, <1>7 DEF IsCounted

LEMMA GateTypes ==
  ASSUME A!AdmissionAssumption, A!TypeOK, A!PlacesAreTaken, A!HitsArePasses, A!Next
  PROVE  A!TypeOK' /\ A!PlacesAreTaken' /\ (Calm \/ (\E r \in Request : IsCounted(r)) \/ A!Tick)
<1>0. /\ now \in Nat /\ inFlight \in Nat /\ calls \in Seq(Nat) /\ posted \subseteq A!Posts
      /\ A!IsFiniteSet(posted) /\ request \in [Request -> A!Requests]
  BY DEF A!TypeOK
<1>1. ASSUME NEW r \in Request, NEW status \in A!Stages \ {"429"}, A!Answer(r, status),
             request[r].bucket = None,
             \/ ~GateHeld(request[r]) /\ status = "received" /\ inFlight' = inFlight + 1
             \/ GateHeld(request[r]) /\ status \notin {"received", "running"} /\ inFlight' = inFlight - 1
             \/ ~GateHeld(request[r]) /\ status \notin {"received", "running"} /\ inFlight' = inFlight,
             UNCHANGED <<now, demo, credentials, windows, calls, posted>>
      PROVE  A!TypeOK' /\ A!PlacesAreTaken' /\ Calm
  <2>1. PICK x \in A!Requests : /\ x = A!Stage(status, now, None, None) /\ x.pc = status /\ x.at = now
                              /\ x.bucket = None
    <3>1. None \in A!Names \cup {None} /\ None \in A!Clients /\ status \in A!Stages
      BY DEF A!Clients
    <3>2. /\ A!Stage(status, now, None, None) \in A!Requests
          /\ A!Stage(status, now, None, None).pc = status /\ A!Stage(status, now, None, None).at = now
          /\ A!Stage(status, now, None, None).bucket = None
      <4>1. PICK n \in Nat, b \in A!Names \cup {None}, c \in A!Clients : n = now /\ b = None /\ c = None
        BY <1>0, <3>1
      <4>2. PICK y \in A!Stages : y = status
        BY <3>1
      <4>3. /\ A!Stage(y, n, b, c) \in A!Requests
            /\ A!Stage(y, n, b, c).pc = y /\ A!Stage(y, n, b, c).at = n
            /\ A!Stage(y, n, b, c).bucket = b
        <5> HIDE <4>1, <4>2
        <5> QED BY StageIs
      <4> QED BY <4>1, <4>2, <4>3
    <3> QED BY <3>2
  <2>2. A!Becomes(r, x)
    BY <1>1, <2>1 DEF A!Answer
  <2>3. GateHeld(x) <=> status \in {"received", "running"}
    BY <2>1 DEF GateHeld
  <2>4. x.at <= now
    BY <1>0, <2>1
  <2> QED BY <1>0, <1>1, <2>1, <2>2, <2>3, <2>4, CalmStep
<1>2. ASSUME NEW r \in Request, A!Receive(r) PROVE A!TypeOK' /\ A!PlacesAreTaken' /\ Calm
  <2>1. request[r].pc = "unsent" /\ request[r].bucket = None /\ ~GateHeld(request[r])
    BY <1>2 DEF A!Receive, A!PlacesAreTaken, GateHeld
  <2>2. UNCHANGED <<now, demo, credentials, windows, calls, posted>>
    BY <1>2 DEF A!Receive
  <2>3. PICK status \in {"413", "400", "503", "received"} :
          /\ A!Answer(r, status)
          /\ inFlight' = IF status = "received" THEN inFlight + 1 ELSE inFlight
    BY <1>2 DEF A!Receive
  <2>4. status \in A!Stages \ {"429"}
    BY <2>3 DEF A!Stages
  <2> QED BY <1>1, <2>1, <2>2, <2>3, <2>4
<1>3. ASSUME NEW r \in Request, A!TooLarge(r) PROVE A!TypeOK' /\ A!PlacesAreTaken' /\ Calm
  <2>1. request[r].pc = "received" /\ request[r].bucket = None /\ GateHeld(request[r])
    BY <1>3 DEF A!TooLarge, A!PlacesAreTaken, GateHeld
  <2>2. /\ A!Answer(r, "413") /\ inFlight' = inFlight - 1
        /\ UNCHANGED <<now, demo, credentials, windows, calls, posted>>
    BY <1>3 DEF A!TooLarge, A!Refuse
  <2>3. "413" \in A!Stages \ {"429"} /\ "413" \notin {"received", "running"}
    BY DEF A!Stages
  <2> QED BY <1>1, <2>1, <2>2, <2>3
<1>4. ASSUME NEW r \in Request, A!Admit(r) PROVE A!TypeOK' /\ A!PlacesAreTaken' /\ IsCounted(r)
  <2>1. /\ request[r].pc = "received"
        /\ windows' = [windows EXCEPT ![A!LimiterOf(r)] = A!Check(A!LimiterOf(r), A!Bucket(r)).all]
        /\ UNCHANGED <<now, demo, credentials, calls, posted>>
    BY <1>4 DEF A!Admit
  <2>2. \/ ~A!Check(A!LimiterOf(r), A!Bucket(r)).ok /\ A!Counted(r, "429")
        \/ A!Check(A!LimiterOf(r), A!Bucket(r)).ok /\ A!Counted(r, "403")
        \/ A!Check(A!LimiterOf(r), A!Bucket(r)).ok /\ A!Start(r)
    BY <1>4 DEF A!Admit
  <2>3. PICK status \in {"429", "403", "running"}, client \in A!Clients :
          /\ A!Becomes(r, A!Stage(status, now, A!Bucket(r), client))
          /\ status = "429" <=> ~A!Check(A!LimiterOf(r), A!Bucket(r)).ok
          /\ inFlight' = IF status = "running" THEN inFlight ELSE inFlight - 1
    <3>1. CASE ~A!Check(A!LimiterOf(r), A!Bucket(r)).ok /\ A!Counted(r, "429")
      BY <3>1 DEF A!Counted, A!Clients
    <3>2. CASE A!Check(A!LimiterOf(r), A!Bucket(r)).ok /\ A!Counted(r, "403")
      BY <3>2 DEF A!Counted, A!Clients
    <3>3. CASE A!Check(A!LimiterOf(r), A!Bucket(r)).ok /\ A!Start(r)
      <4>1. (IF Sends[r].route = "ip" THEN A!EffectiveKey(r) ELSE A!Client(r)) \in A!Clients
        BY NamesAre
      <4> QED BY <3>3, <4>1 DEF A!Start
    <3> QED BY <2>2, <3>1, <3>2, <3>3
  <2>4. status \in A!Stages \ {"unsent", "never", "received"}
    BY <2>3 DEF A!Stages
  <2> QED BY <2>1, <2>3, <2>4, CountedStep
<1>5. ASSUME NEW r \in Request, A!AdmitToLab(r)
      PROVE  A!TypeOK' /\ A!PlacesAreTaken' /\ (Calm \/ IsCounted(r))
  <2>1. /\ request[r].pc = "received" /\ request[r].bucket = None /\ GateHeld(request[r])
        /\ A!LimiterOf(r) = "ip" /\ A!Bucket(r) = Sends[r].ip
        /\ UNCHANGED <<now, demo, credentials, calls, posted>>
    BY <1>5 DEF A!AdmitToLab, A!PlacesAreTaken, GateHeld, A!LimiterOf, A!Bucket
  <2>2. CASE A!Refuse(r, "403") /\ UNCHANGED windows
    <3>1. A!Answer(r, "403") /\ inFlight' = inFlight - 1
      BY <2>2 DEF A!Refuse
    <3>2. "403" \in A!Stages \ {"429"} /\ "403" \notin {"received", "running"}
      BY DEF A!Stages
    <3> QED BY <1>1, <2>1, <2>2, <3>1, <3>2
  <2>3. CASE ~(A!Refuse(r, "403") /\ UNCHANGED windows)
    <3>1. windows' = [windows EXCEPT ![A!LimiterOf(r)] = A!Check(A!LimiterOf(r), A!Bucket(r)).all]
      BY <1>5, <2>1, <2>3 DEF A!AdmitToLab
    <3>2. \/ ~A!Check(A!LimiterOf(r), A!Bucket(r)).ok /\ A!Counted(r, "429")
          \/ A!Check(A!LimiterOf(r), A!Bucket(r)).ok /\ A!LabRefusal(r) # "none" /\ A!Counted(r, A!LabRefusal(r))
          \/ A!Check(A!LimiterOf(r), A!Bucket(r)).ok /\ A!Start(r)
      BY <1>5, <2>1, <2>3 DEF A!AdmitToLab
    <3>3. A!LabRefusal(r) \in {"403", "429 model", "400", "429 slots", "none"}
      BY DEF A!LabRefusal
    <3>4. PICK status \in {"429", "403", "429 model", "400", "429 slots", "running"}, client \in A!Clients :
            /\ A!Becomes(r, A!Stage(status, now, A!Bucket(r), client))
            /\ status = "429" <=> ~A!Check(A!LimiterOf(r), A!Bucket(r)).ok
            /\ inFlight' = IF status = "running" THEN inFlight ELSE inFlight - 1
      <4>1. CASE ~A!Check(A!LimiterOf(r), A!Bucket(r)).ok /\ A!Counted(r, "429")
        BY <4>1 DEF A!Counted, A!Clients
      <4>2. CASE A!Check(A!LimiterOf(r), A!Bucket(r)).ok /\ A!LabRefusal(r) # "none" /\ A!Counted(r, A!LabRefusal(r))
        <5>1. PICK status \in {"403", "429 model", "400", "429 slots"} : status = A!LabRefusal(r)
          BY <3>3, <4>2
        <5>2. A!Becomes(r, A!Stage(status, now, A!Bucket(r), None)) /\ inFlight' = inFlight - 1
          BY <4>2, <5>1 DEF A!Counted
        <5>3. None \in A!Clients /\ status # "429" /\ status # "running"
          BY <5>1 DEF A!Clients
        <5> QED BY <4>2, <5>1, <5>2, <5>3
      <4>3. CASE A!Check(A!LimiterOf(r), A!Bucket(r)).ok /\ A!Start(r)
        <5>1. (IF Sends[r].route = "ip" THEN A!EffectiveKey(r) ELSE A!Client(r)) \in A!Clients
          BY NamesAre
        <5> QED BY <4>3, <5>1 DEF A!Start
      <4> QED BY <3>2, <4>1, <4>2, <4>3
    <3>5. status \in A!Stages \ {"unsent", "never", "received"}
      BY <3>4 DEF A!Stages
    <3> QED BY <2>1, <3>1, <3>4, <3>5, CountedStep
  <2> QED BY <2>2, <2>3
<1>6. ASSUME NEW r \in Request, A!Ask(r) PROVE A!TypeOK' /\ A!PlacesAreTaken' /\ Calm
  <2>1. /\ request[r].pc = "running" /\ request[r] \in A!Requests
        /\ request' = [request EXCEPT ![r].asked = @ + 1]
        /\ UNCHANGED <<now, demo, credentials, inFlight, windows>>
    BY <1>0, <1>6 DEF A!Ask
  <2>2. PICK x \in A!Requests : /\ x = [request[r] EXCEPT !.asked = @ + 1] /\ x.pc = "running"
                              /\ x.at = request[r].at /\ x.bucket = request[r].bucket
    <3>1. PICK y \in A!Requests : y = request[r] /\ y.pc = "running"
      BY <2>1
    <3>2. [y EXCEPT !.asked = @ + 1] \in A!Requests
      BY DEF A!Requests
    <3>3. PICK x \in A!Requests : x = [y EXCEPT !.asked = @ + 1]
      BY <3>2
    <3>4. x.pc = y.pc /\ x.at = y.at /\ x.bucket = y.bucket
      BY <3>3 DEF A!Requests
    <3> QED BY <3>1, <3>3, <3>4
  <2>3. A!Becomes(r, x)
    BY <2>1, <2>2 DEF A!Becomes
  <2>4. calls' \in Seq(Nat)
    BY <1>6, ReserveIs DEF A!Ask
  <2>5. posted' \subseteq A!Posts /\ A!IsFiniteSet(posted')
    <3>1. PICK p \in A!Posts : p = [by |-> r, nth |-> request[r].asked, key |-> request[r].client, at |-> now]
      BY <1>0, <2>1 DEF A!Posts, A!Requests
    <3>2. posted' = posted \/ posted' = posted \cup {p}
      BY <1>6, <3>1 DEF A!Ask
    <3> QED BY <1>0, <3>1, <3>2, FinitePlaces
  <2>6. x.at <= now /\ GateHeld(x) /\ GateHeld(request[r])
    BY <2>1, <2>2 DEF A!PlacesAreTaken, GateHeld
  <2> QED BY <2>1, <2>2, <2>3, <2>4, <2>5, <2>6, CalmStep
<1>7. ASSUME NEW r \in Request, A!Finish(r) PROVE A!TypeOK' /\ A!PlacesAreTaken' /\ Calm
  <2>1. /\ request[r].pc = "running" /\ request[r] \in A!Requests
        /\ request' = [request EXCEPT ![r].pc = "done"] /\ inFlight' = inFlight - 1
        /\ UNCHANGED <<now, demo, credentials, windows, calls, posted>>
    BY <1>0, <1>7 DEF A!Finish
  <2>2. PICK x \in A!Requests : /\ x = [request[r] EXCEPT !.pc = "done"] /\ x.pc = "done"
                              /\ x.at = request[r].at /\ x.bucket = request[r].bucket
    <3>1. PICK y \in A!Requests : y = request[r]
      BY <2>1
    <3>2. [y EXCEPT !.pc = "done"] \in A!Requests
      BY DEF A!Requests, A!Stages
    <3>3. PICK x \in A!Requests : x = [y EXCEPT !.pc = "done"]
      BY <3>2
    <3>4. x.pc = "done" /\ x.at = y.at /\ x.bucket = y.bucket
      BY <3>3 DEF A!Requests
    <3> QED BY <3>1, <3>3, <3>4
  <2>3. A!Becomes(r, x)
    BY <2>1, <2>2 DEF A!Becomes
  <2>4. x.at <= now /\ ~GateHeld(x) /\ GateHeld(request[r])
    BY <2>1, <2>2 DEF A!PlacesAreTaken, GateHeld
  <2> QED BY <1>0, <2>1, <2>2, <2>3, <2>4, CalmStep
<1>8. ASSUME NEW c \in Minted, A!Expire(c) PROVE A!TypeOK' /\ A!PlacesAreTaken' /\ Calm
  <2>1. credentials' \subseteq Minted /\ UNCHANGED <<now, demo, inFlight, windows, calls, request, posted>>
    BY <1>8 DEF A!Expire, A!TypeOK
  <2>2. A!TypeOK'
    BY <2>1 DEF A!TypeOK, A!Inside, A!BucketedRequests
  <2>3. A!PlacesAreTaken'
    BY <2>1 DEF A!PlacesAreTaken, A!Inside
  <2> QED BY <2>1, <2>2, <2>3 DEF Calm
<1>9. ASSUME A!Tick PROVE A!TypeOK' /\ A!PlacesAreTaken'
  <2>1. now' = now + 1 /\ UNCHANGED <<demo, credentials, inFlight, windows, calls, request, posted>>
    BY <1>9 DEF A!Tick
  <2>2. A!TypeOK'
    BY <1>0, <2>1 DEF A!TypeOK, A!Inside, A!BucketedRequests
  <2>3. \A q \in Request : request[q].at <= now + 1
    BY <1>0 DEF A!PlacesAreTaken, A!Requests
  <2> QED BY <2>1, <2>2, <2>3 DEF A!PlacesAreTaken, A!Inside
<1> QED BY <1>2, <1>3, <1>4, <1>5, <1>6, <1>7, <1>8, <1>9 DEF A!Next

-----------------------------------------------------------------------------
(* The budget *)

\* The calls that left on the deployment's key in the hour up to t, and those that
\* still count at n.
CallsIn(posts, t) == {p \in posts : p.key = ServerKey /\ p.at <= t /\ p.at + ModelHour > t}
StillSpent(posts, n) == {p \in posts : p.key = ServerKey /\ p.at + ModelHour > n}

LEMMA SpentIsBounded ==
  ASSUME A!AdmissionAssumption, NEW posts, NEW cs \in Seq(Nat), NEW n \in Nat,
         Len(cs) <= Ceiling, NEW f \in A!Injection(StillSpent(posts, n), DOMAIN cs)
  PROVE  A!Cardinality(CallsIn(posts, n)) <= Ceiling
<1>1. PICK k \in Nat : k = Len(cs) /\ DOMAIN cs = 1 .. k
  OBVIOUS
<1>2. PICK S, T : S = StillSpent(posts, n) /\ T = CallsIn(posts, n)
  OBVIOUS
<1>3. T \subseteq S
  BY <1>2 DEF StillSpent, CallsIn
<1>4. A!IsFiniteSet(S) /\ A!Cardinality(S) <= k
  BY <1>1, <1>2, NumberedApart
<1>5. A!Cardinality(T) <= A!Cardinality(S) /\ A!Cardinality(T) \in Nat /\ A!Cardinality(S) \in Nat
  BY <1>3, <1>4, FinitePlaces
<1>6. Ceiling \in Nat /\ k <= Ceiling
  BY <1>1, GateNumbers
<1> QED BY <1>2, <1>4, <1>5, <1>6

\* A model call is admitted and counted at once.
LEMMA AskCounts ==
  ASSUME A!AdmissionAssumption, A!TypeOK, A!PlacesAreTaken, A!PostsAreCounted, NEW r \in Request, A!Ask(r)
  PROVE  /\ A!PostsAreCounted'
         /\ posted \subseteq posted' /\ \A p \in posted' \ posted : p.at = now
<1>0. /\ now \in Nat /\ ModelHour \in Nat \ {0} /\ calls \in Seq(Nat) /\ Ceiling \in Nat /\ now' = now
  BY GateNumbers DEF A!TypeOK, A!Ask
<1>1. PICK key : key = request[r].client /\ key # None
  BY DEF A!Ask
<1>2. PICK p0 : p0 = [by |-> r, nth |-> request[r].asked, key |-> key, at |-> now]
  OBVIOUS
<1>3. p0.key = key /\ p0.at = now
  BY <1>2
<1>4. /\ calls' = A!Reserve(key).calls
      /\ posted' = IF A!Reserve(key).ok THEN posted \cup {p0} ELSE posted
  BY <1>1, <1>2 DEF A!Ask
<1>5. posted \subseteq posted' /\ \A p \in posted' \ posted : p = p0
  BY <1>4
<1>6. \A p \in posted' : p.at <= now' /\ p.key # None
  BY <1>0, <1>1, <1>3, <1>5 DEF A!PostsAreCounted
<1>7. ASSUME Ceiling > 0
      PROVE  /\ Len(calls') <= Ceiling
             /\ \E h \in A!Injection(A!Spent', DOMAIN calls') : \A p \in A!Spent' : calls'[h[p]] = p.at
  <2>1. PICK S : S = A!Spent
    OBVIOUS
  <2>2. PICK f \in A!Injection(S, DOMAIN calls) : \A p \in S : calls[f[p]] = p.at
    BY <1>7, <2>1 DEF A!PostsAreCounted
  <2>3. f \in [S -> DOMAIN calls] /\ \A x, y \in S : f[x] = f[y] => x = y
    BY <2>2, InjectionIs
  <2>4. PICK k \in Nat : k = Len(calls) /\ DOMAIN calls = 1 .. k /\ k <= Ceiling
    BY <1>0, <1>7 DEF A!PostsAreCounted
  <2>5. CASE ~A!UsesServerKey(key)
    <3>1. calls' = calls /\ p0.key # ServerKey
      BY <1>1, <1>3, <1>4, <2>5, ReserveIs DEF A!UsesServerKey
    <3>2. A!Spent' = S
      <4>1. \A p \in posted' \ posted : p.key # ServerKey
        BY <1>5, <3>1
      <4> QED BY <1>0, <1>5, <2>1, <4>1 DEF A!Spent
    <3> QED BY <2>2, <2>4, <3>1, <3>2
  <2>6. CASE A!UsesServerKey(key)
    <3>0. ~(Ceiling = 0 \/ ~A!UsesServerKey(key))
      BY <1>0, <1>7, <2>6
    <3>a. \E kept \in Seq(Nat) : \E d \in 0 .. Len(calls) :
            /\ Keeps(kept, d)
            /\ \/ Len(kept) >= Ceiling /\ A!Reserve(key).ok = FALSE /\ A!Reserve(key).calls = kept
               \/ Len(kept) < Ceiling /\ A!Reserve(key).ok = TRUE
                     /\ A!Reserve(key).calls = Append(kept, now)
      BY <3>0, ReserveIs
    <3>1. PICK kept \in Seq(Nat), d \in 0 .. Len(calls) :
            /\ Keeps(kept, d)
            /\ \/ Len(kept) >= Ceiling /\ A!Reserve(key).ok = FALSE /\ A!Reserve(key).calls = kept
               \/ Len(kept) < Ceiling /\ A!Reserve(key).ok = TRUE
                     /\ A!Reserve(key).calls = Append(kept, now)
      BY <3>a
    <3>2. PICK n \in Nat : n = Len(kept) /\ DOMAIN kept = 1 .. n /\ n = k - d /\ d \in Nat
      BY <2>4, <3>1 DEF Keeps
    <3>3. ASSUME NEW p \in S
          PROVE  f[p] \in Nat /\ f[p] - d \in 1 .. n /\ kept[f[p] - d] = p.at
      <4>1. p.at + ModelHour > now /\ f[p] \in 1 .. k /\ calls[f[p]] = p.at
        BY <2>1, <2>2, <2>3, <2>4 DEF A!Spent
      <4>2. f[p] \notin 1 .. d
        <5>1. ~(calls[f[p]] + ModelHour <= now)
          <6>1. PICK v \in Nat : v = calls[f[p]] /\ v + ModelHour > now
            BY <1>0, <2>4, <4>1
          <6> QED BY <1>0, <6>1
        <5> QED BY <3>1, <5>1 DEF Keeps
      <4>3. PICK x \in Nat : x = f[p] /\ x - d \in 1 .. n /\ (x - d) + d = x
        <5>1. PICK x \in Nat : x = f[p] /\ x \in 1 .. k /\ x \notin 1 .. d
          BY <4>1, <4>2
        <5>2. x - d \in 1 .. n /\ (x - d) + d = x
          BY <3>2, <5>1
        <5> QED BY <5>1, <5>2
      <4>4. kept[x - d] = calls[x]
        BY <3>1, <3>2, <4>3 DEF Keeps
      <4> QED BY <4>1, <4>3, <4>4
    <3>4. PICK F : F = [p \in S |-> f[p] - d]
      OBVIOUS
    <3>5. F \in [S -> 1 .. n] /\ (\A x, y \in S : F[x] = F[y] => x = y) /\ \A p \in S : kept[F[p]] = p.at
      <4>1. ASSUME NEW x \in S, NEW y \in S, F[x] = F[y] PROVE x = y
        <5>1. f[x] - d = f[y] - d /\ f[x] \in Nat /\ f[y] \in Nat
          BY <3>3, <3>4, <4>1
        <5>2. f[x] = f[y]
          BY <3>2, <5>1
        <5> QED BY <2>3, <5>2
      <4> QED BY <3>3, <3>4, <4>1
    <3>6. CASE A!Reserve(key).ok = FALSE /\ A!Reserve(key).calls = kept
      <4>1. calls' = kept /\ posted' = posted
        BY <1>4, <3>6
      <4>2. A!Spent' = S
        BY <1>0, <2>1, <4>1 DEF A!Spent
      <4>3. F \in A!Injection(S, DOMAIN kept)
        BY <3>2, <3>5, InjectionIs
      <4>4. Len(kept) <= Ceiling
        BY <1>0, <2>4, <3>2
      <4> QED BY <3>5, <4>1, <4>2, <4>3, <4>4
    <3>7. CASE /\ Len(kept) < Ceiling /\ A!Reserve(key).ok = TRUE
               /\ A!Reserve(key).calls = Append(kept, now)
      <4>1. PICK cs \in Seq(Nat) : cs = Append(kept, now) /\ cs = calls'
        <5>1. Append(kept, now) \in Seq(Nat)
          BY <1>0, AppendProperties
        <5> QED BY <1>4, <3>7, <5>1
      <4>2. /\ Len(cs) = n + 1 /\ cs[n + 1] = now /\ DOMAIN cs = 1 .. n + 1
            /\ \A i \in 1 .. n : cs[i] = kept[i]
        <5>1. /\ Len(Append(kept, now)) = Len(kept) + 1 /\ Append(kept, now)[Len(kept) + 1] = now
              /\ \A i \in 1 .. Len(kept) : Append(kept, now)[i] = kept[i]
          BY <1>0, AppendProperties
        <5> QED BY <3>2, <4>1, <5>1
      <4>3. PICK T : T = A!Spent' /\ \A p \in T : p \in S \/ p = p0
        BY <1>0, <1>5, <2>1 DEF A!Spent
      <4>4. PICK h : h = [p \in T |-> IF p \in S THEN F[p] ELSE n + 1]
        OBVIOUS
      <4>5. h \in A!Injection(T, DOMAIN cs)
        <5>1. 1 .. n + 1 = (1 .. n) \cup {n + 1} /\ n + 1 \notin 1 .. n
          OBVIOUS
        <5>2. h \in [T -> DOMAIN cs]
          BY <3>5, <4>2, <4>4, <5>1
        <5>3. \A x, y \in T : h[x] = h[y] => x = y
          BY <3>5, <4>3, <4>4, <5>1
        <5> QED BY <5>2, <5>3, InjectionIs
      <4>6. ASSUME NEW p \in T PROVE cs[h[p]] = p.at
        <5>1. CASE p \in S
          <6>1. h[p] = F[p] /\ F[p] \in 1 .. n
            BY <3>5, <4>4, <5>1
          <6> QED BY <3>5, <4>2, <5>1, <6>1
        <5>2. CASE p \notin S
          BY <1>3, <4>2, <4>3, <4>4, <5>2
        <5> QED BY <5>1, <5>2
      <4>7. Len(cs) <= Ceiling
        BY <1>0, <3>2, <3>7, <4>2
      <4> QED BY <4>1, <4>3, <4>5, <4>6, <4>7
    <3> QED BY <3>1, <3>6, <3>7
  <2> QED BY <2>5, <2>6
<1> QED BY <1>3, <1>5, <1>6, <1>7 DEF A!PostsAreCounted

\* The calls counted are those of the hour, and no hour before had more.
LEMMA BudgetStep ==
  ASSUME A!AdmissionAssumption, A!TypeOK, A!PlacesAreTaken, A!TypeOK', A!PostsAreCounted, A!BudgetHolds,
         A!Next \/ UNCHANGED A!vars
  PROVE  A!PostsAreCounted' /\ A!BudgetHolds'
<1>0. /\ now \in Nat /\ now' \in Nat /\ ModelHour \in Nat /\ calls' \in Seq(Nat) /\ posted \subseteq A!Posts
  BY GateNumbers DEF A!TypeOK
<1>1. /\ A!PostsAreCounted' /\ posted \subseteq posted' /\ now <= now'
      /\ \A p \in posted' \ posted : p.at = now'
      /\ \A t \in 0 .. now' : t # now' => t \in 0 .. now
  <2>1. CASE \E r \in Request : A!Ask(r)
    <3>1. now' = now
      BY <2>1 DEF A!Ask
    <3> QED BY <1>0, <2>1, <3>1, AskCounts
  <2>2. CASE UNCHANGED <<now, calls, posted>>
    <3>1. A!Spent' = A!Spent
      BY <2>2 DEF A!Spent
    <3> QED BY <1>0, <2>2, <3>1 DEF A!PostsAreCounted
  <2>3. CASE A!Tick
    <3>1. now' = now + 1 /\ UNCHANGED <<calls, posted>>
      BY <2>3 DEF A!Tick
    <3>2. \A p \in posted : p.at \in Nat
      BY <1>0 DEF A!Posts
    <3>3. PICK S, T : S = A!Spent /\ T = A!Spent' /\ T \subseteq S
      <4>1. \A p \in A!Spent' : p \in A!Spent
        BY <1>0, <3>1, <3>2 DEF A!Spent
      <4> QED BY <4>1
    <3>4. \A p \in posted : p.at <= now + 1
      BY <1>0, <3>2 DEF A!PostsAreCounted
    <3>5. ASSUME Ceiling > 0
          PROVE  \E h \in A!Injection(T, DOMAIN calls) : \A p \in T : calls[h[p]] = p.at
      <4>1. PICK f \in A!Injection(S, DOMAIN calls) : \A p \in S : calls[f[p]] = p.at
        BY <3>3, <3>5 DEF A!PostsAreCounted
      <4>2. PICK h : h = [p \in T |-> f[p]] /\ h \in A!Injection(T, DOMAIN calls)
        BY <3>3, <4>1, RestrictedIs
      <4> QED BY <3>3, <4>1, <4>2
    <3>6. A!PostsAreCounted'
      BY <3>1, <3>3, <3>4, <3>5 DEF A!PostsAreCounted
    <3> QED BY <1>0, <3>1, <3>6
  <2> QED BY <2>1, <2>2, <2>3
        DEF A!Next, A!Receive, A!TooLarge, A!Admit, A!AdmitToLab, A!Finish, A!Expire, A!vars
<1>2. ASSUME Ceiling > 0, NEW t \in 0 .. now'
      PROVE  A!Cardinality(CallsIn(posted', t)) <= Ceiling
  <2>1. CASE t = now'
    <3>0. PICK posts : posts = posted'
      OBVIOUS
    <3>1. PICK cs \in Seq(Nat), n \in Nat : cs = calls' /\ n = now' /\ posts = posted'
      BY <1>0, <3>0
    <3>2. StillSpent(posts, n) = A!Spent'
      BY <3>1 DEF StillSpent, A!Spent
    <3>3. /\ Len(cs) <= Ceiling
          /\ \E f \in A!Injection(StillSpent(posts, n), DOMAIN cs) : TRUE
      BY <1>1, <1>2, <3>1, <3>2 DEF A!PostsAreCounted
    <3>4. A!Cardinality(CallsIn(posts, n)) <= Ceiling
      BY <3>3, SpentIsBounded
    <3> QED BY <2>1, <3>1, <3>4
  <2>2. CASE t # now'
    <3>1. t \in 0 .. now
      BY <1>1, <2>2
    <3>2. \A p \in posted' \ posted : ~(p.at <= t)
      BY <1>0, <1>1, <2>2
    <3>3. CallsIn(posted', t) = CallsIn(posted, t)
      BY <1>1, <3>2 DEF CallsIn
    <3>4. A!Cardinality(CallsIn(posted, t)) <= Ceiling
      BY <1>2, <3>1 DEF A!BudgetHolds, CallsIn
    <3> QED BY <3>3, <3>4
  <2> QED BY <2>1, <2>2
<1>3. A!BudgetHolds'
  BY <1>2 DEF A!BudgetHolds, CallsIn
<1> QED BY <1>1, <1>3

-----------------------------------------------------------------------------
(* The invariant *)

LEMMA GateStarts ==
  ASSUME A!AdmissionAssumption, A!Init
  PROVE  A!TypeOK /\ A!IInv
<1>0. A!IsFiniteSet({}) /\ A!Cardinality({}) = 0
  BY FinitePlaces
<1>1. PICK mix \in Mixes :
        /\ demo = mix.demo /\ credentials = (IF mix.demo THEN Minted ELSE Minted \ Tokens)
        /\ request = [r \in Request |-> A!Stage(IF r \in mix.sent THEN "unsent" ELSE "never", 0, None, None)]
  BY DEF A!Init
<1>2. ASSUME NEW r \in Request
      PROVE  /\ request[r] \in A!Requests /\ request[r].bucket = None /\ request[r].at = 0
             /\ request[r].pc \notin {"received", "running"}
  <2>1. PICK pc \in {"unsent", "never"} : request[r] = A!Stage(pc, 0, None, None)
    BY <1>1
  <2>2. pc \in A!Stages /\ None \in A!Names \cup {None} /\ None \in A!Clients /\ 0 \in Nat
    BY <2>1 DEF A!Stages, A!Clients
  <2> QED BY <2>1, <2>2, StageIs
<1>3. request \in [Request -> A!Requests]
  BY <1>1, <1>2
<1>4. A!Inside = {} /\ A!BucketedRequests = {}
  BY <1>2 DEF A!Inside, A!BucketedRequests
<1>5. windows \in [DOMAIN Limit -> Seq(A!Buckets)] /\ \A l \in DOMAIN Limit : DOMAIN windows[l] = {}
  BY DEF A!Init
<1>6. /\ now = 0 /\ inFlight = 0 /\ calls = <<>> /\ calls \in Seq(Nat) /\ Len(calls) = 0 /\ posted = {}
      /\ demo \in BOOLEAN /\ credentials \subseteq Minted
  BY <1>1 DEF A!Init, A!AdmissionAssumption
<1>7. A!TypeOK
  BY <1>0, <1>3, <1>4, <1>5, <1>6 DEF A!TypeOK
<1>8. A!PlacesAreTaken
  BY <1>0, <1>2, <1>4, <1>6 DEF A!PlacesAreTaken
<1>9. A!HitsArePasses
  BY <1>5 DEF A!HitsArePasses
<1>10. A!PassesAreHits
  <2>1. \A l, b : A!Sheltered(l, b) = {}
    BY <1>2 DEF A!Sheltered, A!PassesOf, A!Passed
  <2> QED BY <2>1 DEF A!PassesAreHits
<1>11. A!RefusedAtTheLimit
  BY <1>2 DEF A!RefusedAtTheLimit
<1>12. A!PostsAreCounted
  <2>1. A!Spent = {}
    BY <1>6 DEF A!Spent
  <2>2. PICK f : f = [p \in {} |-> 0]
    OBVIOUS
  <2>3. f \in A!Injection({}, DOMAIN calls)
    <3>1. f \in [{} -> DOMAIN calls]
      BY <2>2
    <3> QED BY <3>1, InjectionIs
  <2>4. Ceiling > 0 => Len(calls) <= Ceiling
    BY <1>6, GateNumbers
  <2>5. \A p \in posted : p.at <= now /\ p.key # None
    BY <1>6
  <2> QED BY <2>1, <2>3, <2>4, <2>5 DEF A!PostsAreCounted
<1>13. A!BudgetHolds
  <2>1. \A t \in 0 .. now : {p \in posted : p.key = ServerKey /\ p.at <= t /\ p.at + ModelHour > t} = {}
    BY <1>6
  <2>2. ASSUME Ceiling > 0, NEW t \in 0 .. now
        PROVE  A!Cardinality({p \in posted : p.key = ServerKey /\ p.at <= t /\ p.at + ModelHour > t}) <= Ceiling
    <3>1. 0 <= Ceiling
      BY GateNumbers
    <3> QED BY <1>0, <2>1, <2>2, <3>1
  <2> QED BY <2>2 DEF A!BudgetHolds
<1> QED BY <1>7, <1>8, <1>9, <1>10, <1>11, <1>12, <1>13 DEF A!IInv

LEMMA GateStep ==
  ASSUME A!AdmissionAssumption, A!TypeOK, A!IInv, A!Next \/ UNCHANGED A!vars
  PROVE  A!TypeOK' /\ A!IInv'
<1>0. /\ A!PlacesAreTaken /\ A!HitsArePasses /\ A!PassesAreHits /\ A!RefusedAtTheLimit
      /\ A!PostsAreCounted /\ A!BudgetHolds
  BY DEF A!IInv
<1>1. A!TypeOK' /\ A!PlacesAreTaken' /\ (Calm \/ (\E r \in Request : IsCounted(r)) \/ A!Tick)
  <2>1. CASE A!Next
    BY <1>0, <2>1, GateTypes
  <2>2. CASE UNCHANGED A!vars
    <3>1. A!TypeOK'
      BY <2>2 DEF A!vars, A!TypeOK, A!Inside, A!BucketedRequests
    <3>2. A!PlacesAreTaken'
      BY <1>0, <2>2 DEF A!vars, A!PlacesAreTaken, A!Inside
    <3>3. Calm
      BY <2>2 DEF A!vars, Calm
    <3> QED BY <3>1, <3>2, <3>3
  <2> QED BY <2>1, <2>2
<1>2. A!HitsArePasses' /\ A!PassesAreHits' /\ A!RefusedAtTheLimit'
  <2>1. CASE Calm
    <3>1. UNCHANGED <<now, windows>>
      BY <2>1 DEF Calm
    <3>2. \A q \in Request :
           /\ request'[q].bucket = request[q].bucket
           /\ request[q].bucket # None =>
                request'[q].at = request[q].at /\ (request'[q].pc = "429" <=> request[q].pc = "429")
      BY <2>1 DEF Calm
    <3> QED BY <1>0, <3>1, <3>2, SameLimits
  <2>2. CASE \E r \in Request : IsCounted(r)
    BY <1>0, <1>1, <2>2, HitsStay, PassesStay, RefusalsStay
  <2>3. CASE A!Tick
    BY <1>0, <2>3, TickLimits DEF A!Tick
  <2> QED BY <1>1, <2>1, <2>2, <2>3
<1>3. A!PostsAreCounted' /\ A!BudgetHolds'
  BY <1>0, <1>1, BudgetStep
<1> QED BY <1>1, <1>2, <1>3 DEF A!IInv

LEMMA LimitersFollow ==
  ASSUME A!AdmissionAssumption, A!TypeOK, A!IInv
  PROVE  A!LimiterHolds
<1>0. /\ A!PlacesAreTaken /\ A!HitsArePasses /\ A!PassesAreHits /\ A!RefusedAtTheLimit
      /\ now \in Nat /\ Window \in Nat
  BY GateNumbers DEF A!IInv, A!TypeOK
<1> SUFFICES ASSUME NEW r \in Request, request[r].bucket # None, request[r].at = now
             PROVE  LET passes == A!Cardinality(A!PassesOf(A!LimiterOf(r), request[r].bucket, now))
                    IN  IF request[r].pc = "429" THEN passes >= Limit[A!LimiterOf(r)]
                        ELSE passes <= Limit[A!LimiterOf(r)] \/ A!Crowded(A!LimiterOf(r), now)
  BY DEF A!LimiterHolds
<1>1. PICK l \in DOMAIN Limit : l = A!LimiterOf(r)
  BY NamesAre
<1>2. PICK b \in A!Names : b = request[r].bucket
  BY DEF A!TypeOK, A!Requests
<1>3. PICK M : M = A!PassesOf(l, b, now) /\ A!IsFiniteSet(M) /\ A!Cardinality(M) \in Nat
  <2>1. A!IsFiniteSet(A!PassesOf(l, b, now))
    BY PassesAreFinite
  <2> QED BY <2>1, FinitePlaces
<1>4. PICK n \in Nat : n = Limit[l]
  BY GateNumbers
<1>5. ASSUME request[r].pc = "429" PROVE A!Cardinality(M) >= n
  <2>1. PICK g \in A!Injection(1 .. n, Request) : \A j \in 1 .. n : g[j] \in M
    BY <1>0, <1>1, <1>2, <1>3, <1>4, <1>5 DEF A!RefusedAtTheLimit
  <2>2. g \in A!Injection(1 .. n, M)
    <3>1. g \in [1 .. n -> Request] /\ \A x, y \in 1 .. n : g[x] = g[y] => x = y
      BY <2>1, InjectionIs
    <3>2. g \in [1 .. n -> M]
      BY <2>1, <3>1
    <3> QED BY <3>1, <3>2, InjectionIs
  <2>3. n <= A!Cardinality(M)
    BY <1>3, <2>2, NumberedApart
  <2> QED BY <1>3, <2>3
<1>6. ASSUME ~A!Crowded(l, now) PROVE A!Cardinality(M) <= n
  <2>1. M = A!Sheltered(l, b)
    <3>1. ASSUME NEW q \in M, NEW e \in 0 .. now, A!CrowdAt(l, e) PROVE e < request[q].at
      <4>1. ~(e + Window > now)
        BY <1>6, <3>1 DEF A!Crowded, A!CrowdAt
      <4>2. request[q].at + Window > now /\ request[q].at \in Nat
        BY <1>3 DEF A!PassesOf, A!Within, A!TypeOK, A!Requests
      <4> QED BY <1>0, <4>1, <4>2
    <3> QED BY <1>3, <3>1 DEF A!Sheltered
  <2>2. CASE M = {}
    BY <1>4, <2>2, FinitePlaces
  <2>3. CASE M # {}
    <3>1. PICK i \in DOMAIN windows[l] : A!KeptIn(l, b, windows[l][i])
      BY <1>0, <2>1, <2>3 DEF A!PassesAreHits
    <3>2. PICK w \in A!Buckets : w = windows[l][i] /\ Sound(l, w)
      BY <1>0, SoundWindows DEF A!TypeOK
    <3>3. PICK f : f \in A!Injection(M, DOMAIN w.hits)
      BY <2>1, <3>1, <3>2 DEF A!KeptIn
    <3>4. PICK k \in Nat : k = Len(w.hits) /\ DOMAIN w.hits = 1 .. k /\ k <= n
      <4>1. w.hits \in Seq(Nat)
        BY DEF A!Buckets
      <4> QED BY <1>4, <3>2, <4>1 DEF Sound
    <3>5. A!Cardinality(M) <= k
      BY <3>3, <3>4, NumberedApart
    <3> QED BY <1>3, <3>4, <3>5
  <2> QED BY <2>2, <2>3
<1>7. CASE request[r].pc = "429"
  BY <1>1, <1>2, <1>3, <1>4, <1>5, <1>7
<1>8. CASE request[r].pc # "429"
  BY <1>1, <1>2, <1>3, <1>4, <1>6, <1>8
<1> QED BY <1>7, <1>8

\* In every state each hit of a limiter's window is a pass, and each pass since the
\* last crowd a hit of a window that is kept; the places taken are those of the
\* requests inside, and the calls of the hour those counted.
THEOREM GateInvariance == Spec => [](A!TypeOK /\ A!IInv)
<1>1. Init => A!TypeOK /\ A!IInv
  BY GateStarts, AdmissionAssumption DEF Init
<1>2. ASSUME A!TypeOK, A!IInv, [Next]_vars PROVE A!TypeOK' /\ A!IInv'
  <2>1. A!Next \/ UNCHANGED A!vars
    BY <1>2 DEF Next, vars, gateVars, A!vars
  <2> QED BY <1>2, <2>1, GateStep, AdmissionAssumption
<1> QED BY <1>1, <1>2, PTL DEF Spec

\* No caller passes a limiter more often in a window than its limit and none is
\* refused below it, unless more callers were live at once than the limiter has room
\* for (SlidingWindowLimiter.check, _evict).
THEOREM LimitersHold == Spec => []LimiterHolds
<1>1. A!TypeOK /\ A!IInv => LimiterHolds
  BY LimitersFollow, AdmissionAssumption DEF LimiterHolds
<1> QED BY <1>1, GateInvariance, PTL

\* However many planners hold a client, no more calls than the ceiling leave on the
\* deployment's key in an hour (reserve_model_call, GeminiClient._generate).
THEOREM BudgetStands == Spec => []BudgetHolds
<1>1. A!IInv => BudgetHolds
  BY DEF A!IInv, BudgetHolds
<1> QED BY <1>1, GateInvariance, PTL
=============================================================================
