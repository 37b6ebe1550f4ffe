------------------------------ MODULE RouteProofs ------------------------------
(***************************************************************************)
(* Proofs about the components that stand beside a verification: network   *)
(* condition subscriptions (NetworkConditions), outcome labels (L, an      *)
(* instance of OutcomeLabels over the state of LabelLine) and the evidence *)
(* console (K, an instance of Console over the state of Journal).          *)
(***************************************************************************)
EXTENDS NetworkConditions, LabelLine, Journal, SumLemmas, SequenceTheorems

LEMMA RowIs ==
  ASSUME TypeOK, NEW s \in Sub, Exists(s)
  PROVE  /\ row[s] \in Row
         /\ row[s].device \in Device /\ row[s].status \in Status
         /\ row[s].providerId \in BOOLEAN /\ row[s].expiresAt \in Nat
         /\ row[s].lastQuery \in Nat \cup {None}
BY DEF TypeOK, Exists, Row

\* A worker that is not idle is in one of three shapes.
LEMMA TaskIs ==
  ASSUME TypeOK, NEW t \in Task, task[t].op # "idle"
  PROVE  /\ task[t].sub \in Sub
         /\ task[t].op \in {"remove", "removed", "unremoved", "lookup", "found", "ask", "store"}
         /\ task[t].op = "ask" => task[t].at \in Nat
         /\ task[t].op = "store" => task[t].event \in Event /\ task[t].victim \in Event \cup {None}
         /\ task[t].op \in {"remove", "lookup"} =>
              \A o \in {"removed", "unremoved", "found"} :
                [task[t] EXCEPT !.op = o] = [op |-> o, sub |-> task[t].sub]
<1>1. task[t] \in Busy
  BY DEF TypeOK, Idle
<1> QED BY <1>1 DEF Busy

LEMMA LeastIs ==
  ASSUME NEW S \in SUBSET Nat, S # {}
  PROVE  /\ Min(S) \in S
         /\ \A n \in S : Min(S) <= n
BY LeastExists, Zenon DEF Min

LEMMA MostExists ==
  ASSUME NEW S \in SUBSET Nat, S # {}, IsFiniteSet(S)
  PROVE  \E n \in S : \A m \in S : n >= m
<1> DEFINE Q == {s \in SUBSET S : s # {} => \E n \in s : \A m \in s : n >= m}
<1>1. ASSUME NEW s \in SUBSET S, \A t \in SUBSET s : t # s => t \in Q PROVE s \in Q
  <2> SUFFICES ASSUME s # {} PROVE \E n \in s : \A m \in s : n >= m
    OBVIOUS
  <2>1. PICK x \in s : TRUE
    OBVIOUS
  <2>2. s \ {x} \in Q
    BY <1>1, <2>1
  <2>3. CASE s \ {x} = {}
    <3>1. s = {x} /\ x \in Nat
      BY <2>1, <2>3
    <3> QED BY <3>1
  <2>4. CASE s \ {x} # {}
    <3>1. PICK n \in s \ {x} : \A m \in s \ {x} : n >= m
      BY <2>2, <2>4
    <3>2. CASE n >= x
      BY <3>1, <3>2
    <3>3. CASE ~(n >= x)
      <4>1. \A m \in s : x >= m
        BY <3>1, <3>3
      <4> QED BY <2>1, <4>1
    <3> QED BY <3>2, <3>3
  <2> QED BY <2>3, <2>4
<1> HIDE DEF Q
<1>2. S \in Q
  BY <1>1, PartsInduction
<1> QED BY <1>2 DEF Q

LEMMA MostIs ==
  ASSUME NEW S \in SUBSET Nat, S # {}, IsFiniteSet(S)
  PROVE  /\ Max(S) \in S
         /\ \A n \in S : n <= Max(S)
<1>1. PICK n \in S : \A m \in S : n >= m
  BY MostExists
<1>2. Max(S) \in S /\ \A m \in S : Max(S) >= m
  BY <1>1, Zenon DEF Max
<1> QED BY <1>2

\* The newest of the stored events, when they are finitely many.
LEMMA NewestIs ==
  ASSUME NEW stored \in SUBSET Nat, IsFiniteSet(stored)
  PROVE  /\ NewestEvent(stored) \in Nat
         /\ \A n \in stored : n <= NewestEvent(stored)
         /\ stored # {} => NewestEvent(stored) \in stored
BY MostIs DEF NewestEvent

\* The event a callback would evict is no later than the one it brings.
LEMMA VictimIs ==
  ASSUME TypeOK, IInv, NEW s \in Sub, NEW e \in Event, InOrder(s, e), events[s] # {}
  PROVE  Min(events[s]) \in Event /\ Min(events[s]) <= e
<1>1. IsFiniteSet(events[s])
  BY DEF IInv, Bounded
<1>2. events[s] \in SUBSET Nat /\ events[s] \subseteq Event /\ e \in Nat
  BY ConditionsAssumption DEF TypeOK
<1>3. Min(events[s]) \in events[s]
  BY <1>2, LeastIs
<1>4. Min(events[s]) <= NewestEvent(events[s]) /\ NewestEvent(events[s]) \in Nat
  BY <1>1, <1>2, <1>3, NewestIs
<1> QED BY <1>2, <1>3, <1>4 DEF InOrder

LEMMA BusyTypes ==
  ASSUME NEW s \in Sub
  PROVE  /\ \A o \in {"remove", "removed", "unremoved", "lookup", "found"} :
              [op |-> o, sub |-> s] \in Busy
         /\ \A at \in Nat : [op |-> "ask", sub |-> s, at |-> at] \in Busy
         /\ \A e \in Event, v \in Event \cup {None} :
              [op |-> "store", sub |-> s, event |-> e, victim |-> v] \in Busy
BY DEF Busy

-----------------------------------------------------------------------------
(* Congestion subscriptions *)

LEMMA RowKept ==
  ASSUME TypeOK, NEW s \in Sub, Exists(s)
  PROVE  /\ \A x \in Status : [row EXCEPT ![s].status = x] \in [Sub -> Row \cup {None}]
         /\ \A n \in Nat : [row EXCEPT ![s].lastQuery = n] \in [Sub -> Row \cup {None}]
         /\ Named(row[s]) \in Row
BY RowIs DEF TypeOK, Row, Named, Status

LEMMA MarkTypes ==
  ASSUME TypeOK, NEW s \in Sub, NEW x \in Status, Mark(s, x)
  PROVE  row' \in [Sub -> Row \cup {None}]
BY RowKept DEF Mark, TypeOK

\* Every step keeps the variables in their types.
LEMMA ConditionsTypeStep == TypeOK /\ [Next]_vars => TypeOK'
<1> SUFFICES ASSUME TypeOK, [Next]_vars PROVE TypeOK'
  OBVIOUS
<1> USE ConditionsAssumption
<1>1. ASSUME NEW s \in Sub, NEW d \in Device, CreateReserves(s, d) PROVE TypeOK'
  <2>1. [device |-> d, status |-> "pending", providerId |-> FALSE,
         expiresAt |-> now + TTL, lastQuery |-> None] \in Row
    BY DEF TypeOK, Row, Status
  <2> QED BY <1>1, <2>1 DEF CreateReserves, TypeOK
<1>2. ASSUME NEW s \in Sub, CreateLands(s) PROVE TypeOK'
  BY <1>2, RowIs DEF CreateLands, TypeOK
<1>3. ASSUME NEW s \in Sub, CreateUnsupported(s) PROVE TypeOK'
  BY <1>3 DEF CreateUnsupported, TypeOK
<1>4. ASSUME NEW s \in Sub, CreateRejected(s) \/ CreateUnanswered(s) PROVE TypeOK'
  <2>1. row' \in [Sub -> Row \cup {None}]
    BY <1>4, MarkTypes DEF CreateRejected, CreateUnanswered, Status, TERMINAL
  <2> QED BY <1>4, <2>1 DEF CreateRejected, CreateUnanswered, TypeOK
<1>5. ASSUME NEW s \in Sub, CreateAnswered(s) PROVE TypeOK'
  BY <1>5, RowKept DEF CreateAnswered, TypeOK
<1>6. ASSUME NEW t \in Task, NEW s \in Sub,
             DeleteReads(t, s) \/ ReconcileReads(t, s) \/ \E e \in Event : EventReads(t, s, e)
      PROVE  TypeOK'
  <2>1. ASSUME NEW e \in Event, EventReads(t, s, e) PROVE TypeOK'
    <3>1. ASSUME Cardinality(events[s]) >= MaxEvents, events[s] # {} PROVE Min(events[s]) \in Event
      BY <3>1, LeastIs DEF TypeOK
    <3>2. PICK v \in Event \cup {None} :
            Begin(t, [op |-> "store", sub |-> s, event |-> e, victim |-> v])
      BY <2>1, <3>1 DEF EventReads
    <3>3. task' \in [Task -> {Idle} \cup Busy]
      BY <3>2, BusyTypes DEF Begin, TypeOK
    <3> QED BY <2>1, <3>3 DEF EventReads, TypeOK
  <2>2. CASE DeleteReads(t, s) \/ ReconcileReads(t, s)
    <3>1. PICK o \in {"remove", "removed", "lookup"} : Begin(t, [op |-> o, sub |-> s])
      BY <2>2 DEF DeleteReads, ReconcileReads
    <3>2. task' \in [Task -> {Idle} \cup Busy]
      BY <3>1, BusyTypes DEF Begin, TypeOK
    <3> QED BY <2>2, <3>2 DEF DeleteReads, ReconcileReads, TypeOK
  <2> QED BY <1>6, <2>1, <2>2
<1>7. ASSUME NEW t \in Task, NEW s \in Sub, NEW at \in Clock, QueryReserves(t, s, at) PROVE TypeOK'
  <2>1. at \in Nat
    BY DEF Clock, TypeOK
  <2> QED BY <1>7, <2>1, RowKept, BusyTypes DEF QueryReserves, Begin, TypeOK
<1>8. ASSUME NEW t \in Task, NEW happened \in BOOLEAN, NEW confirmed \in BOOLEAN,
             DeleteCalls(t, happened, confirmed)
      PROVE  TypeOK'
  <2>1. task[t].sub \in Sub /\ task[t].op = "remove"
    BY <1>8, TaskIs DEF DeleteCalls, Doing
  <2>2. \A o \in {"removed", "unremoved"} : [task[t] EXCEPT !.op = o] \in Busy
    <3> SUFFICES ASSUME NEW o \in {"removed", "unremoved"} PROVE [task[t] EXCEPT !.op = o] \in Busy
      OBVIOUS
    <3>1. [task[t] EXCEPT !.op = o] = [op |-> o, sub |-> task[t].sub]
      BY <2>1, TaskIs
    <3>2. [op |-> o, sub |-> task[t].sub] \in Busy
      BY <2>1, BusyTypes
    <3> QED BY <3>1, <3>2
  <2>3. task' \in [Task -> {Idle} \cup Busy]
    BY <1>8, <2>2 DEF DeleteCalls, TypeOK
  <2> QED BY <1>8, <2>1, <2>3 DEF DeleteCalls, TypeOK
<1>9. ASSUME NEW t \in Task, DeleteMarks(t) PROVE TypeOK'
  <2>1. task[t].sub \in Sub
    BY <1>9, TaskIs DEF DeleteMarks, Doing
  <2>2. row' \in [Sub -> Row \cup {None}]
    BY <1>9, <2>1, MarkTypes DEF DeleteMarks, Status, TERMINAL
  <2> QED BY <1>9, <2>2 DEF DeleteMarks, End, TypeOK
<1>10. ASSUME NEW t \in Task, NEW answers \in BOOLEAN, ReconcileLooks(t, answers) PROVE TypeOK'
  <2>1. task[t].sub \in Sub /\ task[t].op = "lookup"
    BY <1>10, TaskIs DEF ReconcileLooks, Doing
  <2>2. [task[t] EXCEPT !.op = "found"] \in Busy
    <3>1. [task[t] EXCEPT !.op = "found"] = [op |-> "found", sub |-> task[t].sub]
      BY <2>1, TaskIs
    <3> QED BY <2>1, <3>1, BusyTypes
  <2> QED BY <1>10, <2>2 DEF ReconcileLooks, TypeOK
<1>11. ASSUME NEW t \in Task, ReconcileWrites(t) PROVE TypeOK'
  <2>1. task[t].sub \in Sub
    BY <1>11, TaskIs DEF ReconcileWrites, Doing
  <2> QED BY <1>11, <2>1, RowKept DEF ReconcileWrites, Unreconciled, End, TypeOK
<1>12. ASSUME NEW t \in Task, QueryCalls(t) PROVE TypeOK'
  <2>1. task[t].sub \in Sub /\ task[t].at \in Nat
    BY <1>12, TaskIs DEF QueryCalls, Doing
  <2> QED BY <1>12, <2>1 DEF QueryCalls, End, TypeOK
<1>13. ASSUME NEW t \in Task, EventCommits(t) PROVE TypeOK'
  <2>1. task[t].sub \in Sub /\ task[t].event \in Event
    BY <1>13, TaskIs DEF EventCommits, Doing
  <2> QED BY <1>13, <2>1 DEF EventCommits, End, TypeOK
<1>14. CASE Sweep
  <2>1. PICK due \in SUBSET {s \in Sub : Exists(s)}, gone \in SUBSET Sub :
          /\ row' = [s \in Sub |-> IF s \in gone THEN None ELSE Swept(due)[s]]
          /\ events' = [s \in Sub |-> IF s \in gone THEN {} ELSE events[s]]
    BY <1>14 DEF Sweep, ABatchOf
  <2>2. \A s \in Sub : Swept(due)[s] \in Row \cup {None}
    <3>1. ASSUME NEW s \in due PROVE [row[s] EXCEPT !.status = "expired"] \in Row
      BY RowIs DEF Row, Status, TERMINAL
    <3> QED BY <3>1 DEF Swept, TypeOK
  <2> QED BY <1>14, <2>1, <2>2 DEF Sweep, TypeOK
<1>15. CASE Tick \/ UNCHANGED vars
  BY <1>15 DEF Tick, vars, TypeOK
<1> QED BY <1>1, <1>2, <1>3, <1>4, <1>5, <1>6, <1>7, <1>8, <1>9, <1>10, <1>11, <1>12, <1>13,
           <1>14, <1>15 DEF Next

-----------------------------------------------------------------------------
\* What most steps do: no row is added or moved, no query is on its way that
\* was not, nothing may run that could not before, and no create goes back.
Calm ==
  /\ now' = now \/ now' = now + 1
  /\ asked' = asked
  /\ \A s \in Sub :
       /\ creator[s] # "none" => creator'[s] # "none"
       /\ creator[s] = "done" => creator'[s] = "done"
       /\ creator[s] \in {"landed", "done"} => creator'[s] \in {"landed", "done"}
       /\ Exists(s)' => /\ Exists(s)
                        /\ row'[s].device = row[s].device
                        /\ row'[s].expiresAt = row[s].expiresAt
                        /\ row'[s].lastQuery = row[s].lastQuery
       /\ MayRun(s)' => MayRun(s)
       /\ IsFiniteSet(events[s]) => IsFiniteSet(events'[s])
  /\ \A t \in Task : task'[t].op = "ask" => task'[t] = task[t]

LEMMA CalmKeepsLimit ==
  ASSUME TypeOK, DeviceLimitHolds, Bounded, Calm
  PROVE  DeviceLimitHolds' /\ Bounded'
<1>1. IsFiniteSet({s \in Sub : Exists(s)})
  BY DEF Bounded
<1>2. Bounded'
  <2>1. {s \in Sub : Exists(s)'} \subseteq {s \in Sub : Exists(s)}
    BY DEF Calm
  <2>2. IsFiniteSet({s \in Sub : Exists(s)'})
    BY <1>1, <2>1, FS_Subset
  <2> QED BY <2>2 DEF Bounded, Calm
<1>3. ASSUME NEW d \in Device
      PROVE  Cardinality({s \in Sub : MayRun(s)' /\ row'[s].device = d}) <= MaxPerDevice
  <2> DEFINE old == {s \in Sub : MayRun(s) /\ row[s].device = d}
             new == {s \in Sub : MayRun(s)' /\ row'[s].device = d}
  <2>1. new \subseteq old /\ old \subseteq {s \in Sub : Exists(s)}
    BY DEF Calm, MayRun, Exists
  <2>2. IsFiniteSet(old)
    BY <1>1, <2>1, FS_Subset
  <2>3. IsFiniteSet(new) /\ Cardinality(new) <= Cardinality(old)
    BY <2>1, <2>2, FS_Subset
  <2>4. Cardinality(old) <= MaxPerDevice
    BY DEF DeviceLimitHolds
  <2>5. Cardinality(old) \in Nat /\ Cardinality(new) \in Nat /\ MaxPerDevice \in Nat
    BY <2>2, <2>3, FS_CardinalityType, ConditionsAssumption
  <2> QED BY <2>3, <2>4, <2>5
<1> QED BY <1>2, <1>3 DEF DeviceLimitHolds

LEMMA CalmKeepsQueries ==
  ASSUME TypeOK, TypeOK', IInv, Calm
  PROVE  /\ \A s \in Sub : AskedFollowsRow(s)'
         /\ \A t \in Task : QueryFollowsRow(t)'
<1>1. ASSUME NEW s \in Sub PROVE AskedFollowsRow(s)'
  BY DEF Calm, IInv, AskedFollowsRow
<1>2. ASSUME NEW t \in Task PROVE QueryFollowsRow(t)'
  <2>1. QueryFollowsRow(t)
    BY DEF IInv
  <2>2. task'[t].op = "ask" => task[t].sub \in Sub /\ task'[t] = task[t]
    BY TaskIs DEF Calm
  <2> QED BY <2>1, <2>2 DEF Calm, QueryFollowsRow
<1> QED BY <1>1, <1>2

LEMMA CalmKeepsTask ==
  ASSUME TypeOK, NEW t \in Task, TaskFollowsRow(t), Calm, task'[t] = task[t]
  PROVE  TaskFollowsRow(t)'
<1>1. task[t] # Idle => task[t].sub \in Sub
  BY DEF TypeOK, Busy
<1>2. \A s \in Sub : Exists(s)' /\ row'[s].expiresAt > now' => Exists(s) /\ row[s].expiresAt > now
  BY RowIs DEF Calm, TypeOK
<1> QED BY <1>1, <1>2 DEF Calm, TaskFollowsRow

\* A worker that has just begun or ended, and the rest of a calm step.
LEMMA CalmKeeps ==
  ASSUME TypeOK, TypeOK', IInv, Calm,
         \A s \in Sub : RowFollowsCreate(s)',
         \A t \in Task : task'[t] = task[t] \/ TaskFollowsRow(t)'
  PROVE  IInv'
<1>1. \A t \in Task : TaskFollowsRow(t)'
  BY CalmKeepsTask DEF IInv
<1> QED BY <1>1, CalmKeepsLimit, CalmKeepsQueries DEF IInv

-----------------------------------------------------------------------------
\* The row and the creates of every other subscription are as they were.
OnlyAt(s) ==
  /\ \A x \in Sub : x # s => row'[x] = row[x] /\ creator'[x] = creator[x] /\ remote'[x] = remote[x]
  /\ now' = now

LEMMA OthersFollow ==
  ASSUME IInv, NEW s \in Sub, OnlyAt(s), RowFollowsCreate(s)'
  PROVE  \A x \in Sub : RowFollowsCreate(x)'
<1>1. ASSUME NEW x \in Sub, x # s PROVE RowFollowsCreate(x)'
  <2>1. row'[x] = row[x] /\ creator'[x] = creator[x] /\ remote'[x] = remote[x] /\ now' = now
    BY <1>1 DEF OnlyAt
  <2>2. RowFollowsCreate(x)
    BY DEF IInv
  <2> QED BY <2>1, <2>2 DEF RowFollowsCreate, Running, Exists, MayRun
<1> QED BY <1>1

LEMMA LandsKeeps ==
  ASSUME TypeOK, TypeOK', IInv, NEW s \in Sub, CreateLands(s)
  PROVE  IInv'
<1>1. RowFollowsCreate(s) /\ Exists(s)
  BY DEF IInv, CreateLands
<1>2. OnlyAt(s)
  BY DEF CreateLands, OnlyAt, TypeOK
<1>3. RowFollowsCreate(s)'
  BY <1>1, RowIs, ConditionsAssumption
     DEF CreateLands, RowFollowsCreate, MayRun, Exists, Running, TypeOK
<1>4. Calm
  BY <1>1, RowIs, ConditionsAssumption DEF CreateLands, Calm, MayRun, Exists, TypeOK
<1> QED BY <1>2, <1>3, <1>4, OthersFollow, CalmKeeps DEF CreateLands

LEMMA UnsupportedKeeps ==
  ASSUME TypeOK, TypeOK', IInv, NEW s \in Sub, CreateUnsupported(s)
  PROVE  IInv'
<1>1. RowFollowsCreate(s)
  BY DEF IInv
<1>2. OnlyAt(s)
  BY DEF CreateUnsupported, OnlyAt, TypeOK
<1>3. RowFollowsCreate(s)'
  BY <1>1 DEF CreateUnsupported, RowFollowsCreate, MayRun, Exists, Running, TypeOK
<1>4. Calm
  BY DEF CreateUnsupported, Calm, MayRun, Exists, TypeOK
<1> QED BY <1>2, <1>3, <1>4, OthersFollow, CalmKeeps DEF CreateUnsupported

\* What a mark leaves of a row.
LEMMA MarkIs ==
  ASSUME TypeOK, NEW s \in Sub, NEW x \in Status, Mark(s, x)
  PROVE  /\ \A y \in Sub : y # s => row'[y] = row[y]
         /\ Exists(s)' <=> Exists(s)
         /\ Exists(s) =>
              /\ row'[s].device = row[s].device /\ row'[s].expiresAt = row[s].expiresAt
              /\ row'[s].lastQuery = row[s].lastQuery /\ row'[s].providerId = row[s].providerId
              /\ row'[s].status = x
<1>1. CASE ~Exists(s)
  BY <1>1 DEF Mark, Exists
<1>2. CASE Exists(s)
  <2>1. [row[s] EXCEPT !.status = x] \in Row
    BY <1>2, RowIs DEF Row
  <2>2. /\ row' = [row EXCEPT ![s].status = x]
        /\ row'[s] = [row[s] EXCEPT !.status = x]
    BY <1>2 DEF Mark, TypeOK
  <2> QED BY <1>2, <2>1, <2>2, RowIs, RowAssumption DEF Exists, Row
<1> QED BY <1>1, <1>2

LEMMA RejectedKeeps ==
  ASSUME TypeOK, TypeOK', IInv, NEW s \in Sub, CreateRejected(s)
  PROVE  IInv'
<1>1. RowFollowsCreate(s)
  BY DEF IInv
<1>2. "failed" \in Status /\ Mark(s, "failed")
  BY DEF Status, TERMINAL, CreateRejected
<1>3. OnlyAt(s)
  BY <1>2, MarkIs DEF CreateRejected, OnlyAt, TypeOK
<1>4. RowFollowsCreate(s)'
  BY <1>1, <1>2, MarkIs
     DEF CreateRejected, RowFollowsCreate, MayRun, Running, TERMINAL, TypeOK
<1>5. Calm
  BY <1>2, MarkIs DEF CreateRejected, Calm, MayRun, Exists, TypeOK
<1> QED BY <1>3, <1>4, <1>5, OthersFollow, CalmKeeps DEF CreateRejected

LEMMA UnansweredKeeps ==
  ASSUME TypeOK, TypeOK', IInv, NEW s \in Sub, CreateUnanswered(s)
  PROVE  IInv'
<1>1. RowFollowsCreate(s)
  BY DEF IInv
<1>2. "unknown" \in Status /\ Mark(s, "unknown")
  BY DEF Status, CreateUnanswered
<1>3. OnlyAt(s)
  BY <1>2, MarkIs DEF CreateUnanswered, OnlyAt, TypeOK
<1>4. RowFollowsCreate(s)'
  BY <1>1, <1>2, MarkIs
     DEF CreateUnanswered, RowFollowsCreate, MayRun, Running, TERMINAL, TypeOK
<1>5. Calm
  BY <1>2, MarkIs DEF CreateUnanswered, Calm, MayRun, Exists, TypeOK
<1> QED BY <1>3, <1>4, <1>5, OthersFollow, CalmKeeps DEF CreateUnanswered

\* What naming a row leaves of it.
LEMMA NamedIs ==
  ASSUME TypeOK, NEW s \in Sub, row' = [row EXCEPT ![s] = Named(@)], Exists(s)
  PROVE  /\ \A y \in Sub : y # s => row'[y] = row[y]
         /\ Exists(s)'
         /\ row'[s].device = row[s].device /\ row'[s].expiresAt = row[s].expiresAt
         /\ row'[s].lastQuery = row[s].lastQuery
         /\ row'[s].status = "active" /\ row'[s].providerId
<1>1. row'[s] = Named(row[s]) /\ Named(row[s]) \in Row
  BY RowKept DEF TypeOK
<1>2. \A y \in Sub : y # s => row'[y] = row[y]
  BY DEF TypeOK
<1>3. Exists(s)'
  BY <1>1, RowAssumption DEF Exists
<1>4. /\ row'[s].device = row[s].device /\ row'[s].expiresAt = row[s].expiresAt
      /\ row'[s].lastQuery = row[s].lastQuery /\ row'[s].status = "active"
  BY <1>1 DEF Named
<1>5. row'[s].providerId
  BY <1>1 DEF Named
<1> QED BY <1>2, <1>3, <1>4, <1>5

LEMMA AnsweredKeeps ==
  ASSUME TypeOK, TypeOK', IInv, NEW s \in Sub, CreateAnswered(s)
  PROVE  IInv'
<1>1. RowFollowsCreate(s)
  BY DEF IInv
<1>2. OnlyAt(s)
  BY NamedIs DEF CreateAnswered, OnlyAt, TypeOK
<1>3. RowFollowsCreate(s)' /\ Calm
  <2>1. CASE Exists(s)
    <3>1. /\ row' = [row EXCEPT ![s] = Named(@)] /\ UNCHANGED <<remote, events, task, now, asked>>
          /\ creator[s] = "landed" /\ creator' = [creator EXCEPT ![s] = "done"]
      BY <2>1 DEF CreateAnswered
    <3>2. creator'[s] = "done"
      BY <3>1 DEF TypeOK
    <3>3. RowFollowsCreate(s)'
      BY <1>1, <2>1, <3>1, <3>2, NamedIs DEF RowFollowsCreate, MayRun, Running, TERMINAL
    <3>4. ASSUME NEW x \in Sub, Exists(x)'
          PROVE  /\ Exists(x) /\ row'[x].device = row[x].device
                 /\ row'[x].expiresAt = row[x].expiresAt /\ row'[x].lastQuery = row[x].lastQuery
      <4>1. CASE x = s
        BY <2>1, <3>1, <4>1, NamedIs
      <4>2. CASE x # s
        BY <2>1, <3>1, <3>4, <4>2, NamedIs DEF Exists
      <4> QED BY <4>1, <4>2
    <3>5. \A x \in Sub : creator'[x] = creator[x] \/ (x = s /\ creator'[x] = "done")
      BY <3>1 DEF TypeOK
    <3>6. \A x \in Sub : MayRun(x)' => MayRun(x)
      BY <3>1, <3>4, <3>5 DEF MayRun
    <3>7. Calm
      BY <3>1, <3>4, <3>5, <3>6 DEF Calm
    <3> QED BY <3>3, <3>7
  <2>2. CASE ~Exists(s)
    BY <1>1, <2>2 DEF CreateAnswered, RowFollowsCreate, MayRun, Running, TypeOK, Calm, Exists
  <2> QED BY <2>1, <2>2
<1> QED BY <1>2, <1>3, OthersFollow, CalmKeeps DEF CreateAnswered

\* A step that writes neither rows nor subscriptions nor creates.
LEMMA RowsStand ==
  ASSUME IInv, UNCHANGED <<row, remote, creator, now>>
  PROVE  \A s \in Sub : RowFollowsCreate(s)'
BY DEF IInv, RowFollowsCreate, Running, Exists, MayRun

LEMMA BeginKeeps ==
  ASSUME TypeOK, TypeOK', IInv, NEW t \in Task, NEW s \in Sub,
         DeleteReads(t, s) \/ ReconcileReads(t, s) \/ \E e \in Event : EventReads(t, s, e)
  PROVE  IInv'
<1>1. RowFollowsCreate(s) /\ Exists(s) /\ creator[s] # "none"
  BY DEF IInv, DeleteReads, ReconcileReads, Unreconciled, EventReads, RowFollowsCreate, Exists
<1>2. UNCHANGED <<row, remote, creator, events, now, asked>>
  BY DEF DeleteReads, ReconcileReads, EventReads
<1>3. CASE DeleteReads(t, s)
  <2>1. PICK o \in {"remove", "removed"} :
          /\ task' = [task EXCEPT ![t] = [op |-> o, sub |-> s]]
          /\ o = "remove" <=> row[s].providerId
    BY <1>3 DEF DeleteReads, Begin
  <2>2. TaskFollowsRow(t)'
    BY <1>1, <1>2, <1>3, <2>1, RowIs
       DEF DeleteReads, TaskFollowsRow, RowFollowsCreate, MayRun, Exists, TypeOK, Status, TERMINAL
  <2>3. Calm
    BY <1>2, <2>1 DEF Calm, MayRun, Exists, TypeOK
  <2> QED BY <1>2, <2>1, <2>2, <2>3, RowsStand, CalmKeeps DEF TypeOK
<1>4. CASE ReconcileReads(t, s)
  <2>1. task' = [task EXCEPT ![t] = [op |-> "lookup", sub |-> s]]
    BY <1>4 DEF ReconcileReads, Begin
  <2>2. TaskFollowsRow(t)'
    BY <1>1, <1>2, <2>1 DEF TaskFollowsRow, TypeOK
  <2>3. Calm
    BY <1>2, <2>1 DEF Calm, MayRun, Exists, TypeOK
  <2> QED BY <1>2, <2>1, <2>2, <2>3, RowsStand, CalmKeeps DEF TypeOK
<1>5. ASSUME NEW e \in Event, EventReads(t, s, e) PROVE IInv'
  <2>1. PICK v \in Event \cup {None} :
          /\ task' = [task EXCEPT ![t] = [op |-> "store", sub |-> s, event |-> e, victim |-> v]]
          /\ v # None => v <= e
    BY <1>5, VictimIs DEF EventReads, Begin
  <2>2. TaskFollowsRow(t)'
    BY <1>1, <1>2, <2>1 DEF TaskFollowsRow, TypeOK
  <2>3. Calm
    BY <1>2, <2>1 DEF Calm, MayRun, Exists, TypeOK
  <2> QED BY <1>2, <2>1, <2>2, <2>3, RowsStand, CalmKeeps DEF TypeOK
<1> QED BY <1>3, <1>4, <1>5

LEMMA DeleteCallsKeeps ==
  ASSUME TypeOK, TypeOK', IInv, NEW t \in Task,
         NEW happened \in BOOLEAN, NEW confirmed \in BOOLEAN, DeleteCalls(t, happened, confirmed)
  PROVE  IInv'
<1>0. PICK s \in Sub : s = task[t].sub
  BY TaskIs DEF DeleteCalls, Doing
<1>1. task[t].op = "remove" /\ TaskFollowsRow(t) /\ RowFollowsCreate(s)
  BY DEF DeleteCalls, Doing, IInv
<1>2. creator[s] # "none" /\ (Exists(s) /\ row[s].expiresAt > now => creator[s] = "done")
  BY <1>0, <1>1 DEF TaskFollowsRow, Idle
<1>3. PICK o \in {"removed", "unremoved"} :
        /\ task' = [task EXCEPT ![t].op = o]
        /\ o = "removed" => happened
  BY DEF DeleteCalls
<1>4. task'[t] = [op |-> o, sub |-> s]
  BY <1>0, <1>1, <1>3, TaskIs DEF TypeOK
<1>5. /\ UNCHANGED <<row, creator, events, now, asked>>
      /\ remote' = IF happened THEN [remote EXCEPT ![s] = None] ELSE remote
  BY <1>0 DEF DeleteCalls
<1>6. RowFollowsCreate(s)'
  BY <1>1, <1>5 DEF RowFollowsCreate, Running, Exists, MayRun, TypeOK
<1>7. OnlyAt(s)
  BY <1>5 DEF OnlyAt, TypeOK
<1>8. MayRun(s)' => MayRun(s) /\ ~happened
  BY <1>1, <1>2, <1>5 DEF MayRun, Exists, TypeOK
<1>9. Calm
  <2>1. \A x \in Task : x # t => task'[x] = task[x]
    BY <1>3 DEF TypeOK
  <2>2. \A x \in Sub : x # s => (MayRun(x)' <=> MayRun(x))
    BY <1>5 DEF MayRun, Exists, TypeOK
  <2> QED BY <1>4, <1>5, <1>8, <2>1, <2>2 DEF Calm, Exists, TypeOK
<1>10. TaskFollowsRow(t)'
  BY <1>2, <1>3, <1>4, <1>5, <1>8 DEF TaskFollowsRow, Exists
<1>11. \A x \in Task : task'[x] = task[x] \/ x = t
  BY <1>3 DEF TypeOK
<1> QED BY <1>1, <1>6, <1>7, <1>9, <1>10, <1>11, OthersFollow, CalmKeeps

LEMMA EndIs ==
  ASSUME TypeOK, NEW t \in Task, End(t)
  PROVE  /\ TaskFollowsRow(t)'
         /\ \A x \in Task : task'[x] = task[x] \/ x = t
         /\ \A x \in Task : task'[x].op = "ask" => task'[x] = task[x]
BY DEF End, TypeOK, TaskFollowsRow, Idle

LEMMA DeleteMarksKeeps ==
  ASSUME TypeOK, TypeOK', IInv, NEW t \in Task, DeleteMarks(t)
  PROVE  IInv'
<1>0. PICK s \in Sub : s = task[t].sub
  BY TaskIs DEF DeleteMarks, Doing
<1>1. task[t].op \in {"removed", "unremoved"} /\ TaskFollowsRow(t) /\ RowFollowsCreate(s)
  BY DEF DeleteMarks, Doing, IInv
<1>2. PICK x \in {"deleted", "unknown"} :
        /\ Mark(s, x) /\ x \in Status
        /\ x = "deleted" => ~MayRun(s)
        /\ Exists(s) /\ row[s].expiresAt > now => creator[s] = "done"
  BY <1>0, <1>1 DEF DeleteMarks, Doing, TaskFollowsRow, Idle, Status, TERMINAL
<1>3. UNCHANGED <<remote, creator, events, now, asked>> /\ End(t)
  BY DEF DeleteMarks
<1>4. creator[s] # "none"
  BY <1>0, <1>1 DEF TaskFollowsRow, Idle
<1>5. OnlyAt(s)
  BY <1>1, <1>2, <1>3, MarkIs DEF OnlyAt
<1>6. RowFollowsCreate(s)'
  BY <1>1, <1>2, <1>3, <1>4, MarkIs DEF RowFollowsCreate, MayRun, Running, TERMINAL
<1>7. Calm
  BY <1>1, <1>2, <1>3, MarkIs, EndIs DEF Calm, MayRun, Exists
<1> QED BY <1>1, <1>3, <1>5, <1>6, <1>7, EndIs, OthersFollow, CalmKeeps

LEMMA LooksKeeps ==
  ASSUME TypeOK, TypeOK', IInv, NEW t \in Task, NEW answers \in BOOLEAN, ReconcileLooks(t, answers)
  PROVE  IInv'
<1>1. /\ task[t].sub \in Sub /\ task[t].op = "lookup"
      /\ TaskFollowsRow(t) /\ RowFollowsCreate(task[t].sub)
  BY TaskIs DEF ReconcileLooks, Doing, IInv
<1>2. UNCHANGED <<row, remote, creator, events, now, asked>>
  BY DEF ReconcileLooks
<1>3. TaskFollowsRow(t)' /\ task'[t].op # "ask" /\ \A x \in Task : x # t => task'[x] = task[x]
  <2>1. CASE answers /\ Running(task[t].sub)
    <3>1. task'[t] = [op |-> "found", sub |-> task[t].sub] /\ \A x \in Task : x # t => task'[x] = task[x]
      BY <1>1, <2>1, TaskIs DEF ReconcileLooks, TypeOK
    <3>2. creator[task[t].sub] \in {"landed", "done"}
      BY <1>1, <2>1 DEF RowFollowsCreate, Running, TypeOK
    <3> QED BY <1>2, <3>1, <3>2 DEF TaskFollowsRow
  <2>2. CASE ~(answers /\ Running(task[t].sub))
    BY <2>2 DEF ReconcileLooks, TypeOK, TaskFollowsRow, Idle
  <2> QED BY <2>1, <2>2
<1>4. Calm
  BY <1>2, <1>3 DEF Calm, MayRun, Exists
<1> QED BY <1>2, <1>3, <1>4, RowsStand, CalmKeeps

LEMMA WritesKeeps ==
  ASSUME TypeOK, TypeOK', IInv, NEW t \in Task, ReconcileWrites(t)
  PROVE  IInv'
<1>0. PICK s \in Sub : s = task[t].sub
  BY TaskIs DEF ReconcileWrites, Doing
<1>1. TaskFollowsRow(t) /\ RowFollowsCreate(s)
  BY DEF IInv
<1>2. creator[s] \in {"landed", "done"}
  BY <1>0, <1>1 DEF ReconcileWrites, Doing, TaskFollowsRow, Idle
<1>3. UNCHANGED <<remote, creator, events, now, asked>> /\ End(t)
  BY DEF ReconcileWrites
<1>4. OnlyAt(s) /\ RowFollowsCreate(s)' /\ Calm
  <2>1. CASE Unreconciled(s)
    <3>1. row' = [row EXCEPT ![s] = Named(@)] /\ Exists(s)
      BY <1>0, <2>1 DEF ReconcileWrites, Unreconciled
    <3>2. row[s].expiresAt > now => creator[s] = "done"
      BY <1>1, <1>2, <2>1, <3>1 DEF RowFollowsCreate, Unreconciled
    <3>3. OnlyAt(s)
      BY <1>1, <1>3, <3>1, NamedIs DEF OnlyAt
    <3>4. RowFollowsCreate(s)'
      BY <1>1, <1>2, <1>3, <3>1, <3>2, NamedIs DEF RowFollowsCreate, MayRun, Running, TERMINAL
    <3>5. ASSUME NEW x \in Sub, Exists(x)'
          PROVE  /\ Exists(x) /\ row'[x].device = row[x].device
                 /\ row'[x].expiresAt = row[x].expiresAt /\ row'[x].lastQuery = row[x].lastQuery
      <4>1. CASE x = s
        BY <3>1, <4>1, NamedIs
      <4>2. CASE x # s
        BY <3>1, <3>5, <4>2, NamedIs DEF Exists
      <4> QED BY <4>1, <4>2
    <3>6. \A x \in Sub : MayRun(x)' => MayRun(x)
      BY <1>3, <3>5 DEF MayRun
    <3>7. \A x \in Task : task'[x].op = "ask" => task'[x] = task[x]
      BY <1>3, EndIs
    <3>8. Calm
      BY <1>3, <3>5, <3>6, <3>7 DEF Calm
    <3> QED BY <3>3, <3>4, <3>8
  <2>2. CASE ~Unreconciled(s)
    <3>1. UNCHANGED row
      BY <1>0, <2>2 DEF ReconcileWrites
    <3>2. Calm
      BY <1>3, <3>1, EndIs DEF Calm, MayRun, Exists
    <3> QED BY <1>3, <3>1, <3>2, RowsStand DEF OnlyAt
  <2> QED BY <2>1, <2>2
<1> QED BY <1>1, <1>3, <1>4, EndIs, OthersFollow, CalmKeeps

LEMMA CommitsKeeps ==
  ASSUME TypeOK, TypeOK', IInv, NEW t \in Task, EventCommits(t)
  PROVE  IInv'
<1>1. UNCHANGED <<row, remote, creator, now, asked>> /\ End(t) /\ task[t].sub \in Sub
  BY TaskIs DEF EventCommits, Doing
<1>2. ASSUME NEW s \in Sub, IsFiniteSet(events[s]) PROVE IsFiniteSet(events'[s])
  <2>1. IsFiniteSet(events[s] \ {task[t].victim})
    BY <1>2, FS_Subset
  <2>2. IsFiniteSet((events[s] \ {task[t].victim}) \cup {task[t].event})
    BY <2>1, FS_AddElement
  <2> QED BY <1>1, <1>2, <2>2 DEF EventCommits, TypeOK
<1>3. Calm
  BY <1>1, <1>2, EndIs DEF Calm, MayRun, Exists
<1> QED BY <1>1, <1>3, EndIs, RowsStand, CalmKeeps

\* What a sweep leaves of a row: nothing of one whose time was over, or a status
\* that says its time is over.
LEMMA SweepIs ==
  ASSUME TypeOK, Sweep, NEW s \in Sub
  PROVE  /\ UNCHANGED <<remote, creator, task, now, asked>>
         /\ events'[s] = events[s] \/ events'[s] = {}
         /\ Exists(s)' => /\ Exists(s) /\ events'[s] = events[s]
                          /\ row'[s].device = row[s].device /\ row'[s].expiresAt = row[s].expiresAt
                          /\ row'[s].lastQuery = row[s].lastQuery
                          /\ row'[s].providerId = row[s].providerId
                          /\ \/ row'[s].status = row[s].status
                             \/ row'[s].status = "expired" /\ row[s].expiresAt <= now
         /\ Exists(s) /\ ~Exists(s)' => row[s].expiresAt <= now
<1>1. PICK due \in SUBSET {x \in Sub : Exists(x) /\ EffectiveStatus(x, now) = "expired"} :
      \E gone \in SUBSET {x \in Sub : Exists(x) /\ row[x].expiresAt + Retention < now} :
        /\ row' = [x \in Sub |-> IF x \in gone THEN None ELSE Swept(due)[x]]
        /\ events' = [x \in Sub |-> IF x \in gone THEN {} ELSE events[x]]
        /\ UNCHANGED <<remote, creator, task, now, asked>>
  BY DEF Sweep, ABatchOf
<1>2. PICK gone \in SUBSET {x \in Sub : Exists(x) /\ row[x].expiresAt + Retention < now} :
        /\ row' = [x \in Sub |-> IF x \in gone THEN None ELSE Swept(due)[x]]
        /\ events' = [x \in Sub |-> IF x \in gone THEN {} ELSE events[x]]
        /\ UNCHANGED <<remote, creator, task, now, asked>>
  BY <1>1
<1>3. CASE s \in gone
  BY <1>2, <1>3, RowIs, ConditionsAssumption DEF Exists, TypeOK
<1>4. CASE s \notin gone /\ s \in due
  <2>1. row'[s] = [row[s] EXCEPT !.status = "expired"] /\ Exists(s) /\ row[s] \in Row
    BY <1>2, <1>4, RowIs DEF Swept
  <2>2. row[s].expiresAt <= now \/ row[s].status = "expired"
    BY <1>4 DEF EffectiveStatus
  <2>3. row'[s] \in Row
    BY <2>1 DEF Row, Status, TERMINAL
  <2> QED BY <1>2, <1>4, <2>1, <2>2, <2>3, RowAssumption DEF Exists, Row
<1>5. CASE s \notin gone /\ s \notin due
  BY <1>2, <1>5 DEF Exists, Swept
<1> QED BY <1>3, <1>4, <1>5

LEMMA SweepKeeps ==
  ASSUME TypeOK, TypeOK', IInv, Sweep
  PROVE  IInv'
<1>1. ASSUME NEW s \in Sub PROVE RowFollowsCreate(s)'
  <2>1. RowFollowsCreate(s)
    BY DEF IInv
  <2>2. UNCHANGED <<remote, creator, now>> /\ remote[s] \in Nat \cup {None} /\ now \in Nat
    BY DEF Sweep, TypeOK
  <2>3. CASE ~Exists(s)'
    BY <2>1, <2>2, <2>3, SweepIs, RowIs DEF RowFollowsCreate, Running, Exists
  <2>4. CASE Exists(s)'
    <3>1. Exists(s) /\ row[s].expiresAt \in Nat
      BY <2>4, SweepIs, RowIs
    <3>2. row[s].expiresAt > now => row'[s].status = row[s].status
      BY <2>2, <2>4, <3>1, SweepIs
    <3>3. row'[s].expiresAt = row[s].expiresAt /\ row'[s].providerId = row[s].providerId
          /\ row'[s].status \in {row[s].status, "expired"}
      BY <2>4, SweepIs
    <3> QED BY <2>1, <2>2, <2>4, <3>1, <3>2, <3>3 DEF RowFollowsCreate, MayRun, Running, Exists
  <2> QED BY <2>3, <2>4
<1>2. Calm
  <2>1. UNCHANGED <<remote, creator, task, now, asked>>
    BY DEF Sweep
  <2>2. ASSUME NEW s \in Sub
        PROVE  /\ Exists(s)' => /\ Exists(s)
                                /\ row'[s].device = row[s].device
                                /\ row'[s].expiresAt = row[s].expiresAt
                                /\ row'[s].lastQuery = row[s].lastQuery
               /\ MayRun(s)' => MayRun(s)
               /\ IsFiniteSet(events[s]) => IsFiniteSet(events'[s])
    BY <2>1, SweepIs, FS_EmptySet DEF MayRun
  <2> QED BY <2>1, <2>2 DEF Calm
<1>3. UNCHANGED task
  BY DEF Sweep
<1> QED BY <1>1, <1>2, <1>3, CalmKeeps

\* A request that finds room adds a row no worker and no query knows of yet.
LEMMA ReservesKeeps ==
  ASSUME TypeOK, TypeOK', IInv, NEW s \in Sub, NEW d \in Device, CreateReserves(s, d)
  PROVE  IInv'
<1> DEFINE r == [device |-> d, status |-> "pending", providerId |-> FALSE,
                 expiresAt |-> now + TTL, lastQuery |-> None]
<1>1. /\ creator[s] = "none" /\ RowFollowsCreate(s) /\ AskedFollowsRow(s)
      /\ now \in Nat /\ TTL \in Nat /\ MaxPerDevice \in Nat
      /\ row[s] = None /\ remote[s] = None /\ asked[s] = None
  BY ConditionsAssumption DEF CreateReserves, IInv, RowFollowsCreate, AskedFollowsRow, TypeOK
<1>2. /\ row' = [row EXCEPT ![s] = r] /\ creator' = [creator EXCEPT ![s] = "calling"]
      /\ UNCHANGED <<remote, events, task, now, asked>>
      /\ Cardinality({x \in LiveRows(now) : row[x].device = d}) < MaxPerDevice
  BY DEF CreateReserves, HasRoom
<1>3. /\ \A x \in Sub : x # s => row'[x] = row[x] /\ creator'[x] = creator[x]
      /\ creator'[s] = "calling"
      /\ row'[s].status = "pending" /\ row'[s].device = d /\ ~row'[s].providerId
      /\ row'[s] # None
  <2>1. row'[s] = r /\ r \in Row
    BY <1>1, <1>2 DEF TypeOK, Row, Status
  <2>2. row'[s] # None
    BY <2>1, RowAssumption
  <2>3. row'[s].status = "pending" /\ row'[s].device = d
    BY <2>1
  <2>4. ~row'[s].providerId
    BY <2>1
  <2> QED BY <1>2, <2>2, <2>3, <2>4 DEF TypeOK
<1> HIDE DEF r
<1>4. OnlyAt(s) /\ RowFollowsCreate(s)'
  BY <1>1, <1>2, <1>3 DEF OnlyAt, RowFollowsCreate, Running, Exists, MayRun, TERMINAL
<1>5. \A x \in Sub : AskedFollowsRow(x)'
  BY <1>1, <1>2, <1>3 DEF IInv, AskedFollowsRow, Exists
<1>6. \A t \in Task : task[t] # Idle => task[t].sub \in Sub \ {s}
  <2> SUFFICES ASSUME NEW t \in Task, task[t] # Idle PROVE task[t].sub \in Sub \ {s}
    OBVIOUS
  <2>1. task[t].sub \in Sub
    BY DEF TypeOK, Busy
  <2> QED BY <1>1, <2>1 DEF IInv, TaskFollowsRow
<1>7. ASSUME NEW t \in Task PROVE TaskFollowsRow(t)' /\ QueryFollowsRow(t)'
  <2>1. TaskFollowsRow(t) /\ QueryFollowsRow(t)
    BY DEF IInv
  <2>2. task[t].op = "ask" => task[t] # Idle
    BY DEF Idle
  <2>3. TaskFollowsRow(t)'
    BY <1>2, <1>3, <1>6, <2>1 DEF TaskFollowsRow, MayRun, Exists
  <2>4. QueryFollowsRow(t)'
    BY <1>2, <1>3, <1>6, <2>1, <2>2 DEF QueryFollowsRow, Exists
  <2> QED BY <2>3, <2>4
<1>8. Bounded'
  <2>1. {x \in Sub : Exists(x)'} \subseteq {x \in Sub : Exists(x)} \cup {s}
    BY <1>3 DEF Exists
  <2>2. IsFiniteSet({x \in Sub : Exists(x)} \cup {s})
    BY FS_AddElement DEF IInv, Bounded
  <2>3. IsFiniteSet({x \in Sub : Exists(x)'})
    BY <2>1, <2>2, FS_Subset
  <2> QED BY <1>2, <2>3 DEF IInv, Bounded
<1>9. ASSUME NEW k \in Device
      PROVE  Cardinality({x \in Sub : MayRun(x)' /\ row'[x].device = k}) <= MaxPerDevice
  <2> DEFINE old == {x \in Sub : MayRun(x) /\ row[x].device = k}
             new == {x \in Sub : MayRun(x)' /\ row'[x].device = k}
             live == {x \in LiveRows(now) : row[x].device = k}
  <2>1. \A x \in Sub : x # s => (MayRun(x)' <=> MayRun(x))
    BY <1>2, <1>3 DEF MayRun, Exists
  <2>2. old \subseteq live /\ live \subseteq {x \in Sub : Exists(x)}
    <3>1. ASSUME NEW x \in Sub, MayRun(x) PROVE x \in LiveRows(now)
      <4>1. Exists(x) /\ row[x].expiresAt > now /\ row[x].status \notin TERMINAL
        BY <3>1 DEF IInv, RowFollowsCreate, MayRun
      <4>2. EffectiveStatus(x, now) = row[x].status
        BY <1>1, <4>1, RowIs DEF EffectiveStatus
      <4> QED BY <4>1, <4>2 DEF LiveRows
    <3> QED BY <3>1 DEF LiveRows
  <2>3. IsFiniteSet(live)
    BY <2>2, FS_Subset DEF IInv, Bounded
  <2>4. IsFiniteSet(old) /\ Cardinality(old) <= Cardinality(live)
    BY <2>2, <2>3, FS_Subset
  <2>5. Cardinality(old) \in Nat /\ Cardinality(live) \in Nat
    BY <2>3, <2>4, FS_CardinalityType
  <2>6. CASE k = d
    <3>1. Cardinality(old) + 1 <= MaxPerDevice
      BY <1>1, <1>2, <2>4, <2>5, <2>6
    <3>2. new \subseteq old \cup {s}
      BY <1>3, <2>1
    <3>3. /\ IsFiniteSet(old \cup {s})
          /\ Cardinality(old \cup {s}) \in {Cardinality(old), Cardinality(old) + 1}
      BY <2>4, FS_AddElement
    <3>4. IsFiniteSet(new) /\ Cardinality(new) <= Cardinality(old \cup {s})
      BY <3>2, <3>3, FS_Subset
    <3>5. Cardinality(new) \in Nat
      BY <3>4, FS_CardinalityType
    <3> QED BY <1>1, <2>5, <3>1, <3>3, <3>4, <3>5
  <2>7. CASE k # d
    <3>1. new \subseteq old
      BY <1>3, <2>1, <2>7
    <3>2. IsFiniteSet(new) /\ Cardinality(new) <= Cardinality(old)
      BY <2>4, <3>1, FS_Subset
    <3>3. Cardinality(old) <= MaxPerDevice /\ Cardinality(new) \in Nat
      BY <3>2, FS_CardinalityType DEF IInv, DeviceLimitHolds
    <3> QED BY <1>1, <2>5, <3>2, <3>3
  <2> QED BY <2>6, <2>7
<1>10. \A x \in Sub : RowFollowsCreate(x)'
  BY <1>4, OthersFollow
<1>11. DeviceLimitHolds'
  BY <1>9 DEF DeviceLimitHolds
<1> QED BY <1>5, <1>7, <1>8, <1>10, <1>11 DEF IInv

\* A query takes the pacing clock of its row past every query that was let through.
LEMMA QueryReservesKeeps ==
  ASSUME TypeOK, TypeOK', IInv, NEW t \in Task, NEW s \in Sub, NEW at \in Clock,
         QueryReserves(t, s, at)
  PROVE  IInv'
<1>1. /\ Exists(s) /\ Paced(s, at) /\ RowFollowsCreate(s) /\ AskedFollowsRow(s)
      /\ at \in Nat /\ QueryGap \in Nat /\ row[s].lastQuery \in Nat \cup {None}
      /\ creator[s] # "none"
  BY RowIs, ConditionsAssumption
     DEF QueryReserves, IInv, Clock, TypeOK, RowFollowsCreate, Exists
<1>2. /\ row' = [row EXCEPT ![s].lastQuery = at]
      /\ task' = [task EXCEPT ![t] = [op |-> "ask", sub |-> s, at |-> at]]
      /\ UNCHANGED <<remote, creator, events, now, asked>> /\ task[t] = Idle
  BY DEF QueryReserves, Begin
<1>3. /\ \A x \in Sub : x # s => row'[x] = row[x]
      /\ row'[s] # None /\ row'[s].lastQuery = at /\ row'[s].device = row[s].device
      /\ row'[s].status = row[s].status /\ row'[s].expiresAt = row[s].expiresAt
      /\ row'[s].providerId = row[s].providerId
  <2>1. row'[s] = [row[s] EXCEPT !.lastQuery = at] /\ \A x \in Sub : x # s => row'[x] = row[x]
    BY <1>2 DEF TypeOK
  <2>2. row[s] \in Row
    BY <1>1, RowIs
  <2>3. [row[s] EXCEPT !.lastQuery = at] \in Row
    BY <1>1, <2>2 DEF Row
  <2> QED BY <2>1, <2>2, <2>3, RowAssumption DEF Row
<1>4. /\ \A u \in Task : u # t => task'[u] = task[u]
      /\ task'[t] = [op |-> "ask", sub |-> s, at |-> at]
  BY <1>2 DEF TypeOK
<1>5. OnlyAt(s) /\ RowFollowsCreate(s)'
  BY <1>1, <1>2, <1>3 DEF OnlyAt, RowFollowsCreate, Running, Exists, MayRun
<1>6. \A x \in Sub : (Exists(x)' <=> Exists(x)) /\ (MayRun(x)' <=> MayRun(x))
                     /\ row'[x].device = row[x].device /\ row'[x].expiresAt = row[x].expiresAt
  BY <1>1, <1>2, <1>3 DEF Exists, MayRun
<1>7. ASSUME NEW x \in Sub PROVE AskedFollowsRow(x)'
  <2>1. AskedFollowsRow(x) /\ asked[x] \in Nat \cup {None}
    BY DEF IInv, TypeOK
  <2>2. CASE x # s
    BY <1>2, <1>3, <2>1, <2>2 DEF AskedFollowsRow, Exists
  <2>3. CASE x = s
    <3>1. asked[s] # None => asked[s] <= at
      BY <1>1, <2>1, <2>3 DEF AskedFollowsRow, Paced
    <3>2. at # None
      BY <1>1, ConditionsAssumption
    <3> QED BY <1>1, <1>2, <1>3, <2>3, <3>1, <3>2 DEF AskedFollowsRow
  <2> QED BY <2>2, <2>3
<1>8. ASSUME NEW u \in Task PROVE TaskFollowsRow(u)'
  <2>1. CASE u = t
    BY <1>1, <1>2, <1>4, <2>1 DEF TaskFollowsRow
  <2>2. CASE u # t
    <3>1. TaskFollowsRow(u) /\ (task[u] # Idle => task[u].sub \in Sub) /\ task'[u] = task[u]
      BY <1>4, <2>2 DEF IInv, TypeOK, Busy
    <3> QED BY <1>2, <1>6, <3>1 DEF TaskFollowsRow
  <2> QED BY <2>1, <2>2
\* Queries let through on this row are no later than its clock was, so a gap before this one.
<1>9. ASSUME NEW u \in Task, task[u].op = "ask", task[u].sub = s
      PROVE  task[u].at \in Nat /\ task[u].at + QueryGap <= at /\ task[u].at <= at /\ u # t
  <2>1. QueryFollowsRow(u) /\ task[u].at \in Nat
    BY <1>9, TaskIs DEF IInv
  <2>2. u # t
    BY <1>2, <1>9 DEF Idle
  <2> QED BY <1>1, <1>9, <2>1, <2>2 DEF QueryFollowsRow, Paced
<1>10. QueryFollowsRow(t)'
  <2>1. asked[s] # None => Apart(at, asked[s])
    <3>1. asked[s] \in Nat \cup {None}
      BY DEF TypeOK
    <3> QED BY <1>1, <3>1 DEF AskedFollowsRow, Paced, Apart
  <2>2. \A u \in Task \ {t} : task'[u].op = "ask" /\ task'[u].sub = s => Apart(at, task'[u].at)
    BY <1>1, <1>4, <1>9 DEF Apart
  <2>3. task'[t].sub = s /\ task'[t].at = at /\ row'[s].lastQuery # None
    BY <1>1, <1>3, <1>4, ConditionsAssumption
  <2>4. asked' = asked /\ at <= at /\ row'[s].lastQuery = at
    BY <1>1, <1>2, <1>3
  <2> QED BY <2>1, <2>2, <2>3, <2>4 DEF QueryFollowsRow, Apart
<1>11. ASSUME NEW u \in Task, u # t PROVE QueryFollowsRow(u)'
  <2> SUFFICES ASSUME task[u].op = "ask" PROVE QueryFollowsRow(u)'
    BY <1>4, <1>11 DEF QueryFollowsRow
  <2>1. QueryFollowsRow(u) /\ task'[u] = task[u] /\ task[u].sub \in Sub /\ task[u].at \in Nat
    BY <1>4, <1>11, TaskIs DEF IInv
  <2>2. Exists(task[u].sub)' =>
          row'[task[u].sub].lastQuery # None /\ task[u].at <= row'[task[u].sub].lastQuery
    <3>1. CASE task[u].sub = s
      BY <1>1, <1>3, <1>9, <3>1, ConditionsAssumption
    <3>2. CASE task[u].sub # s
      BY <1>3, <1>6, <2>1, <3>2 DEF QueryFollowsRow
    <3> QED BY <3>1, <3>2
  <2>3. task[u].sub = s => Apart(task[u].at, at)
    BY <1>1, <1>9 DEF Apart
  <2> QED BY <1>2, <1>4, <2>1, <2>2, <2>3 DEF QueryFollowsRow, Apart
<1>12. DeviceLimitHolds' /\ Bounded'
  BY <1>2, <1>6 DEF IInv, DeviceLimitHolds, Bounded
<1>13. \A x \in Sub : RowFollowsCreate(x)'
  BY <1>5, OthersFollow
<1> QED BY <1>7, <1>8, <1>10, <1>11, <1>12, <1>13 DEF IInv

LEMMA QueryCallsKeeps ==
  ASSUME TypeOK, TypeOK', IInv, NEW t \in Task, QueryCalls(t)
  PROVE  IInv'
<1>0. PICK s \in Sub : s = task[t].sub
  BY TaskIs DEF QueryCalls, Doing
<1>1. /\ task[t].op = "ask" /\ task[t].at \in Nat
      /\ TaskFollowsRow(t) /\ QueryFollowsRow(t)
  BY TaskIs DEF QueryCalls, Doing, IInv
<1>2. UNCHANGED <<row, remote, creator, events, now>> /\ End(t)
  BY DEF QueryCalls
<1>3. asked' = [asked EXCEPT ![s] = task[t].at]
  BY <1>0 DEF QueryCalls
<1>4. \A x \in Sub : RowFollowsCreate(x)'
  BY <1>2, RowsStand
<1>5. ASSUME NEW x \in Sub PROVE AskedFollowsRow(x)'
  <2>1. CASE x = s
    BY <1>0, <1>1, <1>2, <1>3, <2>1 DEF TaskFollowsRow, QueryFollowsRow, AskedFollowsRow, Exists,
       TypeOK, Idle
  <2>2. CASE x # s
    BY <1>2, <1>3, <2>2 DEF IInv, AskedFollowsRow, Exists, TypeOK
  <2> QED BY <2>1, <2>2
<1>6. ASSUME NEW u \in Task PROVE TaskFollowsRow(u)' /\ QueryFollowsRow(u)'
  <2>1. CASE u = t
    <3>1. task'[t] = Idle
      BY <1>2 DEF End, TypeOK
    <3> QED BY <2>1, <3>1 DEF TaskFollowsRow, QueryFollowsRow, Idle
  <2>2. CASE u # t
    <3>1. task'[u] = task[u] /\ TaskFollowsRow(u) /\ QueryFollowsRow(u)
      BY <1>2, <2>2 DEF End, IInv, TypeOK
    <3>2. TaskFollowsRow(u)'
      BY <1>2, <3>1 DEF TaskFollowsRow, Exists, MayRun
    <3>3. QueryFollowsRow(u)'
      <4> SUFFICES ASSUME task[u].op = "ask" PROVE QueryFollowsRow(u)'
        BY <3>1 DEF QueryFollowsRow
      <4>1. task[u].sub \in Sub
        BY TaskIs
      <4>2. asked'[task[u].sub] # None => Apart(task[u].at, asked'[task[u].sub])
        BY <1>0, <1>1, <1>3, <2>2, <3>1, <4>1 DEF QueryFollowsRow, TypeOK
      <4>3. \A v \in Task \ {u} : task'[v].op = "ask" => task'[v] = task[v]
        BY <1>2, EndIs
      <4> QED BY <1>2, <3>1, <4>1, <4>2, <4>3 DEF QueryFollowsRow, Exists, Apart
    <3> QED BY <3>2, <3>3
  <2> QED BY <2>1, <2>2
<1>7. DeviceLimitHolds' /\ Bounded'
  BY <1>2 DEF IInv, DeviceLimitHolds, Bounded, MayRun, Exists
<1> QED BY <1>4, <1>5, <1>6, <1>7 DEF IInv

LEMMA TickKeeps ==
  ASSUME TypeOK, TypeOK', IInv, Tick
  PROVE  IInv'
<1>1. UNCHANGED <<row, remote, creator, events, task, asked>> /\ now' = now + 1 /\ now \in Nat
  BY DEF Tick, TypeOK
<1>2. ASSUME NEW s \in Sub
      PROVE  /\ Running(s)' => Running(s)
             /\ MayRun(s)' => MayRun(s)
             /\ Exists(s) /\ row[s].expiresAt > now' => row[s].expiresAt > now
  BY <1>1, RowIs DEF Running, MayRun, Exists, TypeOK
<1>3. ASSUME NEW s \in Sub PROVE RowFollowsCreate(s)'
  BY <1>1, <1>2 DEF IInv, RowFollowsCreate, Exists
<1>4. Calm
  BY <1>1, <1>2 DEF Calm, Exists
<1> QED BY <1>1, <1>3, <1>4, CalmKeeps

\* Every step keeps the inductive invariant.
LEMMA ConditionsStep == TypeOK /\ IInv /\ [Next]_vars => IInv'
<1> SUFFICES ASSUME TypeOK, IInv, [Next]_vars PROVE IInv'
  OBVIOUS
<1>t. TypeOK'
  BY ConditionsTypeStep
<1>1. CASE UNCHANGED vars
  BY <1>1, <1>t, RowsStand, CalmKeeps DEF vars, Calm, MayRun, Exists
<1>2. CASE Sweep \/ Tick
  BY <1>2, <1>t, SweepKeeps, TickKeeps
<1>3. ASSUME NEW s \in Sub,
             \/ \E d \in Device : CreateReserves(s, d)
             \/ CreateLands(s) \/ CreateUnsupported(s) \/ CreateRejected(s)
             \/ CreateUnanswered(s) \/ CreateAnswered(s)
      PROVE  IInv'
  BY <1>3, <1>t, ReservesKeeps, LandsKeeps, UnsupportedKeeps, RejectedKeeps, UnansweredKeeps,
     AnsweredKeeps
<1>4. ASSUME NEW t \in Task, NEW s \in Sub,
             \/ DeleteReads(t, s) \/ ReconcileReads(t, s)
             \/ \E at \in Clock : QueryReserves(t, s, at)
             \/ \E e \in Event : EventReads(t, s, e)
      PROVE  IInv'
  BY <1>4, <1>t, BeginKeeps, QueryReservesKeeps
<1>5. ASSUME NEW t \in Task,
             \/ \E happened, confirmed \in BOOLEAN : DeleteCalls(t, happened, confirmed)
             \/ DeleteMarks(t)
             \/ \E answers \in BOOLEAN : ReconcileLooks(t, answers)
             \/ ReconcileWrites(t) \/ QueryCalls(t) \/ EventCommits(t)
      PROVE  IInv'
  BY <1>5, <1>t, DeleteCallsKeeps, DeleteMarksKeeps, LooksKeeps, WritesKeeps, QueryCallsKeeps,
     CommitsKeeps
<1> QED BY <1>1, <1>2, <1>3, <1>4, <1>5 DEF Next

\* What the rows of congestion subscriptions, and the workers busy with them, say
\* of the operator, for every number of either and every limit.
THEOREM ConditionsInvariance == Spec => [](TypeOK /\ IInv)
<1>1. Init => TypeOK
  BY DEF Init, TypeOK
<1>2. Init => IInv
  <2> SUFFICES ASSUME Init PROVE IInv
    OBVIOUS
  <2>1. \A s \in Sub : ~Exists(s) /\ ~MayRun(s) /\ ~Running(s) /\ events[s] = {}
    BY DEF Init, Exists, MayRun, Running
  <2>2. Bounded
    BY <2>1, FS_EmptySet DEF Bounded
  <2>3. DeviceLimitHolds
    <3>1. \A d \in Device : {s \in Sub : MayRun(s) /\ row[s].device = d} = {}
      BY <2>1
    <3>2. Cardinality({}) = 0 /\ MaxPerDevice \in Nat
      BY FS_EmptySet, ConditionsAssumption
    <3> QED BY <3>1, <3>2 DEF DeviceLimitHolds
  <2> QED BY <2>1, <2>2, <2>3
          DEF Init, IInv, RowFollowsCreate, AskedFollowsRow, TaskFollowsRow, QueryFollowsRow, Idle
<1>3. TypeOK /\ [Next]_vars => TypeOK'
  BY ConditionsTypeStep
<1>4. TypeOK /\ IInv /\ [Next]_vars => IInv'
  BY ConditionsStep
<1> QED BY <1>1, <1>2, <1>3, <1>4, PTL DEF Spec

\* However creates, lost answers, reconciliations, deletes and retention interleave,
\* what runs at the operator is accounted for, and never more than the limit of a
\* number (create, delete, reconcile, _active_counts).
THEOREM RemoteAccounted == Spec => []RemoteIsAccountedFor
<1>1. TypeOK /\ IInv => RemoteIsAccountedFor
  <2> SUFFICES ASSUME TypeOK, IInv PROVE RemoteIsAccountedFor
    OBVIOUS
  <2>1. ASSUME NEW s \in Sub, Running(s) PROVE MayRun(s) /\ row[s].status \notin TERMINAL
    <3>1. RowFollowsCreate(s)
      BY DEF IInv
    <3> QED BY <2>1, <3>1 DEF RowFollowsCreate, Running, MayRun
  <2>2. NoLeakedSubscription
    BY <2>1 DEF NoLeakedSubscription, MayRun, TERMINAL
  <2>3. ASSUME NEW d \in Device
        PROVE  Cardinality({s \in Sub : Running(s) /\ Exists(s) /\ row[s].device = d}) <= MaxPerDevice
    <3> DEFINE run == {s \in Sub : Running(s) /\ Exists(s) /\ row[s].device = d}
               may == {s \in Sub : MayRun(s) /\ row[s].device = d}
    <3>1. run \subseteq may /\ may \subseteq {s \in Sub : Exists(s)}
      BY <2>1 DEF MayRun
    <3>2. IsFiniteSet(may)
      BY <3>1, FS_Subset DEF IInv, Bounded
    <3>3. IsFiniteSet(run) /\ Cardinality(run) <= Cardinality(may)
      BY <3>1, <3>2, FS_Subset
    <3>4. Cardinality(run) \in Nat /\ Cardinality(may) \in Nat /\ MaxPerDevice \in Nat
      BY <3>2, <3>3, FS_CardinalityType, ConditionsAssumption
    <3>5. Cardinality(may) <= MaxPerDevice
      BY DEF IInv, DeviceLimitHolds
    <3> QED BY <3>3, <3>4, <3>5
  <2> QED BY <2>2, <2>3 DEF RemoteIsAccountedFor, DeviceLimitHoldsAtOperator
<1> QED BY <1>1, ConditionsInvariance, PTL

\* Queries of a subscription reach the operator a gap apart by the clocks their
\* handlers read, whichever of them took the lock first (query).
THEOREM QueriesPaced == Spec => QueriesArePaced
<1>1. ASSUME TypeOK, IInv, [Next]_vars
      PROVE  [\A t \in Task : Doing(t, "ask") /\ task'[t] = Idle =>
                LET last == asked[task[t].sub] IN
                last # None => \/ task[t].at >= last + QueryGap
                               \/ last >= task[t].at + QueryGap]_vars
  <2> SUFFICES ASSUME NEW t \in Task, task[t].op = "ask", asked[task[t].sub] # None
               PROVE  \/ task[t].at >= asked[task[t].sub] + QueryGap
                      \/ asked[task[t].sub] >= task[t].at + QueryGap
    BY DEF Doing
  <2>1. QueryFollowsRow(t)
    BY <1>1 DEF IInv
  <2> QED BY <2>1 DEF QueryFollowsRow, Apart
<1> QED BY <1>1, ConditionsInvariance, PTL DEF Spec, QueriesArePaced

\* While a row is there its newest reading is never replaced by an older one,
\* whatever callbacks race for the table and whatever is evicted (accept_event).
THEOREM LatestStands == Spec => LatestReadingStands
<1>1. ASSUME TypeOK, TypeOK', IInv, IInv', [Next]_vars
      PROVE  [\A s \in Sub : Exists(s) /\ row'[s] # None
                             => NewestEvent(events'[s]) >= NewestEvent(events[s])]_vars
  <2> SUFFICES ASSUME NEW s \in Sub, Exists(s), row'[s] # None
               PROVE  NewestEvent(events'[s]) >= NewestEvent(events[s])
    OBVIOUS
  <2>1. IsFiniteSet(events[s]) /\ IsFiniteSet(events'[s]) /\ events[s] \in SUBSET Nat /\ events'[s] \in SUBSET Nat
    BY <1>1, ConditionsAssumption DEF IInv, Bounded, TypeOK
  <2>2. /\ NewestEvent(events[s]) \in Nat /\ NewestEvent(events'[s]) \in Nat
        /\ \A n \in events'[s] : n <= NewestEvent(events'[s])
        /\ \A n \in events[s] : n <= NewestEvent(events[s])
        /\ events[s] # {} => NewestEvent(events[s]) \in events[s]
    BY <1>1, <2>1, NewestIs
  <2>3. CASE events'[s] = events[s]
    BY <2>2, <2>3
  <2>4. ASSUME NEW t \in Task, EventCommits(t), events'[s] # events[s]
        PROVE  NewestEvent(events'[s]) >= NewestEvent(events[s])
    <3>1. /\ s = task[t].sub /\ task[t].op = "store"
          /\ events'[s] = (events[s] \ {task[t].victim}) \cup {task[t].event}
      BY <1>1, <2>4, TaskIs DEF EventCommits, Doing, TypeOK
    <3>2. task[t].event \in Nat /\ task[t].victim \in Nat \cup {None}
      BY <1>1, <3>1, TaskIs, ConditionsAssumption
    <3>3. task[t].victim # None => task[t].victim <= task[t].event
      BY <1>1, <3>1 DEF IInv, TaskFollowsRow, Idle
    <3>4. CASE events[s] = {}
      BY <2>2, <3>4 DEF NewestEvent
    <3>5. CASE events[s] # {} /\ NewestEvent(events[s]) # task[t].victim
      BY <2>2, <3>1, <3>5
    <3>6. CASE NewestEvent(events[s]) = task[t].victim
      <4>1. task[t].victim # None /\ task[t].event \in events'[s]
        BY <2>2, <3>1, <3>6, ConditionsAssumption
      <4> QED BY <2>2, <3>2, <3>3, <3>6, <4>1
    <3> QED BY <3>4, <3>5, <3>6
  <2>5. CASE Sweep
    BY <1>1, <2>3, <2>5, SweepIs DEF Exists
  <2> QED BY <1>1, <2>3, <2>4, <2>5
          DEF Next, vars, Tick, CreateReserves, CreateLands, CreateUnsupported, CreateRejected,
              CreateUnanswered, CreateAnswered, DeleteReads, ReconcileReads, QueryReserves,
              EventReads, DeleteCalls, DeleteMarks, ReconcileLooks, ReconcileWrites, QueryCalls
<1> QED BY <1>1, ConditionsInvariance, PTL DEF Spec, LatestReadingStands

-----------------------------------------------------------------------------
(* Outcome labels: OutcomeLabels, for every set of callers, values and     *)
(* events and every retention.                                             *)

CONSTANTS OutcomeRetention, KeyTTL, OutcomeTime
VARIABLE outcomeNow

L == INSTANCE OutcomeLabels WITH
       Retention <- OutcomeRetention, MaxTime <- OutcomeTime, now <- outcomeNow

\* The two forms of a call that carry a request, and the one that carries an answer.
LEMMA CallTypes ==
  ASSUME NEW q \in L!Submission, NEW a \in OutcomeEvent \cup L!Refusals
  PROVE  /\ [pc |-> "idle"] \in L!Call
         /\ [pc |-> "sent", request |-> q] \in L!Call
         /\ [pc |-> "read", request |-> q] \in L!Call
         /\ [pc |-> "answered", request |-> q, answer |-> a] \in L!Call
BY DEF L!Call

LEMMA CallIs ==
  ASSUME L!TypeOK, NEW c \in L!Caller
  PROVE  /\ call[c].pc \in {"idle", "sent", "read", "answered"}
         /\ call[c].pc # "idle" => call[c].request \in L!Submission
         /\ call[c].pc = "answered" => call[c].answer \in OutcomeEvent \cup L!Refusals
         /\ call[c].pc = "sent" =>
              [call[c] EXCEPT !.pc = "read"] = [pc |-> "read", request |-> call[c].request]
BY DEF L!TypeOK, L!LabelsTyped, L!Call

\* A stored event is a label; any other names nothing.
LEMMA LabelIs ==
  ASSUME L!TypeOK, NEW e \in OutcomeEvent
  PROVE  /\ e \in L!Stored => event[e] \in L!Label
         /\ e \notin L!Stored => event[e] \in {L!NotYet, L!Gone}
BY DEF L!TypeOK, L!LabelsTyped, L!Stored, L!Label, L!NotYet, L!Gone

\* What a record answers is an answer.
LEMMA ReplayTypes ==
  ASSUME L!TypeOK, NEW q \in L!Submission
  PROVE  /\ L!ReplayOf(q) \subseteq OutcomeEvent \cup L!Refusals
         /\ L!Refusal(q) \in L!Refusals
BY DEF L!TypeOK, L!LabelsTyped, L!ReplayOf, L!RecordFor, L!Refusal, L!Refusals

\* A committing request stores a fresh label in place of the one it supersedes.
Stores(c, e) ==
  LET q == call[c].request
      old == q.body.supersedes
  IN  /\ call[c].pc = "read"
      /\ IF old = NoEvent THEN L!Current = {} ELSE old \in L!Current
      /\ L!RecordFor(q.key) = {}
      /\ event[e] = L!NotYet
      /\ event' = [x \in OutcomeEvent |->
           IF x = e THEN L!Row(q)
           ELSE IF x = old THEN [event[x] EXCEPT !.supersededBy = e]
           ELSE event[x]]
      /\ record' = record \cup {[key |-> q.key, body |-> q.body, event |-> e, created |-> outcomeNow]}
      /\ L!Answer(c, e)
      /\ UNCHANGED <<outcomeNow, known, pending>>

\* Anything else a call does leaves the labels and the records as they are.
Speaks(c) ==
  \/ \E q \in L!Submission : L!Send(c, q)
  \/ call' = [call EXCEPT ![c] = [pc |-> "idle"]]
  \/ call[c].pc = "sent" /\ call' = [call EXCEPT ![c] = [pc |-> "read", request |-> call[c].request]]
  \/ /\ call[c].pc \in {"sent", "read"}
     /\ \E a \in L!ReplayOf(call[c].request) \cup {L!Refusal(call[c].request)} : L!Answer(c, a)

LEMMA CallSteps ==
  ASSUME L!OutcomeAssumption, L!TypeOK, NEW c \in L!Caller,
         \/ \E v \in Value : L!Click(c, v) \/ \E e \in OutcomeEvent \cup {NoEvent} : L!Report(c, v, e)
         \/ L!Learn(c) \/ L!AnswerLost(c) \/ L!Reads(c) \/ L!Commits(c)
  PROVE  /\ \/ \E e \in OutcomeEvent : Stores(c, e)
            \/ Speaks(c) /\ UNCHANGED <<event, record>>
         /\ outcomeNow' = outcomeNow
         /\ known' \in OutcomeEvent \cup {NoEvent}
         /\ pending' = NoEvent \/ pending' \in L!Submission
<1> USE DEF L!OutcomeAssumption
<1>1. ASSUME NEW v \in Value, L!Click(c, v)
      PROVE  Speaks(c) /\ UNCHANGED <<event, record, outcomeNow, known>> /\ pending' \in L!Submission
  <2>1. L!Frozen(v) \in L!Submission
    <3>1. L!Fresh(v) \in L!Submission
      BY DEF L!TypeOK, L!LabelsTyped, L!Fresh, L!Submission, L!ReportKey, L!Body
    <3> QED BY <3>1 DEF L!TypeOK, L!LabelsTyped, L!Frozen
  <2> QED BY <1>1, <2>1 DEF L!Click, Speaks
<1>2. ASSUME NEW v \in Value, NEW e \in OutcomeEvent \cup {NoEvent}, L!Report(c, v, e)
      PROVE  Speaks(c) /\ UNCHANGED <<event, record, outcomeNow, known, pending>>
  <2>1. [key |-> L!MerchantKey, body |-> [value |-> v, at |-> 0, supersedes |-> e]] \in L!Submission
    BY DEF L!Submission, L!ReportKey, L!Body
  <2> QED BY <1>2, <2>1 DEF L!Report, Speaks
<1>3. CASE L!Learn(c)
  BY <1>3 DEF L!Learn, Speaks, L!TypeOK, L!LabelsTyped
<1>4. CASE L!AnswerLost(c)
  BY <1>4 DEF L!AnswerLost, Speaks, L!TypeOK, L!LabelsTyped
<1>5. CASE L!Reads(c)
  BY <1>5, CallIs DEF L!Reads, Speaks, L!TypeOK, L!LabelsTyped
<1>6. CASE L!Commits(c)
  BY <1>6 DEF L!Commits, Speaks, Stores, L!Supersedes, L!TypeOK, L!LabelsTyped
<1> QED BY <1>1, <1>2, <1>3, <1>4, <1>5, <1>6 DEF L!TypeOK, L!LabelsTyped

LEMMA SpeaksTypes ==
  ASSUME L!TypeOK, NEW c \in L!Caller, Speaks(c)
  PROVE  call' \in [L!Caller -> L!Call]
<1>1. ASSUME NEW x \in L!Call, call' = [call EXCEPT ![c] = x] PROVE call' \in [L!Caller -> L!Call]
  BY <1>1 DEF L!TypeOK, L!LabelsTyped
<1>2. ASSUME NEW a \in L!ReplayOf(call[c].request) \cup {L!Refusal(call[c].request)},
             call[c].pc \in {"sent", "read"}
      PROVE  [pc |-> "answered", request |-> call[c].request, answer |-> a] \in L!Call
  BY <1>2, CallIs, ReplayTypes, CallTypes
<1>3. /\ [pc |-> "idle"] \in L!Call
      /\ \A q \in L!Submission : [pc |-> "sent", request |-> q] \in L!Call
                            /\ [pc |-> "read", request |-> q] \in L!Call
  BY DEF L!Call
<1> QED BY <1>1, <1>2, <1>3, CallIs DEF Speaks, L!Send, L!Answer

\* A stored label and its record have their types, and its key was free.
LEMMA StoresTypes ==
  ASSUME L!OutcomeAssumption, L!TypeOK, NEW c \in L!Caller, NEW e \in OutcomeEvent, Stores(c, e)
  PROVE  /\ event' \in [OutcomeEvent -> {L!NotYet, L!Gone} \cup L!Label]
         /\ \A r \in record' : r \in [key : L!ReportKey, body : L!Body, event : OutcomeEvent, created : Nat]
         /\ \A r, s \in record' : r.key = s.key => r = s
         /\ call' \in [L!Caller -> L!Call]
<1> DEFINE q == call[c].request
           old == q.body.supersedes
<1>1. q \in L!Submission /\ q.key \in L!ReportKey /\ q.body \in L!Body /\ outcomeNow \in Nat
  <2>1. q \in L!Submission
    BY CallIs DEF Stores
  <2>2. outcomeNow \in Nat
    BY DEF L!OutcomeAssumption, L!TypeOK, L!LabelsTyped
  <2> QED BY <2>1, <2>2 DEF L!Submission
<1>2. L!Row(q) \in L!Label
  BY <1>1 DEF L!Row, L!Label, L!Body
<1>3. ASSUME NEW x \in OutcomeEvent, x = old PROVE [event[x] EXCEPT !.supersededBy = e] \in L!Label
  <2>1. event[x] \in L!Label
    BY <1>3, LabelIs DEF L!OutcomeAssumption, Stores, L!Current
  <2> QED BY <2>1 DEF L!Label
<1>4. event' \in [OutcomeEvent -> {L!NotYet, L!Gone} \cup L!Label]
  BY <1>2, <1>3 DEF Stores, L!TypeOK, L!LabelsTyped
<1>5. \A r \in record' : r \in [key : L!ReportKey, body : L!Body, event : OutcomeEvent, created : Nat]
  BY <1>1 DEF Stores, L!TypeOK, L!LabelsTyped
<1>6. \A r, s \in record' : r.key = s.key => r = s
  BY DEF Stores, L!TypeOK, L!LabelsTyped, L!RecordFor
<1>7. call' \in [L!Caller -> L!Call]
  BY <1>1, CallTypes DEF Stores, L!Answer, L!TypeOK, L!LabelsTyped
<1> QED BY <1>4, <1>5, <1>6, <1>7

\* Every step keeps the variables in their types, and the keys of records unique.
LEMMA LabelTypeStep ==
  ASSUME L!OutcomeAssumption
  PROVE  L!TypeOK /\ [L!Next]_(L!vars) => L!TypeOK'
<1> SUFFICES ASSUME L!TypeOK, [L!Next]_(L!vars) PROVE L!TypeOK'
  OBVIOUS
<1> USE DEF L!OutcomeAssumption
<1>1. ASSUME NEW c \in L!Caller,
             \/ \E v \in Value : L!Click(c, v) \/ \E e \in OutcomeEvent \cup {NoEvent} : L!Report(c, v, e)
             \/ L!Learn(c) \/ L!AnswerLost(c) \/ L!Reads(c) \/ L!Commits(c)
      PROVE  L!TypeOK'
  <2>1. outcomeNow' = outcomeNow /\ known' \in OutcomeEvent \cup {NoEvent} /\ (pending' = NoEvent \/ pending' \in L!Submission)
    BY <1>1, CallSteps
  <2>2. ASSUME NEW e \in OutcomeEvent, Stores(c, e) PROVE L!TypeOK'
    BY <2>1, <2>2, StoresTypes DEF L!TypeOK, L!LabelsTyped
  <2>3. CASE Speaks(c) /\ UNCHANGED <<event, record>>
    BY <2>1, <2>3, SpeaksTypes DEF L!TypeOK, L!LabelsTyped
  <2> QED BY <1>1, <2>2, <2>3, CallSteps
<1>2. CASE L!PurgeOutcomes
  BY <1>2 DEF L!PurgeOutcomes, L!TypeOK, L!LabelsTyped
<1>3. CASE L!PurgeRecords
  BY <1>3 DEF L!PurgeRecords, L!TypeOK, L!LabelsTyped
<1>4. CASE L!Tick
  BY <1>4 DEF L!Tick, L!TypeOK, L!LabelsTyped
<1>5. CASE UNCHANGED L!vars
  BY <1>5 DEF L!vars, L!TypeOK, L!LabelsTyped
<1> QED BY <1>1, <1>2, <1>3, <1>4, <1>5 DEF L!Next

\* The labels, the records and the calls always have the shapes TypeOK gives them.
THEOREM LabelTypes ==
  ASSUME L!OutcomeAssumption
  PROVE  L!Spec => []L!TypeOK
<1>1. L!Init => L!TypeOK
  BY DEF L!OutcomeAssumption, L!Init, L!TypeOK, L!LabelsTyped, L!Call
<1> QED BY <1>1, LabelTypeStep, PTL DEF L!Spec

-----------------------------------------------------------------------------
\* A commit keeps the line: it appends to the current label, or begins a line
\* where there is none.
LEMMA StoresKeeps ==
  ASSUME L!OutcomeAssumption, L!TypeOK, L!TypeOK', L!IInv, NEW c \in L!Caller, NEW e \in OutcomeEvent, Stores(c, e)
  PROVE  L!IInv'
<1> USE DEF L!OutcomeAssumption, L!IInv
<1> DEFINE q == call[c].request
           old == q.body.supersedes
<1>1. q \in L!Submission /\ q.body \in L!Body /\ old \in OutcomeEvent \cup {NoEvent}
  BY CallIs DEF Stores, L!Submission, L!Body
<1>2. e \notin L!Stored /\ event[e].state = "unused" /\ e # NoEvent /\ e # old
  BY DEF Stores, L!Stored, L!Current, L!NotYet
<1>3. /\ event'[e] = [state |-> "stored", value |-> q.body.value, supersedes |-> old,
                      supersededBy |-> NoEvent, reported |-> outcomeNow]
      /\ \A x \in OutcomeEvent : x # e /\ x # old => event'[x] = event[x]
  BY DEF Stores, L!Row
<1>4. old \in L!Current \/ (old = NoEvent /\ L!Current = {})
  BY DEF Stores
<1>5. old # NoEvent =>
        /\ old \in L!Stored /\ event[old].supersededBy = NoEvent
        /\ event'[old].state = "stored" /\ event'[old].value = event[old].value
        /\ event'[old].supersedes = event[old].supersedes
        /\ event'[old].supersededBy = e
  <2> SUFFICES ASSUME old # NoEvent PROVE
        /\ old \in L!Stored /\ event[old].supersededBy = NoEvent
        /\ event'[old].state = "stored" /\ event'[old].value = event[old].value
        /\ event'[old].supersedes = event[old].supersedes
        /\ event'[old].supersededBy = e
    OBVIOUS
  <2>1. old \in OutcomeEvent /\ old \in L!Stored /\ event[old].supersededBy = NoEvent
    BY <1>1, <1>4 DEF L!Current
  <2>2. event[old] \in L!Label
    BY <2>1, LabelIs
  <2>3. event'[old] = [event[old] EXCEPT !.supersededBy = e]
    BY <1>2, <2>1 DEF Stores
  <2> QED BY <2>1, <2>2, <2>3 DEF L!Label
<1>6. L!Stored' = L!Stored \cup {e}
  <2>1. event'[e].state = "stored"
    BY <1>3
  <2>2. \A x \in OutcomeEvent : x # e => (event'[x].state = "stored" <=> event[x].state = "stored")
    BY <1>3, <1>5 DEF L!Stored
  <2> QED BY <2>1, <2>2 DEF L!Stored
<1>7. \A x \in L!Stored :
        /\ event'[x].value = event[x].value /\ event'[x].supersedes = event[x].supersedes
        /\ event'[x].supersededBy = IF x = old THEN e ELSE event[x].supersededBy
        /\ x # e /\ x \in OutcomeEvent
  BY <1>2, <1>3, <1>5 DEF L!Stored
<1>8. \A x \in OutcomeEvent : event[x].state # "unused" => event'[x].state # "unused"
  BY <1>3, <1>5
<1>9. \A x \in L!Stored : event[x].supersedes # e /\ event[x].supersededBy # e
  BY <1>2 DEF L!NamedWereStored
<1>10. \A x \in L!Stored : event[x].supersedes = old => old = NoEvent
  <2>1. ASSUME NEW x \in L!Stored, event[x].supersedes = old, old # NoEvent PROVE FALSE
    BY <1>5, <1>7, <2>1 DEF L!LinksMatch, L!Stored
  <2> QED BY <2>1
<1>11. L!Current' = {e}
  <2>1. e \in L!Current'
    BY <1>3, <1>6 DEF L!Current
  <2>2. ASSUME NEW x \in L!Stored, event'[x].supersededBy = NoEvent PROVE FALSE
    <3>1. x # old /\ event[x].supersededBy = NoEvent
      BY <1>2, <1>7, <2>2
    <3>2. x \in L!Current
      BY <3>1 DEF L!Current
    <3> QED BY <1>4, <3>1, <3>2
  <2> QED BY <1>6, <2>1, <2>2 DEF L!Current
<1>12. \A x, y \in L!Stored' :
         x # y /\ event'[x].supersedes # NoEvent => event'[x].supersedes # event'[y].supersedes
  BY <1>3, <1>6, <1>7, <1>10
<1>13. L!NamedWereStored'
  <2>1. ASSUME NEW x \in L!Stored', NEW y \in {event'[x].supersedes, event'[x].supersededBy} \ {NoEvent}
        PROVE  event'[y].state # "unused"
    <3>1. CASE x = e
      BY <1>3, <1>5, <3>1
    <3>2. CASE x # e
      <4>1. x \in L!Stored
        BY <1>6, <3>2
      <4>2. CASE y = e
        BY <1>3, <4>2
      <4>3. CASE y \in {event[x].supersedes, event[x].supersededBy} /\ y \in OutcomeEvent
        BY <1>8, <4>1, <4>3 DEF L!NamedWereStored
      <4>4. event[x].supersedes \in OutcomeEvent \cup {NoEvent} /\ event[x].supersededBy \in OutcomeEvent \cup {NoEvent}
        BY <1>7, <4>1, LabelIs DEF L!Label
      <4> QED BY <1>7, <4>1, <4>2, <4>3, <4>4
    <3> QED BY <3>1, <3>2
  <2>2. ASSUME NEW r \in record' PROVE event'[r.event].state # "unused"
    <3>1. CASE r \in record
      BY <1>8, <3>1 DEF L!NamedWereStored, L!TypeOK, L!LabelsTyped
    <3>2. CASE r.event = e
      BY <1>3, <3>2
    <3> QED BY <3>1, <3>2 DEF Stores
  <2>3. ASSUME NEW d \in L!Caller, call'[d].pc = "answered", call'[d].answer \in OutcomeEvent
        PROVE  event'[call'[d].answer].state # "unused"
    <3>1. CASE d = c
      BY <1>3, <3>1 DEF Stores, L!Answer, L!TypeOK, L!LabelsTyped
    <3>2. CASE d # c
      BY <1>8, <2>3, <3>2 DEF Stores, L!Answer, L!TypeOK, L!LabelsTyped, L!NamedWereStored
    <3> QED BY <3>1, <3>2
  <2> QED BY <2>1, <2>2, <2>3 DEF L!NamedWereStored
<1>14. L!LinksMatch'
  <2>1. ASSUME NEW x \in L!Stored', NEW y \in L!Stored', event'[x].supersedes = y
        PROVE  event'[y].supersededBy = x
    <3>1. CASE x = e
      BY <1>1, <1>3, <1>5, <2>1, <3>1 DEF L!Stored
    <3>2. CASE x # e
      BY <1>6, <1>7, <1>9, <1>10, <2>1, <3>2 DEF L!LinksMatch, L!Stored
    <3> QED BY <3>1, <3>2
  <2>2. ASSUME NEW x \in L!Stored', NEW y \in L!Stored', event'[x].supersededBy = y
        PROVE  event'[y].supersedes = x
    <3>1. CASE x = e
      BY <1>3, <2>2, <3>1 DEF L!Stored
    <3>2. CASE x = old
      BY <1>3, <1>5, <1>6, <1>7, <2>2, <3>2 DEF L!Stored
    <3>3. CASE x # e /\ x # old
      BY <1>6, <1>7, <1>9, <2>2, <3>3 DEF L!LinksMatch, L!Stored
    <3> QED BY <3>1, <3>2, <3>3
  <2> QED BY <2>1, <2>2 DEF L!LinksMatch
<1>15. L!RecordsMatch'
  <2> SUFFICES ASSUME NEW r \in record', r.event \in L!Stored'
               PROVE  event'[r.event].value = r.body.value
                      /\ event'[r.event].supersedes = r.body.supersedes
    BY DEF L!RecordsMatch
  <2>1. CASE r \in record
    <3>1. r.event # e
      BY <1>2, <2>1 DEF L!NamedWereStored
    <3> QED BY <1>6, <1>7, <2>1, <3>1 DEF L!RecordsMatch
  <2>2. CASE r.event = e /\ r.body = q.body
    BY <1>3, <2>2
  <2> QED BY <2>1, <2>2 DEF Stores
<1>16. L!AnswersAreHonest'
  <2> SUFFICES ASSUME NEW d \in L!Caller, call'[d].pc = "answered", call'[d].answer \in L!Stored'
               PROVE  /\ event'[call'[d].answer].value = call'[d].request.body.value
                      /\ event'[call'[d].answer].supersedes = call'[d].request.body.supersedes
    BY DEF L!AnswersAreHonest
  <2>1. CASE d = c
    BY <1>3, <2>1 DEF Stores, L!Answer, L!TypeOK, L!LabelsTyped
  <2>2. CASE d # c
    <3>1. call'[d] = call[d]
      BY <2>2 DEF Stores, L!Answer, L!TypeOK, L!LabelsTyped
    <3>2. call[d].answer # e
      BY <1>2, <3>1 DEF L!NamedWereStored
    <3> QED BY <1>6, <1>7, <3>1, <3>2 DEF L!AnswersAreHonest
  <2> QED BY <2>1, <2>2
<1> QED BY <1>11, <1>12, <1>13, <1>14, <1>15, <1>16

\* A call that stores nothing is answered, at most, with what a record names.
LEMMA SpeaksKeeps ==
  ASSUME L!OutcomeAssumption, L!TypeOK, L!IInv, NEW c \in L!Caller, Speaks(c), UNCHANGED <<event, record>>
  PROVE  L!IInv'
<1> USE DEF L!OutcomeAssumption, L!IInv
<1>1. L!Stored' = L!Stored /\ L!Current' = L!Current
  BY DEF L!Stored, L!Current
<1>2. ASSUME NEW d \in L!Caller, call'[d].pc = "answered"
      PROVE  \/ call'[d] = call[d]
             \/ call'[d].answer \in L!Refusals
             \/ \E r \in record : r.event = call'[d].answer /\ r.body = call'[d].request.body
  <2>1. CASE d # c
    BY <2>1 DEF Speaks, L!Send, L!Answer, L!TypeOK, L!LabelsTyped
  <2>2. CASE d = c
    <3>1. PICK a \in L!ReplayOf(call[c].request) \cup {L!Refusal(call[c].request)} : L!Answer(c, a)
      BY <1>2, <2>2 DEF Speaks, L!Send, L!TypeOK, L!LabelsTyped
    <3>2. call'[c].answer = a /\ call'[c].request = call[c].request
      BY <3>1 DEF L!Answer, L!TypeOK, L!LabelsTyped
    <3> QED BY <2>2, <3>1, <3>2 DEF L!ReplayOf, L!RecordFor, L!Refusal, L!Refusals
  <2> QED BY <2>1, <2>2
<1>3. L!NamedWereStored'
  BY <1>1, <1>2 DEF L!NamedWereStored
<1>4. L!AnswersAreHonest'
  BY <1>1, <1>2 DEF L!AnswersAreHonest, L!RecordsMatch, L!Stored
<1>5. L!LinksMatch' /\ L!RecordsMatch'
  BY <1>1 DEF L!LinksMatch, L!RecordsMatch
<1> QED BY <1>1, <1>3, <1>4, <1>5

LEMMA PurgeKeeps ==
  ASSUME L!OutcomeAssumption, L!TypeOK, L!IInv, L!PurgeOutcomes
  PROVE  L!IInv'
<1> USE DEF L!OutcomeAssumption, L!IInv
<1>1. /\ L!Stored' \subseteq L!Stored
      /\ \A x \in L!Stored' : event'[x] = event[x]
      /\ \A x \in OutcomeEvent : event[x].state # "unused" => event'[x].state # "unused"
      /\ UNCHANGED <<record, call>>
  BY DEF L!PurgeOutcomes, L!Stored, L!Gone
<1>2. L!Current' \subseteq L!Current
  BY <1>1 DEF L!Current
<1>3. \A x \in L!Stored : event[x].supersedes \in OutcomeEvent \cup {NoEvent}
                        /\ event[x].supersededBy \in OutcomeEvent \cup {NoEvent}
  BY LabelIs DEF L!Label, L!Stored
<1>4. L!NamedWereStored'
  BY <1>1, <1>3 DEF L!NamedWereStored, L!TypeOK, L!LabelsTyped
<1>5. L!LinksMatch' /\ L!RecordsMatch' /\ L!AnswersAreHonest'
  BY <1>1 DEF L!LinksMatch, L!RecordsMatch, L!AnswersAreHonest
<1> QED BY <1>1, <1>2, <1>4, <1>5

\* Every step keeps the inductive invariant.
LEMMA LabelInvStep ==
  ASSUME L!OutcomeAssumption
  PROVE  L!TypeOK /\ L!IInv /\ [L!Next]_(L!vars) => L!IInv'
<1> SUFFICES ASSUME L!TypeOK, L!IInv, [L!Next]_(L!vars) PROVE L!IInv'
  OBVIOUS
<1>t. L!TypeOK'
  BY LabelTypeStep
<1>1. ASSUME NEW c \in L!Caller,
             \/ \E v \in Value : L!Click(c, v) \/ \E e \in OutcomeEvent \cup {NoEvent} : L!Report(c, v, e)
             \/ L!Learn(c) \/ L!AnswerLost(c) \/ L!Reads(c) \/ L!Commits(c)
      PROVE  L!IInv'
  BY <1>1, <1>t, CallSteps, StoresKeeps, SpeaksKeeps
<1>2. CASE L!PurgeOutcomes
  BY <1>2, PurgeKeeps
<1>3. CASE L!PurgeRecords
  BY <1>3 DEF L!PurgeRecords, L!IInv, L!NamedWereStored, L!LinksMatch, L!RecordsMatch, L!AnswersAreHonest,
     L!Current, L!Stored
<1>4. CASE L!Tick \/ UNCHANGED L!vars
  BY <1>4 DEF L!Tick, L!vars, L!IInv, L!NamedWereStored, L!LinksMatch, L!RecordsMatch, L!AnswersAreHonest,
     L!Current, L!Stored
<1> QED BY <1>1, <1>2, <1>3, <1>4 DEF L!Next

\* IInv, from which the safety theorems follow, is inductive.
THEOREM LabelInvariance ==
  ASSUME L!OutcomeAssumption
  PROVE  L!Spec => [](L!TypeOK /\ L!IInv)
<1>1. L!Init => L!IInv
  BY DEF L!OutcomeAssumption, L!Init, L!IInv, L!NamedWereStored, L!LinksMatch, L!RecordsMatch,
     L!AnswersAreHonest, L!Current, L!Stored, L!NotYet
<1>2. L!TypeOK /\ L!IInv /\ [L!Next]_(L!vars) => L!IInv'
  BY LabelInvStep
<1> QED BY LabelTypes, <1>1, <1>2, PTL DEF L!Spec

\* The instance promises what the state's own module does.
LEMMA LabelPromises ==
  (L!LabelsFormALine => LabelsFormALine) /\ (L!AnswersAreHonest => AnswersAreHonest)
<1>1. /\ L!Stored = Stored /\ L!Current = Current /\ L!Caller = Caller
      /\ L!LabelsTyped => LabelsTyped
  BY DEF L!Stored, Stored, L!Current, Current, L!Caller, Caller, L!LabelsTyped, LabelsTyped,
         L!NotYet, NotYet, L!Gone, Gone, L!Label, Label, L!Call, Call, L!Submission, Submission,
         L!ReportKey, ReportKey, L!MerchantKey, MerchantKey, L!Body, Body, L!Refusals, Refusals
<1>2. \A S : L!Cardinality(S) = Cardinality(S)
  BY DEF L!Cardinality, Cardinality
<1> QED
  BY <1>1, <1>2 DEF L!LabelsFormALine, LabelsFormALine, L!AnswersAreHonest, AnswersAreHonest

\* Whatever corrections compete and whatever is purged, the labels of a dimension
\* form one line with at most one current label (report).
THEOREM OneLine ==
  ASSUME L!OutcomeAssumption
  PROVE  L!Spec => []LabelsFormALine
<1>1. L!TypeOK /\ L!IInv => LabelsFormALine
  <2> SUFFICES ASSUME L!TypeOK, L!IInv PROVE L!LabelsFormALine
    BY LabelPromises
  <2> USE DEF L!OutcomeAssumption, L!IInv
  <2>1. Cardinality(L!Current) <= 1
    <3>1. CASE L!Current = {}
      BY <3>1, FS_EmptySet
    <3>2. ASSUME NEW x \in L!Current PROVE Cardinality(L!Current) = 1
      <4>1. L!Current = {x}
        OBVIOUS
      <4> QED BY <4>1, FS_Singleton
    <3> QED BY <3>1, <3>2
  <2>2. ASSUME NEW e \in L!Stored \ L!Current
        PROVE  LET by == event[e].supersededBy
               IN  event[by].state # "unused" /\ (by \in L!Stored => event[by].supersedes = e)
    BY <2>2 DEF L!Current, L!NamedWereStored, L!LinksMatch
  <2>3. \A S : L!Cardinality(S) = Cardinality(S)
    BY DEF L!Cardinality, Cardinality
  <2> QED BY <2>1, <2>2, <2>3 DEF L!TypeOK, L!LabelsFormALine
<1> QED BY LabelInvariance, <1>1, PTL

\* A report is answered with a label only if that label says what was asked,
\* however often its key was used and whoever committed first (ReplayOf).
THEOREM HonestAnswers ==
  ASSUME L!OutcomeAssumption
  PROVE  L!Spec => []AnswersAreHonest
<1>1. L!IInv => AnswersAreHonest
  BY LabelPromises DEF L!IInv
<1> QED BY LabelInvariance, <1>1, PTL

-----------------------------------------------------------------------------
(* The evidence console: Console, for every set of pages and requests,     *)
(* whatever each emits, and every limit.                                   *)

CONSTANTS Emits, Judged, Attempts, QueueMax, MaxSubscribers, MaxKeys, MaxTokens,
          MaxTokensPerOwner, ReplayPage
VARIABLES keys, request, subscribers, tokens, replay

K == INSTANCE Console

\* A subscriber hears the owner of the page it serves.
Filed == {s \in K!Subscriber : s.owner = OwnerOf[s.page]}

\* What one request, page or reader becomes, the others stand.
LEMMA WritesAre ==
  ASSUME K!TypeOK
  PROVE  /\ \A r \in Request : \A x \in K!Requests : K!Becomes(r, x) =>
              /\ request' \in [Request -> K!Requests] /\ request'[r] = x
              /\ \A q \in Request \ {r} : request'[q] = request[q]
         /\ \A p \in Page : \A x \in K!Pages : K!Shows(p, x) =>
              /\ page' \in [Page -> K!Pages] /\ page'[p] = x
              /\ \A q \in Page \ {p} : page'[q] = page[q]
         /\ \A p \in Page : \A x \in K!Replays : K!Reads(p, x) =>
              /\ replay' \in [Page -> K!Replays] /\ replay'[p] = x
              /\ \A q \in Page \ {p} : replay'[q] = replay[q]
<1>1. ASSUME NEW r \in Request, NEW x \in K!Requests, K!Becomes(r, x)
      PROVE  /\ request' \in [Request -> K!Requests] /\ request'[r] = x
             /\ \A q \in Request \ {r} : request'[q] = request[q]
  BY <1>1 DEF K!TypeOK, K!Becomes
<1>2. ASSUME NEW p \in Page, NEW x \in K!Pages, K!Shows(p, x)
      PROVE  /\ page' \in [Page -> K!Pages] /\ page'[p] = x
             /\ \A q \in Page \ {p} : page'[q] = page[q]
  BY <1>2 DEF K!TypeOK, K!Shows
<1>3. ASSUME NEW p \in Page, NEW x \in K!Replays, K!Reads(p, x)
      PROVE  /\ replay' \in [Page -> K!Replays] /\ replay'[p] = x
             /\ \A q \in Page \ {p} : replay'[q] = replay[q]
  BY <1>3 DEF K!TypeOK, K!Reads
<1> QED BY <1>1, <1>2, <1>3

\* Fewer of them are still of the same kind.
LEMMA RemovedIs ==
  ASSUME NEW S, NEW s \in Seq(S), NEW i \in DOMAIN s
  PROVE  K!RemoveAt(s, i) \in Seq(S)
<1>1. /\ i \in 1 .. Len(s) /\ Len(s) \in Nat
      /\ \A j \in 1 .. Len(s) : s[j] \in S
  OBVIOUS
<1>2. SubSeq(s, 1, i - 1) \in Seq(S)
  BY <1>1, SubSeqProperties
<1>3. SubSeq(s, i + 1, Len(s)) \in Seq(S)
  BY <1>1, SubSeqProperties
<1> QED BY <1>2, <1>3, ConcatProperties DEF K!RemoveAt

\* Finite sets and their largest elements, as Console's own operators name them.
LEMMA FiniteIs ==
  ASSUME NEW S
  PROVE  /\ K!IsFiniteSet(S) <=> IsFiniteSet(S)
         /\ K!Max(S) = Max(S)
BY DEF K!IsFiniteSet, IsFiniteSet, K!Max, Max

LEMMA StillFinite ==
  /\ K!IsFiniteSet({})
  /\ \A S, T : S \subseteq T /\ K!IsFiniteSet(T) => K!IsFiniteSet(S)
  /\ \A S, x : K!IsFiniteSet(S) => K!IsFiniteSet(S \cup {x})
<1>1. K!IsFiniteSet({})
  BY FiniteIs, FS_EmptySet
<1>2. ASSUME NEW S, NEW T, S \subseteq T, K!IsFiniteSet(T) PROVE K!IsFiniteSet(S)
  BY <1>2, FiniteIs, FS_Subset
<1>3. ASSUME NEW S, NEW x, K!IsFiniteSet(S) PROVE K!IsFiniteSet(S \cup {x})
  BY <1>3, FiniteIs, FS_AddElement
<1> QED BY <1>1, <1>2, <1>3

LEMMA NumbersAre ==
  ASSUME NEW rows, rows \subseteq K!Row, K!IsFiniteSet(rows)
  PROVE  /\ K!Numbers(rows) \subseteq Nat
         /\ K!Max({0} \cup K!Numbers(rows)) \in Nat
         /\ rows # {} => K!Max(K!Numbers(rows)) \in Nat
<1>1. K!Numbers(rows) \subseteq Nat /\ (rows # {} => K!Numbers(rows) # {})
  BY DEF K!Numbers, K!Row
<1>2. IsFiniteSet(K!Numbers(rows))
  <2>1. PICK f : f = [entry \in rows |-> entry.seq]
    OBVIOUS
  <2>2. f \in Surjection(rows, K!Numbers(rows))
    BY <2>1 DEF K!Numbers, Surjection
  <2>3. IsFiniteSet(rows)
    BY FiniteIs
  <2> QED BY <2>2, <2>3, FS_Surjection
<1>3. IsFiniteSet({0} \cup K!Numbers(rows))
  BY <1>2, FS_Singleton, FS_Union
<1>4. {0} \cup K!Numbers(rows) \in SUBSET Nat /\ {0} \cup K!Numbers(rows) # {}
  BY <1>1
<1>5. Max({0} \cup K!Numbers(rows)) \in {0} \cup K!Numbers(rows)
  BY <1>3, <1>4, MostIs
<1>6. ASSUME rows # {} PROVE Max(K!Numbers(rows)) \in K!Numbers(rows)
  BY <1>1, <1>2, <1>6, MostIs
<1> QED BY <1>1, <1>4, <1>5, <1>6, FiniteIs

-----------------------------------------------------------------------------
(* The types *)

LEMMA ConsoleInitTypes == K!ConsoleAssumption /\ K!Init => K!TypeOK
<1> SUFFICES ASSUME K!ConsoleAssumption, K!Init
             PROVE  K!TypeOK
  OBVIOUS
<1>1. keys \in Seq(Page) /\ subscribers \in Seq(K!Subscriber) /\ tokens \in [K!Owner -> Nat]
  BY DEF K!Init
<1>2. journal \subseteq K!Row /\ K!IsFiniteSet(journal)
  BY StillFinite DEF K!Init
<1>3. request \in [Request -> K!Requests]
  BY DEF K!Init, K!Requests
<1>4. queue \in [Page -> Seq(K!Item)]
  BY DEF K!Init
<1>5. K!Closed \in K!Pages /\ K!NotReading \in K!Replays /\ K!NotReading.rows = {}
  BY DEF K!Closed, K!Fresh, K!NotReading, K!Reading, K!Pages, K!Replays
<1>6. page \in [Page -> K!Pages] /\ replay \in [Page -> K!Replays] /\ \A p \in Page : replay[p].rows = {}
  BY <1>5 DEF K!Init
<1> QED BY <1>1, <1>2, <1>3, <1>4, <1>6, StillFinite DEF K!TypeOK

\* What the records of a request, a page and a reader may become.
LEMMA RequestIs ==
  ASSUME K!TypeOK, NEW r \in Request,
         NEW pc \in {"unsent", "read", "commit", "fan", "answered", "done"},
         NEW seen \in Nat, NEW tries \in Nat, NEW number \in Nat
  PROVE  /\ K!Emitting(r, pc, seen, tries, number) \in K!Requests
         /\ K!Emitting(r, pc, seen, tries, number).pc = pc
         /\ K!Emitting(r, pc, seen, tries, number).at = request[r].at
         /\ K!Emitting(r, pc, seen, tries, number).number = number
<1>1. request[r].at \in Nat
  BY DEF K!TypeOK, K!Requests
<1> QED BY <1>1 DEF K!Emitting, K!Requests

LEMMA PageIs ==
  ASSUME K!TypeOK, NEW p \in Page
  PROVE  /\ page[p] \in K!Pages /\ page[p].run \in Nat /\ page[p].stream \in {"off", "on", "kept"}
         /\ page[p].completed \in BOOLEAN /\ page[p].shown \subseteq K!Item /\ page[p].loose \subseteq K!Event
         /\ \A s \in {"off", "on", "kept"} :
              [page[p] EXCEPT !.stream = s] \in K!Pages
                /\ \A f \in {"run", "shown", "loose"} : [page[p] EXCEPT !.stream = s][f] = page[p][f]
         /\ \A s \in {"nothing", "whole", "incomplete"} :
              [page[p] EXCEPT !.said = s] \in K!Pages
                /\ \A f \in {"run", "shown", "loose"} : [page[p] EXCEPT !.said = s][f] = page[p][f]
         /\ [page[p] EXCEPT !.completed = TRUE] \in K!Pages
         /\ \A f \in {"run", "shown", "loose"} : [page[p] EXCEPT !.completed = TRUE][f] = page[p][f]
<1>1. page[p] \in K!Pages
  BY DEF K!TypeOK
<1> QED BY <1>1 DEF K!Pages

LEMMA FreshIs ==
  ASSUME NEW s \in {"off", "on", "kept"}, NEW run \in Nat
  PROVE  /\ K!Fresh(s, run) \in K!Pages /\ K!Fresh(s, run).run = run
         /\ K!Fresh(s, run).shown = {} /\ K!Fresh(s, run).loose = {}
BY DEF K!Fresh, K!Pages

LEMMA ReadingIs ==
  ASSUME NEW stage \in {"idle", "asked", "replied"}, NEW run \in Nat, NEW after \in Nat,
         NEW rows \in SUBSET K!Row, NEW got \in SUBSET Nat, NEW verdict \in BOOLEAN
  PROVE  /\ K!Reading(stage, run, after, rows, got, verdict) \in K!Replays
         /\ K!Reading(stage, run, after, rows, got, verdict).run = run
         /\ K!Reading(stage, run, after, rows, got, verdict).rows = rows
BY DEF K!Reading, K!Replays

\* A read that begins, and one that has ended.
LEMMA AskedIs ==
  /\ \A run \in Nat : LET x == K!Reading("asked", run, 0, {}, {}, FALSE) IN
       x \in K!Replays /\ x.run = run /\ x.rows = {}
  /\ K!NotReading \in K!Replays /\ K!NotReading.rows = {}
BY DEF K!Reading, K!NotReading, K!Replays

LEMMA RecordedIs ==
  ASSUME NEW pg \in K!Pages, NEW items, \A x \in items : x.seq \in Nat /\ x.event \in K!Event
  PROVE  /\ K!Recorded(pg, items) \in K!Pages /\ K!Recorded(pg, items).run = pg.run
         /\ \A y \in K!Recorded(pg, items).shown :
              y \in pg.shown \/ \E x \in items : x.seq # 0 /\ y = [seq |-> x.seq, event |-> x.event]
         /\ \A e \in K!Recorded(pg, items).loose :
              e \in pg.loose \/ \E x \in items : e = x.event
BY DEF K!Recorded, K!Pages, K!Item

\* The bus keeps its subscribers of one kind.
LEMMA SubscribersStay ==
  ASSUME K!TypeOK, NEW S, subscribers \in Seq(S), NEW p \in Page, K!Unsubscribe(p)
  PROVE  subscribers' \in Seq(S)
BY RemovedIs DEF K!Unsubscribe

LEMMA ConnectSubscribes ==
  ASSUME K!ConsoleAssumption, K!TypeOK, NEW S, subscribers \in Seq(S), NEW p \in Page, K!Connect(p),
         [page |-> p, owner |-> OwnerOf[p]] \in S
  PROVE  subscribers' \in Seq(S)
<1>1. PICK kept : /\ kept = IF Len(subscribers) >= MaxSubscribers THEN Tail(subscribers) ELSE subscribers
                  /\ subscribers' = Append(kept, [page |-> p, owner |-> OwnerOf[p]])
  BY DEF K!Connect
<1>2. kept \in Seq(S)
  <2>1. CASE Len(subscribers) >= MaxSubscribers
    <3>1. subscribers # <<>>
      BY <2>1 DEF K!ConsoleAssumption
    <3> QED BY <1>1, <2>1, <3>1, HeadTailProperties
  <2> QED BY <1>1, <2>1
<1> QED BY <1>1, <1>2, AppendProperties

LEMMA LoadKeeps ==
  ASSUME K!ConsoleAssumption, K!TypeOK, NEW p \in Page, K!Load(p)
  PROVE  keys' \in Seq(Page)
<1>1. PICK kept : /\ kept = IF Len(keys) >= MaxKeys THEN Tail(keys) ELSE keys
                  /\ keys' = Append(kept, p)
  BY DEF K!Load
<1>2. kept \in Seq(Page)
  <2>1. CASE Len(keys) >= MaxKeys
    <3>1. keys # <<>> /\ keys \in Seq(Page)
      BY <2>1 DEF K!TypeOK, K!ConsoleAssumption
    <3> QED BY <1>1, <2>1, <3>1, HeadTailProperties
  <2> QED BY <1>1, <2>1 DEF K!TypeOK
<1> QED BY <1>1, <1>2, AppendProperties

LEMMA OwnersAre == \A p \in Page : OwnerOf[p] \in K!Owner
BY DEF K!Owner

\* The streams and the credentials.
LEMMA StreamTypes ==
  ASSUME K!ConsoleAssumption, K!TypeOK, NEW p \in Page,
         K!Load(p) \/ K!KeyExpires(p) \/ K!Connect(p) \/ K!Keepalive(p) \/ K!StreamEnds(p)
  PROVE  K!TypeOK'
<1> USE DEF K!TypeOK
<1>1. CASE K!Load(p)
  <2>1. keys' \in Seq(Page)
    BY <1>1, LoadKeeps
  <2> QED BY <1>1, <2>1 DEF K!Load
<1>2. CASE K!KeyExpires(p)
  <2>1. keys' \in Seq(Page)
    BY <1>2, RemovedIs DEF K!KeyExpires
  <2> QED BY <1>2, <2>1 DEF K!KeyExpires
<1>3. CASE K!Connect(p)
  <2>1. [page |-> p, owner |-> OwnerOf[p]] \in K!Subscriber
    BY OwnersAre DEF K!Subscriber
  <2>2. subscribers' \in Seq(K!Subscriber)
    BY <1>3, <2>1, ConnectSubscribes
  <2>3. tokens' \in [K!Owner -> Nat] /\ queue' \in [Page -> Seq(K!Item)]
    <3>1. tokens[OwnerOf[p]] + 1 \in Nat /\ OwnerOf[p] \in K!Owner
      BY OwnersAre
    <3>2. <<>> \in Seq(K!Item)
      OBVIOUS
    <3>3. /\ tokens' = [tokens EXCEPT ![OwnerOf[p]] = @ + 1]
          /\ queue' = [queue EXCEPT ![p] = <<>>]
      BY <1>3 DEF K!Connect
    <3>4. tokens' \in [K!Owner -> Nat]
      BY <3>1, <3>3
    <3>5. queue' \in [Page -> Seq(K!Item)]
      BY <3>2, <3>3
    <3> QED BY <3>4, <3>5
  <2>4. page' \in [Page -> K!Pages]
    <3>1. K!Shows(p, [page[p] EXCEPT !.stream = "on"]) /\ [page[p] EXCEPT !.stream = "on"] \in K!Pages
      BY <1>3, PageIs DEF K!Connect
    <3> QED BY <3>1, WritesAre
  <2> QED BY <1>3, <2>2, <2>3, <2>4 DEF K!Connect
<1>4. CASE K!Keepalive(p)
  <2>1. subscribers' \in Seq(K!Subscriber)
    BY <1>4, SubscribersStay DEF K!Keepalive
  <2>2. page' \in [Page -> K!Pages]
    <3>1. K!Shows(p, [page[p] EXCEPT !.stream = "kept"]) /\ [page[p] EXCEPT !.stream = "kept"] \in K!Pages
      BY <1>4, PageIs DEF K!Keepalive
    <3> QED BY <3>1, WritesAre
  <2> QED BY <1>4, <2>1, <2>2 DEF K!Keepalive
<1>5. CASE K!StreamEnds(p)
  <2>1. subscribers' \in Seq(K!Subscriber)
    BY <1>5, SubscribersStay DEF K!StreamEnds
  <2>2. page' \in [Page -> K!Pages]
    <3>1. K!Shows(p, [page[p] EXCEPT !.stream = "off"]) /\ [page[p] EXCEPT !.stream = "off"] \in K!Pages
      BY <1>5, PageIs DEF K!StreamEnds
    <3> QED BY <3>1, WritesAre
  <2>3. queue' \in [Page -> Seq(K!Item)]
    BY <1>5 DEF K!StreamEnds
  <2> QED BY <1>5, <2>1, <2>2, <2>3 DEF K!StreamEnds
<1> QED BY <1>1, <1>2, <1>3, <1>4, <1>5

\* An event on its way out.
LEMMA PendingIs ==
  ASSUME K!TypeOK, NEW r \in Request
  PROVE  K!Pending(r) \in K!Item /\ <<r, request[r].at>> \in K!Event
<1>1. request[r] \in K!Requests
  BY DEF K!TypeOK
<1> QED BY <1>1 DEF K!Pending, K!Item, K!Event, K!Requests

\* What FanOut adds to a queue is the pending event or nothing.
LEMMA FanOutQueues ==
  ASSUME K!TypeOK, NEW r \in Request, K!FanOut(r), NEW p \in Page
  PROVE  \/ queue'[p] = queue[p]
         \/ /\ queue'[p] = Append(queue[p], K!Pending(r))
            /\ \E i \in DOMAIN subscribers : K!Hears(subscribers[i], r) /\ subscribers[i].page = p
BY DEF K!FanOut, K!Pending

LEMMA RequestTypes ==
  ASSUME K!ConsoleAssumption, K!TypeOK, NEW r \in Request,
         K!Send(r) \/ K!ReadMax(r) \/ K!Commit(r) \/ K!WriteFails(r) \/ K!FanOut(r) \/ K!Answered(r)
  PROVE  K!TypeOK'
<1>0. /\ request[r].at \in Nat /\ request[r].seen \in Nat /\ request[r].tries \in Nat
      /\ request[r].number \in Nat /\ PageOf[r] \in Page /\ RunOf[r] \in Nat /\ K!Key(r) \in K!Owner \X Nat
  <2>1. request[r] \in K!Requests
    BY DEF K!TypeOK
  <2>2. PageOf[r] \in Page /\ RunOf[r] \in Nat
    BY DEF K!ConsoleAssumption
  <2>3. K!Key(r) \in K!Owner \X Nat
    BY <2>2, OwnersAre DEF K!Key
  <2> QED BY <2>1, <2>2, <2>3 DEF K!Requests
<1>a. \A x \in K!Requests : K!Becomes(r, x) => request' \in [Request -> K!Requests]
  BY WritesAre
<1>1. CASE K!Send(r)
  <2>1. PICK pc \in {"done", "read"} : K!Becomes(r, K!Emitting(r, pc, 0, 0, 0))
    BY <1>1 DEF K!Send
  <2>2. request' \in [Request -> K!Requests]
    <3>1. K!Emitting(r, pc, 0, 0, 0) \in K!Requests
      BY RequestIs, pc \in {"unsent", "read", "commit", "fan", "answered", "done"}, 0 \in Nat
    <3> QED BY <1>a, <2>1, <3>1
  <2>3. page' \in [Page -> K!Pages]
    <3>1. K!Fresh(page[PageOf[r]].stream, RunOf[r]) \in K!Pages
      BY <1>0, PageIs, FreshIs
    <3>2. CASE page' = page
      BY <3>2 DEF K!TypeOK
    <3>3. CASE K!Shows(PageOf[r], K!Fresh(page[PageOf[r]].stream, RunOf[r]))
      BY <1>0, <3>1, <3>3, WritesAre
    <3> QED BY <1>1, <3>2, <3>3 DEF K!Send
  <2> QED BY <1>1, <2>2, <2>3 DEF K!Send, K!TypeOK
<1>2. CASE K!ReadMax(r)
  <2>1. K!IsFiniteSet(K!Rows(K!Key(r))) /\ K!Rows(K!Key(r)) \subseteq K!Row
    BY StillFinite DEF K!Rows, K!TypeOK
  <2>2. PICK n \in Nat : n = K!Max({0} \cup K!Numbers(K!Rows(K!Key(r))))
    BY <2>1, NumbersAre
  <2>3. request' \in [Request -> K!Requests]
    <3>1. K!Becomes(r, K!Emitting(r, "commit", n, request[r].tries, 0))
      BY <1>2, <2>2 DEF K!ReadMax
    <3>2. K!Emitting(r, "commit", n, request[r].tries, 0) \in K!Requests
      BY <1>0, RequestIs
    <3> QED BY <1>a, <3>1, <3>2
  <2> QED BY <1>2, <2>3 DEF K!ReadMax, K!TypeOK
<1>3. CASE K!Commit(r)
  <2>1. PICK pc \in {"read", "fan"}, tries \in Nat, number \in Nat :
          K!Becomes(r, K!Emitting(r, pc, request[r].seen, tries, number))
    <3>1. request[r].tries + 1 \in Nat /\ request[r].seen + 1 \in Nat /\ 0 \in Nat
      BY <1>0
    <3> QED BY <1>0, <1>3, <3>1 DEF K!Commit, K!LostTheRace
  <2>2. request' \in [Request -> K!Requests]
    <3>1. K!Emitting(r, pc, request[r].seen, tries, number) \in K!Requests
      BY <1>0, RequestIs, pc \in {"unsent", "read", "commit", "fan", "answered", "done"}
    <3> QED BY <1>a, <2>1, <3>1
  <2>3. journal' \subseteq K!Row /\ K!IsFiniteSet(journal')
    <3>1. [key |-> K!Key(r), seq |-> request[r].seen + 1, event |-> <<r, request[r].at>>] \in K!Row
      BY <1>0, PendingIs DEF K!Row
    <3>2. CASE journal' = journal
      BY <3>2 DEF K!TypeOK
    <3>3. CASE journal' = journal \cup
                 {[key |-> K!Key(r), seq |-> request[r].seen + 1, event |-> <<r, request[r].at>>]}
      BY <3>1, <3>3, StillFinite DEF K!TypeOK
    <3> QED BY <1>3, <3>2, <3>3 DEF K!Commit
  <2> QED BY <1>3, <2>2, <2>3 DEF K!Commit, K!TypeOK
<1>4. CASE K!WriteFails(r)
  <2>1. request' \in [Request -> K!Requests]
    <3>1. K!Becomes(r, K!Emitting(r, "fan", request[r].seen, request[r].tries, 0))
      BY <1>4 DEF K!WriteFails
    <3>2. K!Emitting(r, "fan", request[r].seen, request[r].tries, 0) \in K!Requests
      BY <1>0, RequestIs
    <3> QED BY <1>a, <3>1, <3>2
  <2> QED BY <1>4, <2>1 DEF K!WriteFails, K!TypeOK
<1>5. CASE K!FanOut(r)
  <2>1. request' \in [Request -> K!Requests]
    <3>1. [pc |-> "read", at |-> request[r].at + 1, seen |-> 0, tries |-> 0, number |-> 0] \in K!Requests
      BY <1>0 DEF K!Requests
    <3>2. K!Emitting(r, "answered", 0, 0, 0) \in K!Requests
      BY RequestIs
    <3> QED BY <1>5, <1>a, <3>1, <3>2 DEF K!FanOut
  <2>2. ASSUME NEW p \in Page PROVE queue'[p] \in Seq(K!Item)
    <3>1. queue[p] \in Seq(K!Item) /\ K!Pending(r) \in K!Item
      BY PendingIs DEF K!TypeOK
    <3>2. Append(queue[p], K!Pending(r)) \in Seq(K!Item)
      BY <3>1, AppendProperties
    <3> QED BY <1>5, <3>1, <3>2, FanOutQueues
  <2>3. queue' \in [Page -> Seq(K!Item)]
    <3>1. queue' = [p \in Page |-> queue'[p]]
      BY <1>5 DEF K!FanOut
    <3> QED BY <2>2, <3>1
  <2> QED BY <1>5, <2>1, <2>3 DEF K!FanOut, K!TypeOK
<1>6. CASE K!Answered(r)
  <2>1. request' \in [Request -> K!Requests]
    <3>1. K!Becomes(r, K!Emitting(r, "done", 0, 0, 0))
      BY <1>6 DEF K!Answered
    <3>2. K!Emitting(r, "done", 0, 0, 0) \in K!Requests
      BY RequestIs
    <3> QED BY <1>a, <3>1, <3>2
  <2>2. CASE UNCHANGED <<page, replay>>
    BY <1>6, <2>1, <2>2 DEF K!Answered, K!TypeOK
  <2>3. CASE /\ K!Shows(PageOf[r], [page[PageOf[r]] EXCEPT !.completed = TRUE])
             /\ K!Reads(PageOf[r], K!Reading("asked", RunOf[r], 0, {}, {}, FALSE))
    <3>1. [page[PageOf[r]] EXCEPT !.completed = TRUE] \in K!Pages
      BY <1>0, PageIs
    <3>2. PICK x \in K!Replays : x = K!Reading("asked", RunOf[r], 0, {}, {}, FALSE) /\ x.rows = {}
      BY <1>0, AskedIs
    <3>3. page' \in [Page -> K!Pages]
      BY <1>0, <2>3, <3>1, WritesAre
    <3>4. /\ replay' \in [Page -> K!Replays] /\ replay'[PageOf[r]] = x
          /\ \A q \in Page \ {PageOf[r]} : replay'[q] = replay[q]
      <4>1. K!Reads(PageOf[r], x) /\ PageOf[r] \in Page
        BY <1>0, <2>3, <3>2
      <4> QED BY <4>1, WritesAre
    <3>5. \A q \in Page : K!IsFiniteSet(replay'[q].rows)
      <4>1. \A q \in Page : K!IsFiniteSet(replay[q].rows)
        BY DEF K!TypeOK
      <4>2. replay'[PageOf[r]].rows = {}
        BY <3>2, <3>4
      <4> QED BY <3>4, <4>1, <4>2, StillFinite
    <3> QED BY <1>6, <2>1, <3>3, <3>4, <3>5 DEF K!Answered, K!TypeOK
  <2> QED BY <1>6, <2>2, <2>3 DEF K!Answered, K!TypeOK
<1> QED BY <1>1, <1>2, <1>3, <1>4, <1>5, <1>6

\* The page and its reads of the journal.
LEMMA PageTypes ==
  ASSUME K!TypeOK, NEW p \in Page,
         K!Receive(p) \/ K!Reopened(p) \/ K!EventsAfter(p) \/ K!TakeRows(p) \/ K!ReplayFails(p)
  PROVE  K!TypeOK'
<1>0. /\ replay[p] \in K!Replays /\ K!IsFiniteSet(replay[p].rows) /\ replay[p].rows \subseteq K!Row
      /\ replay[p].run \in Nat /\ replay[p].after \in Nat /\ replay[p].got \subseteq Nat
      /\ replay[p].verdict \in BOOLEAN
  BY DEF K!TypeOK, K!Replays
<1>a. ASSUME NEW x \in K!Replays, K!Reads(p, x), K!IsFiniteSet(x.rows)
      PROVE  replay' \in [Page -> K!Replays] /\ \A q \in Page : K!IsFiniteSet(replay'[q].rows)
  <2>1. /\ replay' \in [Page -> K!Replays] /\ replay'[p] = x
        /\ \A q \in Page \ {p} : replay'[q] = replay[q]
    BY <1>a, WritesAre
  <2>2. \A q \in Page : K!IsFiniteSet(replay[q].rows)
    BY DEF K!TypeOK
  <2> QED BY <1>a, <2>1, <2>2
<1>b. ASSUME NEW x \in K!Pages, K!Shows(p, x) PROVE page' \in [Page -> K!Pages]
  BY <1>b, WritesAre
<1>c. K!Reads(p, K!NotReading) =>
        replay' \in [Page -> K!Replays] /\ \A q \in Page : K!IsFiniteSet(replay'[q].rows)
  BY <1>a, AskedIs, StillFinite
<1>1. CASE K!Receive(p)
  <2>1. PICK x \in K!Item : x = Head(queue[p])
    BY <1>1, HeadTailProperties DEF K!Receive, K!TypeOK
  <2>2. K!Recorded(page[p], {x}) \in K!Pages
    BY PageIs, RecordedIs DEF K!Item
  <2>3. page' \in [Page -> K!Pages]
    BY <1>1, <1>b, <2>1, <2>2 DEF K!Receive, K!TypeOK
  <2>4. queue' \in [Page -> Seq(K!Item)]
    BY <1>1, HeadTailProperties DEF K!Receive, K!TypeOK
  <2> QED BY <1>1, <2>3, <2>4 DEF K!Receive, K!TypeOK
<1>2. CASE K!Reopened(p)
  <2>1. page[p].run \in Nat
    BY PageIs
  <2>2. PICK x \in K!Replays : x = K!Reading("asked", page[p].run, 0, {}, {}, FALSE) /\ x.rows = {}
    BY <2>1, AskedIs
  <2>3. replay' \in [Page -> K!Replays] /\ \A q \in Page : K!IsFiniteSet(replay'[q].rows)
    BY <1>2, <1>a, <2>2, StillFinite DEF K!Reopened
  <2> QED BY <1>2, <2>3 DEF K!Reopened, K!TypeOK
<1>3. CASE K!EventsAfter(p)
  <2>1. PICK rows \in SUBSET journal :
          K!Reads(p, K!Reading("replied", replay[p].run, replay[p].after, rows, replay[p].got,
                           replay[p].verdict))
    BY <1>3 DEF K!EventsAfter, K!FirstOf, K!Rows
  <2>2. K!IsFiniteSet(rows) /\ rows \in SUBSET K!Row
    BY StillFinite DEF K!TypeOK
  <2>3. PICK x \in K!Replays : /\ x.rows = rows
                             /\ x = K!Reading("replied", replay[p].run, replay[p].after, rows,
                                            replay[p].got, replay[p].verdict)
    BY <1>0, <2>2, ReadingIs
  <2>4. replay' \in [Page -> K!Replays] /\ \A q \in Page : K!IsFiniteSet(replay'[q].rows)
    BY <1>a, <2>1, <2>2, <2>3
  <2> QED BY <1>3, <2>4 DEF K!EventsAfter, K!TypeOK
<1>4. CASE K!TakeRows(p)
  <2>1. CASE page' = page /\ K!Reads(p, K!NotReading)
    BY <1>4, <1>c, <2>1 DEF K!TakeRows, K!TypeOK
  <2>2. CASE \E verdict \in BOOLEAN :
               /\ replay[p].rows # {} /\ K!Shows(p, K!Recorded(page[p], replay[p].rows))
               /\ K!Reads(p, K!Reading("asked", replay[p].run, K!Max(K!Numbers(replay[p].rows)), {},
                                   replay[p].got \cup K!Numbers(replay[p].rows), verdict))
    <3>1. PICK verdict \in BOOLEAN :
               /\ replay[p].rows # {} /\ K!Shows(p, K!Recorded(page[p], replay[p].rows))
               /\ K!Reads(p, K!Reading("asked", replay[p].run, K!Max(K!Numbers(replay[p].rows)), {},
                                   replay[p].got \cup K!Numbers(replay[p].rows), verdict))
      BY <2>2
    <3>2. K!Recorded(page[p], replay[p].rows) \in K!Pages
      BY <1>0, PageIs, RecordedIs DEF K!Row
    <3>3. /\ K!Max(K!Numbers(replay[p].rows)) \in Nat
          /\ replay[p].got \cup K!Numbers(replay[p].rows) \in SUBSET Nat
      BY <1>0, <3>1, NumbersAre
    <3>4. PICK x \in K!Replays : /\ x.rows = {}
                               /\ x = K!Reading("asked", replay[p].run, K!Max(K!Numbers(replay[p].rows)), {},
                                      replay[p].got \cup K!Numbers(replay[p].rows), verdict)
      BY <1>0, <3>3, ReadingIs
    <3>5. replay' \in [Page -> K!Replays] /\ \A q \in Page : K!IsFiniteSet(replay'[q].rows)
      BY <1>a, <3>1, <3>4, StillFinite
    <3>6. page' \in [Page -> K!Pages]
      BY <1>b, <3>1, <3>2
    <3> QED BY <1>4, <3>5, <3>6 DEF K!TakeRows, K!TypeOK
  <2>3. CASE /\ K!Reads(p, K!NotReading)
             /\ \E s \in {"nothing", "whole", "incomplete"} : K!Shows(p, [page[p] EXCEPT !.said = s])
    <3>1. page' \in [Page -> K!Pages]
      BY <1>b, <2>3, PageIs
    <3> QED BY <1>4, <1>c, <2>3, <3>1 DEF K!TakeRows, K!TypeOK
  <2>4. PICK verdict \in BOOLEAN :
          verdict = (replay[p].verdict \/ {entry \in replay[p].rows : K!IsVerdict(entry.event)} # {})
    OBVIOUS
  <2> QED BY <1>4, <2>1, <2>2, <2>3, <2>4 DEF K!TakeRows
<1>5. CASE K!ReplayFails(p)
  <2>1. page' \in [Page -> K!Pages]
    BY <1>5, <1>b, PageIs DEF K!ReplayFails, K!TypeOK
  <2> QED BY <1>5, <1>c, <2>1 DEF K!ReplayFails, K!TypeOK
<1> QED BY <1>1, <1>2, <1>3, <1>4, <1>5

LEMMA ConsoleTypeStep == K!ConsoleAssumption /\ K!TypeOK /\ [K!Next]_(K!vars) => K!TypeOK'
<1> SUFFICES ASSUME K!ConsoleAssumption, K!TypeOK, [K!Next]_(K!vars)
             PROVE  K!TypeOK'
  OBVIOUS
<1>1. CASE \E p \in Page : K!Load(p) \/ K!KeyExpires(p) \/ K!Connect(p) \/ K!Keepalive(p) \/ K!StreamEnds(p)
  BY <1>1, StreamTypes
<1>2. CASE \E p \in Page : K!Receive(p) \/ K!Reopened(p) \/ K!EventsAfter(p) \/ K!TakeRows(p) \/ K!ReplayFails(p)
  BY <1>2, PageTypes
<1>3. CASE \E r \in Request :
             K!Send(r) \/ K!ReadMax(r) \/ K!Commit(r) \/ K!WriteFails(r) \/ K!FanOut(r) \/ K!Answered(r)
  BY <1>3, RequestTypes
<1>4. CASE K!TokenExpires
  BY <1>4 DEF K!TokenExpires, K!TypeOK
<1>5. CASE K!Purge
  BY <1>5, StillFinite DEF K!Purge, K!TypeOK
<1>6. CASE UNCHANGED K!vars
  BY <1>6 DEF K!vars, K!TypeOK
<1> QED BY <1>1, <1>2, <1>3, <1>4, <1>5, <1>6 DEF K!Next

-----------------------------------------------------------------------------
(* Numbers *)

\* Everything that carries a number is in F.
Within(F) ==
  /\ \A p \in Page : \A i \in DOMAIN queue[p] : queue[p][i].seq # 0 => queue[p][i] \in F
  /\ \A p \in Page : \A x \in page[p].shown : x.seq # 0 => x \in F
  /\ \A p \in Page : \A entry \in replay[p].rows :
       entry.seq # 0 => [seq |-> entry.seq, event |-> entry.event] \in F
  /\ \A entry \in journal : entry.seq # 0 => [seq |-> entry.seq, event |-> entry.event] \in F
  /\ \A r \in Request : request[r].pc = "fan" /\ request[r].number # 0 => K!Pending(r) \in F

LEMMA FactsAreWithin == Within(K!Facts)
<1>1. \A p \in Page : \A i \in DOMAIN queue[p] : queue[p][i].seq # 0 => queue[p][i] \in K!Facts
  BY DEF K!Facts, K!Carried
<1>2. \A p \in Page : \A x \in page[p].shown : x.seq # 0 => x \in K!Facts
  BY DEF K!Facts, K!Carried
<1>3. ASSUME NEW p \in Page, NEW entry \in replay[p].rows, entry.seq # 0
      PROVE  [seq |-> entry.seq, event |-> entry.event] \in K!Facts
  <2>1. [seq |-> entry.seq, event |-> entry.event] \in K!Numbered(replay[p].rows)
    BY DEF K!Numbered
  <2> QED BY <1>3, <2>1 DEF K!Facts, K!BeingRead
<1>4. ASSUME NEW entry \in journal, entry.seq # 0
      PROVE  [seq |-> entry.seq, event |-> entry.event] \in K!Facts
  <2>1. [seq |-> entry.seq, event |-> entry.event] \in K!Numbered(journal)
    BY DEF K!Numbered
  <2> QED BY <1>4, <2>1 DEF K!Facts
<1>5. ASSUME NEW r \in Request, request[r].pc = "fan", request[r].number # 0
      PROVE  K!Pending(r) \in K!Facts
  <2>1. K!Pending(r).seq # 0
    BY <1>5 DEF K!Pending
  <2>2. K!Pending(r) \in K!Outgoing
    BY <1>5 DEF K!Outgoing
  <2> QED BY <2>1, <2>2 DEF K!Facts
<1> QED BY <1>1, <1>2, <1>3, <1>4, <1>5 DEF Within

LEMMA NoMoreFacts == ASSUME NEW F, Within(F)' PROVE K!Facts' \subseteq F
<1> SUFFICES ASSUME NEW x \in K!Facts' PROVE x \in F
  OBVIOUS
<1>1. /\ x.seq # 0
      /\ \/ x \in K!Carried'
         \/ x \in K!Numbered(journal)'
         \/ \E p \in Page : x \in K!Numbered(replay[p].rows)'
         \/ x \in K!Outgoing'
  BY DEF K!Facts, K!BeingRead
<1>2. CASE x \in K!Carried'
  BY <1>1, <1>2 DEF K!Carried, Within
<1>3. CASE x \in K!Numbered(journal)'
  <2>1. PICK entry \in journal' : x = [seq |-> entry.seq, event |-> entry.event]
    BY <1>3 DEF K!Numbered
  <2> QED BY <1>1, <2>1 DEF Within
<1>4. ASSUME NEW p \in Page, x \in K!Numbered(replay[p].rows)' PROVE x \in F
  <2>1. PICK entry \in replay'[p].rows : x = [seq |-> entry.seq, event |-> entry.event]
    BY <1>4 DEF K!Numbered
  <2> QED BY <1>1, <2>1 DEF Within
<1>5. CASE x \in K!Outgoing'
  <2>1. PICK r \in Request : request'[r].pc = "fan" /\ x = K!Pending(r)'
    BY <1>5 DEF K!Outgoing
  <2>2. request'[r].number # 0
    BY <1>1, <2>1 DEF K!Pending
  <2> QED BY <2>1, <2>2 DEF Within
<1> QED BY <1>1, <1>2, <1>3, <1>4, <1>5

Undone == \E r \in Request : request[r].pc # "done"

\* No new number: what was agreed stands.
LEMMA NothingNew ==
  ASSUME K!NumbersAreRows, NEW F, F = K!Facts, Within(F)', Undone' => Undone /\ journal' = journal
  PROVE  K!NumbersAreRows'
<1>1. K!Facts' \subseteq K!Facts
  BY NoMoreFacts
<1> QED BY <1>1 DEF K!NumbersAreRows, Undone, K!Agree, K!Key, K!Numbered

\* RowsAreFiled says of the bus that its subscribers are filed.
LEMMA BusIs ==
  ASSUME K!TypeOK
  PROVE  (\A i \in DOMAIN subscribers : subscribers[i].owner = OwnerOf[subscribers[i].page])
           => subscribers \in Seq(Filed)
<1> SUFFICES ASSUME \A i \in DOMAIN subscribers : subscribers[i].owner = OwnerOf[subscribers[i].page]
             PROVE  subscribers \in Seq(Filed)
  OBVIOUS
<1>1. subscribers \in Seq(K!Subscriber)
  BY DEF K!TypeOK
<1>2. \A i \in 1 .. Len(subscribers) : subscribers[i] \in Filed
  BY <1>1 DEF Filed
<1> QED BY <1>1, <1>2

LEMMA FiledIs == ASSUME NEW s \in Seq(Filed) PROVE \A i \in DOMAIN s : s[i].owner = OwnerOf[s[i].page]
BY DEF Filed

\* What the bus, the credentials and the streams do leaves every number, and what a
\* page draws, as it is.
LEMMA StreamKeeps ==
  ASSUME K!ConsoleAssumption, K!TypeOK, K!IInv, NEW p \in Page,
         K!Load(p) \/ K!KeyExpires(p) \/ K!Connect(p) \/ K!Keepalive(p) \/ K!StreamEnds(p)
  PROVE  K!IInv'
<1>1. /\ UNCHANGED <<journal, request, replay>>
      /\ \A q \in Page : queue'[q] \in {queue[q], <<>>}
  BY DEF K!Load, K!KeyExpires, K!Connect, K!Keepalive, K!StreamEnds, K!TypeOK
<1>2. \A q \in Page : page'[q].run = page[q].run /\ page'[q].shown = page[q].shown
                       /\ page'[q].loose = page[q].loose
  <2>1. page' = page \/ \E s \in {"off", "on", "kept"} : K!Shows(p, [page[p] EXCEPT !.stream = s])
    BY DEF K!Load, K!KeyExpires, K!Connect, K!Keepalive, K!StreamEnds
  <2>2. ASSUME NEW s \in {"off", "on", "kept"}, K!Shows(p, [page[p] EXCEPT !.stream = s]), NEW q \in Page
        PROVE  page'[q].run = page[q].run /\ page'[q].shown = page[q].shown
                 /\ page'[q].loose = page[q].loose
    <3>1. PICK x \in K!Pages : /\ x = [page[p] EXCEPT !.stream = s] /\ x.run = page[p].run
                             /\ x.shown = page[p].shown /\ x.loose = page[p].loose
      <4>1. PICK pg \in K!Pages : pg = page[p]
        BY DEF K!TypeOK
      <4>2. [pg EXCEPT !.stream = s] \in K!Pages
        BY DEF K!Pages
      <4>3. PICK x \in K!Pages : x = [pg EXCEPT !.stream = s]
        BY <4>2
      <4>4. x.run = pg.run /\ x.shown = pg.shown /\ x.loose = pg.loose
        BY <4>3 DEF K!Pages
      <4> QED BY <4>1, <4>3, <4>4
    <3>2. page'[p] = x /\ \A y \in Page \ {p} : page'[y] = page[y]
      BY <2>2, <3>1, WritesAre
    <3> QED BY <3>1, <3>2
  <2> QED BY <2>1, <2>2
<1>3. subscribers' \in Seq(Filed)
  <2>1. subscribers \in Seq(Filed)
    BY BusIs DEF K!IInv, K!RowsAreFiled
  <2>2. [page |-> p, owner |-> OwnerOf[p]] \in Filed
    BY OwnersAre DEF Filed, K!Subscriber
  <2>3. \/ subscribers' = subscribers \/ K!Unsubscribe(p) \/ K!Connect(p)
    BY DEF K!Load, K!KeyExpires, K!Keepalive, K!StreamEnds
  <2> QED BY <2>1, <2>2, <2>3, SubscribersStay, ConnectSubscribes
<1>4. K!NumbersAreRows'
  <2>1. PICK F : F = K!Facts
    OBVIOUS
  <2>2. Within(F)
    BY <2>1, FactsAreWithin
  <2>3. Within(F)'
    <3>1. \A q \in Page : \A i \in DOMAIN queue'[q] : i \in DOMAIN queue[q] /\ queue'[q][i] = queue[q][i]
      BY <1>1
    <3>2. \A q \in Page : \A i \in DOMAIN queue'[q] : queue'[q][i].seq # 0 => queue'[q][i] \in F
      BY <2>2, <3>1 DEF Within
    <3> QED BY <1>1, <1>2, <2>2, <3>2 DEF Within, K!Pending
  <2>4. Undone' => Undone /\ journal' = journal
    BY <1>1 DEF Undone
  <2> QED BY <2>1, <2>3, <2>4, NothingNew DEF K!IInv
<1>5. K!RowsAreFiled'
  <2>1. \A i \in DOMAIN subscribers' : subscribers'[i].owner = OwnerOf[subscribers'[i].page]
    BY <1>3, FiledIs
  <2> QED BY <1>1, <2>1 DEF K!IInv, K!RowsAreFiled, K!Key
<1>6. K!TraceIsOfItsRun'
  <2>1. \A q \in Page : \A i \in DOMAIN queue'[q] : i \in DOMAIN queue[q] /\ queue'[q][i] = queue[q][i]
    BY <1>1
  <2> QED BY <1>2, <2>1 DEF K!IInv, K!TraceIsOfItsRun, K!Key
<1> QED BY <1>4, <1>5, <1>6 DEF K!IInv

\* A request that numbers nothing new, and sends out what it has numbered to its owner.
LEMMA QuietKeeps ==
  ASSUME K!TypeOK, K!IInv, NEW r \in Request, request[r].pc # "done",
         \A q \in Request : request'[q].pc = "fan" /\ request'[q].number # 0 => request'[q] = request[q],
         UNCHANGED <<journal, subscribers>>,
         \A p \in Page :
           \/ queue'[p] = queue[p]
           \/ /\ queue'[p] = Append(queue[p], K!Pending(r)) /\ request[r].pc = "fan"
              /\ OwnerOf[PageOf[r]] = OwnerOf[p],
         \A p \in Page :
           \/ page'[p].run = page[p].run /\ page'[p].shown = page[p].shown /\ page'[p].loose = page[p].loose
           \/ page'[p].shown = {} /\ page'[p].loose = {},
         \A p \in Page : replay'[p] = replay[p] \/ replay'[p].rows = {}
  PROVE  K!IInv'
<1>1. ASSUME NEW p \in Page, NEW i \in DOMAIN queue'[p]
      PROVE  \/ i \in DOMAIN queue[p] /\ queue'[p][i] = queue[p][i]
             \/ /\ queue'[p][i] = K!Pending(r) /\ request[r].pc = "fan"
                /\ OwnerOf[PageOf[r]] = OwnerOf[p]
  <2>1. queue[p] \in Seq(K!Item) /\ K!Pending(r) \in K!Item
    BY PendingIs DEF K!TypeOK
  <2>2. CASE queue'[p] = queue[p]
    BY <2>2
  <2>3. CASE queue'[p] = Append(queue[p], K!Pending(r)) /\ request[r].pc = "fan"
               /\ OwnerOf[PageOf[r]] = OwnerOf[p]
    BY <2>1, <2>3, AppendProperties
  <2> QED BY <2>2, <2>3
<1>2. K!NumbersAreRows'
  <2>1. PICK F : F = K!Facts
    OBVIOUS
  <2>2. Within(F)
    BY <2>1, FactsAreWithin
  <2>3. \A p \in Page : \A i \in DOMAIN queue'[p] : queue'[p][i].seq # 0 => queue'[p][i] \in F
    <3>1. request[r].pc = "fan" /\ K!Pending(r).seq # 0 => K!Pending(r) \in F
      BY <2>2 DEF Within, K!Pending
    <3> QED BY <1>1, <2>2, <3>1 DEF Within
  <2>4. \A p \in Page : \A x \in page'[p].shown : x.seq # 0 => x \in F
    BY <2>2 DEF Within
  <2>5. \A p \in Page : \A entry \in replay'[p].rows :
          entry.seq # 0 => [seq |-> entry.seq, event |-> entry.event] \in F
    BY <2>2 DEF Within
  <2>6. \A q \in Request : request'[q].pc = "fan" /\ request'[q].number # 0 => K!Pending(q)' \in F
    BY <2>2 DEF Within, K!Pending
  <2>7. Within(F)'
    BY <2>2, <2>3, <2>4, <2>5, <2>6 DEF Within
  <2>8. Undone' => Undone /\ journal' = journal
    BY DEF Undone
  <2> QED BY <2>1, <2>7, <2>8, NothingNew DEF K!IInv
<1>3. K!RowsAreFiled'
  <2>1. \A p \in Page : \A entry \in replay'[p].rows :
          entry.key = K!Key(entry.event[1]) /\ entry.key = <<OwnerOf[p], replay'[p].run>>
    BY DEF K!IInv, K!RowsAreFiled
  <2> QED BY <2>1 DEF K!IInv, K!RowsAreFiled, K!Key
<1>4. K!TraceIsOfItsRun'
  <2>1. ASSUME NEW p \in Page, NEW i \in DOMAIN queue'[p]
        PROVE  OwnerOf[PageOf[queue'[p][i].event[1]]] = OwnerOf[p]
    <3>1. K!Pending(r).event[1] = r
      BY DEF K!Pending
    <3> QED BY <1>1, <2>1, <3>1 DEF K!IInv, K!TraceIsOfItsRun
  <2>2. ASSUME NEW p \in Page, NEW e \in page'[p].loose \cup {x.event : x \in page'[p].shown}
        PROVE  K!Key(e[1]) = <<OwnerOf[p], page'[p].run>>
    BY <2>2 DEF K!IInv, K!TraceIsOfItsRun
  <2> QED BY <2>1, <2>2 DEF K!TraceIsOfItsRun, K!Key
<1> QED BY <1>2, <1>3, <1>4 DEF K!IInv

\* A number is given once: while a request may still give one, every number in use is
\* a row's, and the row that is written had none.
LEMMA CommitKeeps ==
  ASSUME K!ConsoleAssumption, K!TypeOK, K!IInv, NEW r \in Request, request[r].pc = "commit",
         request[r].seen + 1 \notin K!Numbers(K!Rows(K!Key(r))),
         journal' = journal \cup
           {[key |-> K!Key(r), seq |-> request[r].seen + 1, event |-> <<r, request[r].at>>]},
         K!Becomes(r, K!Emitting(r, "fan", request[r].seen, request[r].tries, request[r].seen + 1)),
         UNCHANGED <<subscribers, queue, page, replay>>
  PROVE  K!IInv'
<1> DEFINE next == request[r].seen + 1
           new == [seq |-> next, event |-> <<r, request[r].at>>]
           entry == [key |-> K!Key(r), seq |-> next, event |-> <<r, request[r].at>>]
<1>1. /\ request'[r].pc = "fan" /\ request'[r].number = next /\ request'[r].at = request[r].at
      /\ \A q \in Request \ {r} : request'[q] = request[q]
  <2>1. request[r] \in K!Requests
    BY DEF K!TypeOK
  <2>2. next \in Nat /\ request[r].seen \in Nat /\ request[r].tries \in Nat
    BY <2>1 DEF K!Requests
  <2>3. PICK x \in K!Requests : /\ x = K!Emitting(r, "fan", request[r].seen, request[r].tries, next)
                              /\ x.pc = "fan" /\ x.number = next /\ x.at = request[r].at
    <3>1. K!Emitting(r, "fan", request[r].seen, request[r].tries, next) \in K!Requests
      BY <2>1, <2>2 DEF K!Emitting, K!Requests
    <3>2. PICK x \in K!Requests : x = K!Emitting(r, "fan", request[r].seen, request[r].tries, next)
      BY <3>1
    <3>3. x.pc = "fan" /\ x.number = next /\ x.at = request[r].at
      BY <3>2 DEF K!Emitting
    <3> QED BY <3>2, <3>3
  <2>4. K!Becomes(r, x)
    BY <2>3
  <2> QED BY <2>3, <2>4, WritesAre
<1>2. Undone /\ K!Facts \subseteq K!Numbered(journal)
  BY DEF Undone, K!IInv, K!NumbersAreRows
<1>3. ASSUME NEW x \in K!Facts PROVE K!Agree(x, new) /\ K!Agree(new, x)
  <2>1. PICK old \in journal : x = [seq |-> old.seq, event |-> old.event]
    BY <1>2 DEF K!Numbered
  <2>2. old.key = K!Key(x.event[1])
    BY <2>1 DEF K!IInv, K!RowsAreFiled
  <2>3. ~(x.seq = next /\ K!Key(x.event[1]) = K!Key(r))
    BY <2>1, <2>2 DEF K!Numbers, K!Rows
  <2>4. new.seq = next /\ new.event[1] = r
    OBVIOUS
  <2> QED BY <2>3, <2>4 DEF K!Agree
<1>4. PICK F : F = K!Facts \cup {new}
  OBVIOUS
<1>5. Within(K!Facts)
  BY FactsAreWithin
<1>6. Within(F)'
  <2>1. PICK G : G = K!Facts /\ Within(G)
    BY <1>5
  <2>2. G \subseteq F /\ new \in F
    BY <1>4, <2>1
  <2>3. \A x \in journal' : x.seq # 0 => [seq |-> x.seq, event |-> x.event] \in F
    BY <2>1, <2>2 DEF Within
  <2>4. \A q \in Request : request'[q].pc = "fan" /\ request'[q].number # 0 => K!Pending(q)' \in F
    <3>1. K!Pending(r)' = new
      BY <1>1 DEF K!Pending
    <3>2. \A q \in Request \ {r} : request'[q].pc = "fan" /\ request'[q].number # 0 => K!Pending(q)' \in F
      BY <1>1, <2>1, <2>2 DEF Within, K!Pending
    <3> QED BY <2>2, <3>1, <3>2
  <2> QED BY <2>1, <2>2, <2>3, <2>4 DEF Within
<1>7. K!Facts' \subseteq K!Facts \cup {new}
  BY <1>4, <1>6, NoMoreFacts
<1>8. K!NumbersAreRows'
  <2>1. \A x, y \in K!Facts : K!Agree(x, y)
    BY DEF K!IInv, K!NumbersAreRows
  <2>2. K!Agree(new, new)
    BY DEF K!Agree
  <2>3. \A x, y \in K!Facts' : K!Agree(x, y)
    BY <1>3, <1>7, <2>1, <2>2
  <2>4. K!Numbered(journal)' = K!Numbered(journal) \cup {new}
    <3>1. PICK written : written = entry
      OBVIOUS
    <3>2. new = [seq |-> written.seq, event |-> written.event] /\ journal' = journal \cup {written}
      BY <3>1
    <3>3. PICK one : one = new
      OBVIOUS
    <3> HIDE DEF new, entry
    <3> QED BY <3>2, <3>3 DEF K!Numbered
  <2>5. K!Facts' \subseteq K!Numbered(journal)'
    BY <1>2, <1>7, <2>4
  <2> HIDE DEF new
  <2>6. \A x, y \in K!Facts' : K!Agree(x, y)'
    BY <2>3 DEF K!Agree, K!Key
  <2> QED BY <2>5, <2>6 DEF K!NumbersAreRows
<1>9. K!RowsAreFiled'
  <2>1. entry.key = K!Key(entry.event[1])
    OBVIOUS
  <2>2. \A x \in journal' : x.key = K!Key(x.event[1])
    BY <2>1 DEF K!IInv, K!RowsAreFiled
  <2> QED BY <2>2 DEF K!IInv, K!RowsAreFiled, K!Key
<1>10. K!TraceIsOfItsRun'
  BY DEF K!IInv, K!TraceIsOfItsRun, K!Key
<1> QED BY <1>8, <1>9, <1>10 DEF K!IInv

LEMMA RequestKeeps ==
  ASSUME K!ConsoleAssumption, K!TypeOK, K!IInv, NEW r \in Request,
         K!Send(r) \/ K!ReadMax(r) \/ K!Commit(r) \/ K!WriteFails(r) \/ K!FanOut(r) \/ K!Answered(r)
  PROVE  K!IInv'
<1>0. /\ request[r].at \in Nat /\ request[r].seen \in Nat /\ request[r].tries \in Nat
      /\ PageOf[r] \in Page /\ RunOf[r] \in Nat /\ request[r].pc # "done"
  <2>1. request[r] \in K!Requests
    BY DEF K!TypeOK
  <2>2. request[r].pc # "done"
    BY DEF K!Send, K!ReadMax, K!Commit, K!WriteFails, K!FanOut, K!Answered
  <2> QED BY <2>1, <2>2 DEF K!Requests, K!ConsoleAssumption
<1>a. ASSUME NEW x, request' = [request EXCEPT ![r] = x], x.pc = "fan" => x.number = 0
      PROVE  \A q \in Request : request'[q].pc = "fan" /\ request'[q].number # 0 => request'[q] = request[q]
  BY <1>a DEF K!TypeOK
<1>1. CASE K!Send(r)
  <2>1. \A q \in Request : request'[q].pc = "fan" /\ request'[q].number # 0 => request'[q] = request[q]
    BY <1>1, <1>a DEF K!Send, K!Becomes, K!Emitting
  <2>2. \A p \in Page :
           \/ page'[p].run = page[p].run /\ page'[p].shown = page[p].shown /\ page'[p].loose = page[p].loose
           \/ page'[p].shown = {} /\ page'[p].loose = {}
    <3>1. CASE page' = page
      BY <3>1
    <3>2. CASE K!Shows(PageOf[r], K!Fresh(page[PageOf[r]].stream, RunOf[r]))
      BY <3>2 DEF K!Shows, K!Fresh, K!TypeOK
    <3> QED BY <1>1, <3>1, <3>2 DEF K!Send
  <2> QED BY <1>0, <1>1, <2>1, <2>2, QuietKeeps DEF K!Send
<1>2. CASE K!ReadMax(r)
  <2>1. \A q \in Request : request'[q].pc = "fan" /\ request'[q].number # 0 => request'[q] = request[q]
    BY <1>2, <1>a DEF K!ReadMax, K!Becomes, K!Emitting
  <2> QED BY <1>0, <1>2, <2>1, QuietKeeps DEF K!ReadMax
<1>3. CASE K!Commit(r) /\ journal' = journal /\ K!Becomes(r, K!LostTheRace(r))
  <2>1. \A q \in Request : request'[q].pc = "fan" /\ request'[q].number # 0 => request'[q] = request[q]
    BY <1>3, <1>a DEF K!LostTheRace, K!Becomes, K!Emitting
  <2> QED BY <1>0, <1>3, <2>1, QuietKeeps DEF K!Commit
<1>4. CASE K!Commit(r) /\ ~(journal' = journal /\ K!Becomes(r, K!LostTheRace(r)))
  BY <1>4, CommitKeeps DEF K!Commit
<1>5. CASE K!WriteFails(r)
  <2>1. \A q \in Request : request'[q].pc = "fan" /\ request'[q].number # 0 => request'[q] = request[q]
    BY <1>5, <1>a DEF K!WriteFails, K!Becomes, K!Emitting
  <2> QED BY <1>0, <1>5, <2>1, QuietKeeps DEF K!WriteFails
<1>6. CASE K!FanOut(r)
  <2>1. \A q \in Request : request'[q].pc = "fan" /\ request'[q].number # 0 => request'[q] = request[q]
    <3>1. PICK x : K!Becomes(r, x) /\ x.pc \in {"read", "answered"}
      BY <1>6 DEF K!FanOut, K!Emitting
    <3> QED BY <1>a, <3>1 DEF K!Becomes
  <2>2. \A p \in Page :
           \/ queue'[p] = queue[p]
           \/ /\ queue'[p] = Append(queue[p], K!Pending(r)) /\ request[r].pc = "fan"
              /\ OwnerOf[PageOf[r]] = OwnerOf[p]
    <3>1. ASSUME NEW p \in Page, NEW i \in DOMAIN subscribers, K!Hears(subscribers[i], r),
                 subscribers[i].page = p
          PROVE  OwnerOf[PageOf[r]] = OwnerOf[p]
      BY <3>1 DEF K!IInv, K!RowsAreFiled, K!Hears
    <3> QED BY <1>6, <3>1, FanOutQueues DEF K!FanOut
  <2> QED BY <1>0, <1>6, <2>1, <2>2, QuietKeeps DEF K!FanOut
<1>7. CASE K!Answered(r)
  <2>1. \A q \in Request : request'[q].pc = "fan" /\ request'[q].number # 0 => request'[q] = request[q]
    BY <1>7, <1>a DEF K!Answered, K!Becomes, K!Emitting
  <2>2. \A p \in Page : page'[p].run = page[p].run /\ page'[p].shown = page[p].shown
                                                   /\ page'[p].loose = page[p].loose
    <3>1. CASE page' = page
      BY <3>1
    <3>2. CASE K!Shows(PageOf[r], [page[PageOf[r]] EXCEPT !.completed = TRUE])
      <4>1. PICK pg \in K!Pages : pg = page[PageOf[r]]
        BY <1>0 DEF K!TypeOK
      <4>2. PICK x : x = [pg EXCEPT !.completed = TRUE]
        OBVIOUS
      <4>3. x.run = pg.run /\ x.shown = pg.shown /\ x.loose = pg.loose
        BY <4>2 DEF K!Pages
      <4>4. page' = [page EXCEPT ![PageOf[r]] = x]
        BY <3>2, <4>1, <4>2 DEF K!Shows
      <4> QED BY <4>1, <4>3, <4>4 DEF K!TypeOK
    <3> QED BY <1>7, <3>1, <3>2 DEF K!Answered
  <2>3. \A p \in Page : replay'[p] = replay[p] \/ replay'[p].rows = {}
    <3>1. CASE replay' = replay
      BY <3>1
    <3>2. CASE K!Reads(PageOf[r], K!Reading("asked", RunOf[r], 0, {}, {}, FALSE))
      BY <3>2 DEF K!Reads, K!Reading, K!TypeOK
    <3> QED BY <1>7, <3>1, <3>2 DEF K!Answered
  <2> QED BY <1>0, <1>7, <2>1, <2>2, <2>3, QuietKeeps DEF K!Answered
<1> QED BY <1>1, <1>2, <1>3, <1>4, <1>5, <1>6, <1>7

\* A page may draw what it has heard or read of the run on screen, and read more rows.
LEMMA DrawingKeeps ==
  ASSUME K!TypeOK, K!IInv, UNCHANGED <<journal, request, subscribers>>,
         \A p \in Page : \A i \in DOMAIN queue'[p] :
           \E j \in DOMAIN queue[p] : queue'[p][i] = queue[p][j],
         \A p \in Page : page'[p].run = page[p].run,
         \A p \in Page : \A x \in page'[p].shown :
           x \in page[p].shown \/ (/\ x.seq # 0 => x \in K!Facts
                                   /\ K!Key(x.event[1]) = <<OwnerOf[p], page[p].run>>),
         \A p \in Page : \A e \in page'[p].loose :
           e \in page[p].loose \/ K!Key(e[1]) = <<OwnerOf[p], page[p].run>>,
         \A p \in Page : \/ replay'[p] = replay[p]
                         \/ \A entry \in replay'[p].rows :
                              entry \in journal /\ entry.key = <<OwnerOf[p], replay'[p].run>>
  PROVE  K!IInv'
<1>1. K!NumbersAreRows'
  <2>1. PICK F : F = K!Facts
    OBVIOUS
  <2>2. Within(F)
    BY <2>1, FactsAreWithin
  <2>3. \A p \in Page : \A x \in page'[p].shown : x.seq # 0 => x \in F
    BY <2>1, <2>2 DEF Within
  <2>4. \A p \in Page : \A entry \in replay'[p].rows :
          entry.seq # 0 => [seq |-> entry.seq, event |-> entry.event] \in F
    BY <2>2 DEF Within
  <2>5. \A p \in Page : \A i \in DOMAIN queue'[p] : queue'[p][i].seq # 0 => queue'[p][i] \in F
    BY <2>2 DEF Within
  <2>6. Within(F)'
    BY <2>2, <2>3, <2>4, <2>5 DEF Within, K!Pending
  <2>7. Undone' => Undone /\ journal' = journal
    BY DEF Undone
  <2> QED BY <2>1, <2>6, <2>7, NothingNew DEF K!IInv
<1>2. K!RowsAreFiled'
  <2>1. \A p \in Page : \A entry \in replay'[p].rows :
          entry.key = K!Key(entry.event[1]) /\ entry.key = <<OwnerOf[p], replay'[p].run>>
    BY DEF K!IInv, K!RowsAreFiled
  <2> QED BY <2>1 DEF K!IInv, K!RowsAreFiled, K!Key
<1>3. K!TraceIsOfItsRun'
  <2>1. ASSUME NEW p \in Page, NEW i \in DOMAIN queue'[p]
        PROVE  OwnerOf[PageOf[queue'[p][i].event[1]]] = OwnerOf[p]
    BY <2>1 DEF K!IInv, K!TraceIsOfItsRun
  <2>2. ASSUME NEW p \in Page, NEW e \in page'[p].loose \cup {x.event : x \in page'[p].shown}
        PROVE  K!Key(e[1]) = <<OwnerOf[p], page'[p].run>>
    <3>1. \A f \in page[p].loose \cup {x.event : x \in page[p].shown} :
            K!Key(f[1]) = <<OwnerOf[p], page[p].run>>
      BY DEF K!IInv, K!TraceIsOfItsRun
    <3> QED BY <2>2, <3>1
  <2> QED BY <2>1, <2>2 DEF K!TraceIsOfItsRun, K!Key
<1> QED BY <1>1, <1>2, <1>3 DEF K!IInv

\* What a page draws of items that are of its run and carry numbers in use.
LEMMA DrawnIs ==
  ASSUME K!TypeOK, K!IInv, NEW p \in Page, NEW items,
         \A x \in items : /\ x.seq \in Nat /\ x.event \in K!Event
                          /\ x.seq # 0 => [seq |-> x.seq, event |-> x.event] \in K!Facts
                          /\ K!Key(x.event[1]) = <<OwnerOf[p], page[p].run>>,
         K!Shows(p, K!Recorded(page[p], items))
  PROVE  /\ \A q \in Page : page'[q].run = page[q].run
         /\ \A q \in Page : \A x \in page'[q].shown :
              x \in page[q].shown \/ (/\ x.seq # 0 => x \in K!Facts
                                      /\ K!Key(x.event[1]) = <<OwnerOf[q], page[q].run>>)
         /\ \A q \in Page : \A e \in page'[q].loose :
              e \in page[q].loose \/ K!Key(e[1]) = <<OwnerOf[q], page[q].run>>
<1>1. page[p] \in K!Pages
  BY DEF K!TypeOK
<1>a. LET x == K!Recorded(page[p], items) IN
      /\ x \in K!Pages /\ x.run = page[p].run
      /\ \A y \in x.shown : y \in page[p].shown
                          \/ \E z \in items : z.seq # 0 /\ y = [seq |-> z.seq, event |-> z.event]
      /\ \A e \in x.loose : e \in page[p].loose \/ \E z \in items : e = z.event
  BY <1>1, RecordedIs
<1>2. PICK x \in K!Pages : x = K!Recorded(page[p], items)
  BY <1>a
<1>3. page'[p] = x /\ \A q \in Page \ {p} : page'[q] = page[q]
  BY <1>2, WritesAre
<1>4. x.run = page[p].run
  BY <1>a, <1>2
<1>5. ASSUME NEW y \in x.shown, y \notin page[p].shown
      PROVE  (y.seq # 0 => y \in K!Facts) /\ K!Key(y.event[1]) = <<OwnerOf[p], page[p].run>>
  <2>1. PICK z \in items : z.seq # 0 /\ y = [seq |-> z.seq, event |-> z.event]
    BY <1>a, <1>2, <1>5
  <2> QED BY <2>1
<1>6. ASSUME NEW e \in x.loose, e \notin page[p].loose
      PROVE  K!Key(e[1]) = <<OwnerOf[p], page[p].run>>
  <2>1. PICK z \in items : e = z.event
    BY <1>a, <1>2, <1>6
  <2> QED BY <2>1
<1> QED BY <1>3, <1>4, <1>5, <1>6

\* Of a page only what it says, or that it is complete, changes.
LEMMA SayingIs ==
  ASSUME K!TypeOK, NEW p \in Page,
         page' = page \/ \E s \in {"nothing", "whole", "incomplete"} : K!Shows(p, [page[p] EXCEPT !.said = s])
  PROVE  \A q \in Page : page'[q].run = page[q].run /\ page'[q].shown = page[q].shown
                           /\ page'[q].loose = page[q].loose
<1>1. ASSUME NEW s \in {"nothing", "whole", "incomplete"}, K!Shows(p, [page[p] EXCEPT !.said = s]),
             NEW q \in Page
      PROVE  page'[q].run = page[q].run /\ page'[q].shown = page[q].shown
               /\ page'[q].loose = page[q].loose
  <2>1. PICK pg \in K!Pages : pg = page[p]
    BY DEF K!TypeOK
  <2>2. PICK x : x = [pg EXCEPT !.said = s]
    OBVIOUS
  <2>3. x.run = pg.run /\ x.shown = pg.shown /\ x.loose = pg.loose
    BY <2>2 DEF K!Pages
  <2>4. page' = [page EXCEPT ![p] = x]
    BY <1>1, <2>1, <2>2 DEF K!Shows
  <2> QED BY <2>1, <2>3, <2>4 DEF K!TypeOK
<1> QED BY <1>1

LEMMA PageKeeps ==
  ASSUME K!TypeOK, K!IInv, NEW p \in Page,
         K!Receive(p) \/ K!Reopened(p) \/ K!EventsAfter(p) \/ K!TakeRows(p) \/ K!ReplayFails(p)
  PROVE  K!IInv'
<1>0. UNCHANGED <<journal, request, subscribers>>
  BY DEF K!Receive, K!Reopened, K!EventsAfter, K!TakeRows, K!ReplayFails
<1>a. queue' = queue => \A q \in Page : \A i \in DOMAIN queue'[q] :
                          \E j \in DOMAIN queue[q] : queue'[q][i] = queue[q][j]
  OBVIOUS
<1>b. ASSUME NEW x \in K!Replays, K!Reads(p, x), x.rows = {}
      PROVE  \A q \in Page : replay'[q] = replay[q] \/ replay'[q].rows = {}
  <2>1. replay'[p] = x /\ \A q \in Page \ {p} : replay'[q] = replay[q]
    BY <1>b, WritesAre
  <2> QED BY <1>b, <2>1
<1>c. K!Reads(p, K!NotReading) => \A q \in Page : replay'[q] = replay[q] \/ replay'[q].rows = {}
  BY <1>b, AskedIs
<1>1. CASE K!Receive(p)
  <2>1. queue[p] \in Seq(K!Item) /\ queue[p] # <<>>
    BY <1>1 DEF K!TypeOK, K!Receive
  <2>2. PICK x \in K!Item : x = Head(queue[p]) /\ x = queue[p][1] /\ 1 \in DOMAIN queue[p]
    BY <2>1, HeadTailProperties
  <2>3. \A q \in Page : \A i \in DOMAIN queue'[q] :
          \E j \in DOMAIN queue[q] : queue'[q][i] = queue[q][j]
    <3>1. queue' = [queue EXCEPT ![p] = Tail(queue[p])]
      BY <1>1 DEF K!Receive
    <3>2. \A i \in DOMAIN Tail(queue[p]) :
            i + 1 \in DOMAIN queue[p] /\ Tail(queue[p])[i] = queue[p][i + 1]
      BY <2>1
    <3>3. queue'[p] = Tail(queue[p]) /\ \A q \in Page \ {p} : queue'[q] = queue[q]
      BY <3>1 DEF K!TypeOK
    <3> QED BY <3>2, <3>3
  <2>4. replay' = replay
    BY <1>1 DEF K!Receive
  <2>5. CASE page' = page
    BY <1>0, <2>3, <2>4, <2>5, DrawingKeeps
  <2>6. CASE RunOf[x.event[1]] = page[p].run /\ K!Shows(p, K!Recorded(page[p], {x}))
    <3>1. x.seq \in Nat /\ x.event \in K!Event /\ x = [seq |-> x.seq, event |-> x.event]
      BY DEF K!Item
    <3>2. x.seq # 0 => x \in K!Facts
      BY <2>2, FactsAreWithin DEF Within
    <3>3. K!Key(x.event[1]) = <<OwnerOf[p], page[p].run>>
      BY <2>2, <2>6 DEF K!IInv, K!TraceIsOfItsRun, K!Key
    <3>4. PICK items : items = {x}
      OBVIOUS
    <3>5. /\ \A y \in items : /\ y.seq \in Nat /\ y.event \in K!Event
                              /\ y.seq # 0 => [seq |-> y.seq, event |-> y.event] \in K!Facts
                              /\ K!Key(y.event[1]) = <<OwnerOf[p], page[p].run>>
          /\ K!Shows(p, K!Recorded(page[p], items))
      BY <2>6, <3>1, <3>2, <3>3, <3>4
    <3> QED BY <1>0, <2>3, <2>4, <3>5, DrawnIs, DrawingKeeps
  <2> QED BY <1>1, <2>2, <2>5, <2>6 DEF K!Receive
<1>2. CASE K!Reopened(p)
  <2>1. \A q \in Page : replay'[q] = replay[q] \/ replay'[q].rows = {}
    <3>1. page[p].run \in Nat
      BY PageIs
    <3>2. PICK x \in K!Replays : x = K!Reading("asked", page[p].run, 0, {}, {}, FALSE) /\ x.rows = {}
      BY <3>1, AskedIs
    <3> QED BY <1>2, <1>b, <3>2 DEF K!Reopened
  <2>2. page' = page /\ queue' = queue
    BY <1>2 DEF K!Reopened
  <2> QED BY <1>0, <1>a, <2>1, <2>2, DrawingKeeps
<1>3. CASE K!EventsAfter(p)
  <2>0. /\ replay[p] \in K!Replays
        /\ replay[p].run \in Nat /\ replay[p].after \in Nat /\ replay[p].got \in SUBSET Nat
        /\ replay[p].verdict \in BOOLEAN
    BY DEF K!TypeOK, K!Replays
  <2>1. PICK rows \in SUBSET journal :
          /\ \A entry \in rows : entry.key = <<OwnerOf[p], replay[p].run>>
          /\ K!Reads(p, K!Reading("replied", replay[p].run, replay[p].after, rows, replay[p].got,
                           replay[p].verdict))
    BY <1>3 DEF K!EventsAfter, K!FirstOf, K!Rows
  <2>2. rows \in SUBSET K!Row
    BY DEF K!TypeOK
  <2>3. PICK x \in K!Replays : /\ x.rows = rows /\ x.run = replay[p].run
                             /\ x = K!Reading("replied", replay[p].run, replay[p].after, rows,
                                            replay[p].got, replay[p].verdict)
    BY <2>0, <2>2, ReadingIs
  <2>4. replay'[p] = x /\ \A q \in Page \ {p} : replay'[q] = replay[q]
    BY <2>1, <2>3, WritesAre
  <2>5. \A q \in Page : \/ replay'[q] = replay[q]
                        \/ \A entry \in replay'[q].rows :
                              entry \in journal /\ entry.key = <<OwnerOf[q], replay'[q].run>>
    BY <2>1, <2>3, <2>4
  <2>6. page' = page /\ queue' = queue
    BY <1>3 DEF K!EventsAfter
  <2> QED BY <1>0, <1>a, <2>5, <2>6, DrawingKeeps
<1>4. CASE K!TakeRows(p)
  <2>0. /\ replay[p] \in K!Replays /\ K!IsFiniteSet(replay[p].rows) /\ replay[p].rows \subseteq K!Row
        /\ replay[p].run \in Nat /\ replay[p].after \in Nat /\ replay[p].got \subseteq Nat
        /\ queue' = queue
    BY <1>4 DEF K!TypeOK, K!Replays, K!TakeRows
  <2>1. CASE page' = page /\ K!Reads(p, K!NotReading)
    BY <1>0, <1>a, <1>c, <2>0, <2>1, DrawingKeeps
  <2>2. CASE \E verdict \in BOOLEAN :
               /\ K!StillWanted(p)
               /\ replay[p].rows # {} /\ K!Shows(p, K!Recorded(page[p], replay[p].rows))
               /\ K!Reads(p, K!Reading("asked", replay[p].run, K!Max(K!Numbers(replay[p].rows)), {},
                                   replay[p].got \cup K!Numbers(replay[p].rows), verdict))
    <3>1. PICK verdict \in BOOLEAN :
               /\ K!StillWanted(p)
               /\ replay[p].rows # {} /\ K!Shows(p, K!Recorded(page[p], replay[p].rows))
               /\ K!Reads(p, K!Reading("asked", replay[p].run, K!Max(K!Numbers(replay[p].rows)), {},
                                   replay[p].got \cup K!Numbers(replay[p].rows), verdict))
      BY <2>2
    <3>2. \A x \in replay[p].rows :
            /\ x.seq \in Nat /\ x.event \in K!Event
            /\ x.seq # 0 => [seq |-> x.seq, event |-> x.event] \in K!Facts
            /\ K!Key(x.event[1]) = <<OwnerOf[p], page[p].run>>
      <4>1. \A x \in replay[p].rows : x.seq \in Nat /\ x.event \in K!Event
        BY <2>0 DEF K!Row
      <4>2. \A x \in replay[p].rows : x.seq # 0 => [seq |-> x.seq, event |-> x.event] \in K!Facts
        BY FactsAreWithin DEF Within
      <4>3. \A x \in replay[p].rows : K!Key(x.event[1]) = <<OwnerOf[p], page[p].run>>
        BY <3>1 DEF K!IInv, K!RowsAreFiled, K!StillWanted
      <4> QED BY <4>1, <4>2, <4>3
    <3>3. /\ K!Max(K!Numbers(replay[p].rows)) \in Nat
          /\ replay[p].got \cup K!Numbers(replay[p].rows) \in SUBSET Nat
      BY <2>0, <3>1, NumbersAre
    <3>4. PICK x \in K!Replays : /\ x.rows = {}
                               /\ x = K!Reading("asked", replay[p].run, K!Max(K!Numbers(replay[p].rows)), {},
                                      replay[p].got \cup K!Numbers(replay[p].rows), verdict)
      BY <2>0, <3>3, ReadingIs
    <3>5. \A q \in Page : replay'[q] = replay[q] \/ replay'[q].rows = {}
      BY <1>b, <3>1, <3>4
    <3> QED BY <1>0, <1>a, <2>0, <3>1, <3>2, <3>5, DrawnIs, DrawingKeeps
  <2>3. CASE /\ K!Reads(p, K!NotReading)
             /\ \E s \in {"nothing", "whole", "incomplete"} : K!Shows(p, [page[p] EXCEPT !.said = s])
    BY <1>0, <1>a, <1>c, <2>0, <2>3, SayingIs, DrawingKeeps
  <2>4. PICK verdict \in BOOLEAN :
          verdict = (replay[p].verdict \/ {entry \in replay[p].rows : K!IsVerdict(entry.event)} # {})
    OBVIOUS
  <2> QED BY <1>4, <2>1, <2>2, <2>3, <2>4 DEF K!TakeRows
<1>5. CASE K!ReplayFails(p)
  <2>1. \A q \in Page : page'[q].run = page[q].run /\ page'[q].shown = page[q].shown
                           /\ page'[q].loose = page[q].loose
    BY <1>5, SayingIs DEF K!ReplayFails
  <2>2. queue' = queue /\ K!Reads(p, K!NotReading)
    BY <1>5 DEF K!ReplayFails
  <2> QED BY <1>0, <1>a, <1>c, <2>1, <2>2, DrawingKeeps
<1> QED BY <1>1, <1>2, <1>3, <1>4, <1>5

\* The rows go when nothing will be numbered any more.
LEMMA JournalPurgeKeeps == K!TypeOK /\ K!IInv /\ K!Purge => K!IInv'
<1> SUFFICES ASSUME K!TypeOK, K!IInv, K!Purge
             PROVE  K!IInv'
  OBVIOUS
<1>1. /\ journal' = {} /\ UNCHANGED <<keys, request, subscribers, queue, tokens, page, replay>>
      /\ ~Undone'
  BY DEF K!Purge, Undone
<1>2. K!NumbersAreRows'
  <2>1. PICK F : F = K!Facts /\ Within(F)
    BY FactsAreWithin
  <2>2. Within(F)'
    BY <1>1, <2>1 DEF Within, K!Pending
  <2> QED BY <1>1, <2>1, <2>2, NothingNew DEF K!IInv
<1> QED BY <1>1, <1>2 DEF K!IInv, K!RowsAreFiled, K!TraceIsOfItsRun, K!Key

LEMMA ConsoleStep == K!ConsoleAssumption /\ K!TypeOK /\ K!IInv /\ [K!Next]_(K!vars) => K!IInv'
<1> SUFFICES ASSUME K!ConsoleAssumption, K!TypeOK, K!IInv, [K!Next]_(K!vars)
             PROVE  K!IInv'
  OBVIOUS
<1>1. CASE \E p \in Page : K!Load(p) \/ K!KeyExpires(p) \/ K!Connect(p) \/ K!Keepalive(p) \/ K!StreamEnds(p)
  BY <1>1, StreamKeeps
<1>2. CASE \E p \in Page : K!Receive(p) \/ K!Reopened(p) \/ K!EventsAfter(p) \/ K!TakeRows(p) \/ K!ReplayFails(p)
  BY <1>2, PageKeeps
<1>3. CASE \E r \in Request :
             K!Send(r) \/ K!ReadMax(r) \/ K!Commit(r) \/ K!WriteFails(r) \/ K!FanOut(r) \/ K!Answered(r)
  BY <1>3, RequestKeeps
<1>4. CASE K!Purge
  BY <1>4, JournalPurgeKeeps
<1>5. CASE K!TokenExpires \/ UNCHANGED K!vars
  <2>1. UNCHANGED <<journal, request, subscribers, queue, page, replay>>
    BY <1>5 DEF K!TokenExpires, K!vars
  <2> QED BY <2>1, DrawingKeeps
<1> QED BY <1>1, <1>2, <1>3, <1>4, <1>5 DEF K!Next

LEMMA ConsoleInit == K!ConsoleAssumption /\ K!Init => K!IInv
<1> SUFFICES ASSUME K!ConsoleAssumption, K!Init
             PROVE  K!IInv
  OBVIOUS
<1>1. /\ journal = {} /\ subscribers = <<>> /\ \A p \in Page : queue[p] = <<>>
      /\ \A p \in Page : page[p].shown = {} /\ page[p].loose = {}
      /\ \A p \in Page : replay[p].rows = {}
      /\ \A r \in Request : request[r].pc = "unsent"
  BY DEF K!Init, K!Closed, K!Fresh, K!NotReading, K!Reading
<1>2. K!Facts = {}
  BY <1>1 DEF K!Facts, K!Carried, K!Numbered, K!BeingRead, K!Outgoing
<1> QED BY <1>1, <1>2 DEF K!IInv, K!NumbersAreRows, K!RowsAreFiled, K!TraceIsOfItsRun

\* The invariant of the console: numbers in use agree and, while any request may
\* still number an event, are rows of the journal; rows, subscribers and what a
\* page reads are filed under their own run and owner (persist_event, emit).
THEOREM ConsoleInvariance == ASSUME K!ConsoleAssumption PROVE K!Spec => [](K!TypeOK /\ K!IInv)
<1>1. K!Init => K!TypeOK /\ K!IInv
  BY ConsoleInitTypes, ConsoleInit
<1>2. K!TypeOK /\ K!IInv /\ [K!Next]_(K!vars) => (K!TypeOK /\ K!IInv)'
  BY ConsoleTypeStep, ConsoleStep
<1> QED BY <1>1, <1>2, PTL DEF K!Spec

\* The instance promises what the state's own module does.
LEMMA TracePromises ==
  (K!NumbersNameOneEvent => NumbersNameOneEvent) /\ (K!TraceIsOfItsRun => TraceIsOfItsRun)
<1>1. K!Carried = Carried /\ \A r : K!Key(r) = Key(r)
  BY DEF K!Carried, Carried, K!Key, Key
<1> QED
  BY <1>1 DEF K!NumbersNameOneEvent, NumbersNameOneEvent, K!TraceIsOfItsRun, TraceIsOfItsRun

\* No two events of a run ever go out, are drawn or are kept under one number,
\* however many requests race for it and whichever commits fail (persist_event).
THEOREM NumbersNameOne == ASSUME K!ConsoleAssumption PROVE K!Spec => []NumbersNameOneEvent
<1>1. K!TypeOK /\ K!IInv => NumbersNameOneEvent
  <2> SUFFICES ASSUME K!TypeOK, K!IInv
               PROVE  K!NumbersNameOneEvent
    BY TracePromises
  <2>1. \A x, y \in K!Facts : K!Agree(x, y)
    BY DEF K!IInv, K!NumbersAreRows
  <2>2. \A x \in K!Carried : x.seq # 0 => x \in K!Facts
    BY DEF K!Facts
  <2>3. ASSUME NEW x \in K!Carried, NEW entry \in journal, x.seq # 0, entry.key = K!Key(x.event[1]),
               entry.seq = x.seq
        PROVE  entry.event = x.event
    <3>1. PICK y : y = [seq |-> entry.seq, event |-> entry.event]
      OBVIOUS
    <3>2. y \in K!Facts
      BY <2>3, <3>1, FactsAreWithin DEF Within
    <3>3. K!Key(entry.event[1]) = entry.key
      BY DEF K!IInv, K!RowsAreFiled
    <3> QED BY <2>1, <2>2, <2>3, <3>1, <3>2, <3>3 DEF K!Agree
  <2>4. ASSUME NEW x \in K!Carried, NEW y \in K!Carried, x.seq # 0, x.seq = y.seq,
               K!Key(x.event[1]) = K!Key(y.event[1])
        PROVE  x.event = y.event
    BY <2>1, <2>2, <2>4 DEF K!Agree
  <2> QED BY <2>3, <2>4 DEF K!NumbersNameOneEvent
<1> QED BY <1>1, ConsoleInvariance, PTL

\* A page draws only events of the run it shows and is sent only its own owner's,
\* however late a replay answers and whoever is displaced from the bus (emit,
\* the page's replay).
THEOREM TraceOfItsRun == ASSUME K!ConsoleAssumption PROVE K!Spec => []TraceIsOfItsRun
<1>1. K!IInv => TraceIsOfItsRun
  BY TracePromises DEF K!IInv
<1> QED BY <1>1, ConsoleInvariance, PTL

=============================================================================
