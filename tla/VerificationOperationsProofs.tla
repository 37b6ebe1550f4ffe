-------------------- MODULE VerificationOperationsProofs --------------------
(***************************************************************************)
(* Proofs about VerificationOperations, for every set of attempts, keys    *)
(* and bodies and every choice of the windows.                             *)
(***************************************************************************)
EXTENDS VerificationOperations, TLAPS

\* Every step keeps the variables in their types.
LEMMA TypeStep == TypeOK /\ [Next]_vars => TypeOK'
<1> SUFFICES ASSUME TypeOK, [Next]_vars PROVE TypeOK'
  OBVIOUS
<1> USE NoneAssumption, ClockAssumption DEF TypeOK, Row, Absent, Entry, NoEntry, Answer, Silence,
     RowState, Ended, Control, SaverState, MarkerState, AnswerKind, KeyOf, Present, Go, Tell,
     storeVars, threadVars, ghostVars
<1>1. ASSUME NEW a \in Attempt, NEW k \in Key, NEW b \in Body, Arrive(a, k, b) PROVE TypeOK'
  BY <1>1 DEF Arrive
<1>2. ASSUME NEW a \in Attempt, Handler(a) PROVE TypeOK'
  <2>1. CASE CacheHit(a)  BY <2>1 DEF CacheHit
  <2>2. CASE CacheMiss(a)  BY <2>2 DEF CacheMiss
  <2>3. CASE Reserve(a)  BY <2>3 DEF Reserve, InsertRow, PendingRow
  <2>4. CASE ReserveConflict(a)  BY <2>4 DEF ReserveConflict
  <2>5. CASE AnswerExisting(a)  BY <2>5 DEF AnswerExisting, ReplayOrRefuse, PendingRow
  <2>6. CASE DetachedReserve(a)
    <3>1. CASE ~Present(KeyOf(a)) /\ InsertRow(a)
      BY <2>6, <3>1 DEF DetachedReserve, InsertRow, PendingRow
    <3>2. CASE UNCHANGED <<rows, reservedAt>>
      BY <2>6, <3>2 DEF DetachedReserve
    <3> QED BY <2>6, <3>1, <3>2, Zenon DEF DetachedReserve
  <2>7. CASE Release(a)  BY <2>7 DEF Release
  <2>8. CASE StartWork(a)  BY <2>8 DEF StartWork
  <2>9. CASE Investigated(a)  BY <2>9 DEF Investigated
  <2>10. CASE Respond(a)  BY <2>10 DEF Respond
  <2>11. CASE Remember(a)  BY <2>11 DEF Remember
  <2> QED BY <1>2, <2>1, <2>2, <2>3, <2>4, <2>5, <2>6, <2>7, <2>8, <2>9, <2>10, <2>11 DEF Handler
<1>3. ASSUME NEW a \in Attempt, SaveThread(a) PROVE TypeOK'
  <2>1. CASE SaveRead(a)  BY <2>1 DEF SaveRead
  <2>2. CASE SaveCommit(a)
    <3>1. rows' \in [Key -> Row]
      BY <2>2 DEF SaveCommit, Rewritten
    <3> QED BY <2>2, <3>1 DEF SaveCommit
  <2>3. CASE SaveAborts(a)  BY <2>3 DEF SaveAborts
  <2> QED BY <1>3, <2>1, <2>2, <2>3 DEF SaveThread
<1>4. ASSUME NEW a \in Attempt, MarkThread(a) PROVE TypeOK'
  <2>1. CASE MarkRead(a)  BY <2>1 DEF MarkRead
  <2>2. CASE MarkWrite(a)  BY <2>2 DEF MarkWrite, Rewritten
  <2>3. CASE MarkAborts(a)  BY <2>3 DEF MarkAborts
  <2> QED BY <1>4, <2>1, <2>2, <2>3 DEF MarkThread
<1>5. ASSUME NEW a \in Attempt, Failure(a) PROVE TypeOK'
  <2>1. CASE CancelOutsideTry(a)  BY <2>1 DEF CancelOutsideTry
  <2>2. CASE BuildFails(a)  BY <2>2 DEF BuildFails
  <2>3. CASE ReleaseFails(a)  BY <2>3 DEF ReleaseFails
  <2>4. CASE FailAfterWork(a)  BY <2>4 DEF FailAfterWork
  <2> QED BY <1>5, <2>1, <2>2, <2>3, <2>4 DEF Failure
<1>6. ASSUME NEW k \in Key, CacheLose(k) PROVE TypeOK'
  BY <1>6 DEF CacheLose
<1>7. CASE Sweeper
  BY <1>7 DEF Sweeper, SweepSelect, SweepDelete
<1>8. CASE Crash
  BY <1>8 DEF Crash
<1>9. CASE Tick
  BY <1>9 DEF Tick
<1>10. CASE UNCHANGED vars
  BY <1>10 DEF vars
<1> QED
  BY <1>1, <1>2, <1>3, <1>4, <1>5, <1>6, <1>7, <1>8, <1>9, <1>10 DEF Next

\* The rows, threads and records always have the shapes TypeOK gives them.
THEOREM TypeCorrect == Spec => []TypeOK
<1>1. Init => TypeOK
  BY NoneAssumption DEF Init, TypeOK, Row, Absent, Entry, NoEntry, Answer, Silence,
     RowState, Ended, Control, SaverState, MarkerState, AnswerKind
<1> QED
  BY <1>1, TypeStep, PTL DEF Spec

\* Every step keeps the inductive invariant: a row is replaced only when it is
\* out of its window, so who holds a key and what was spent under it agree.
LEMMA InvStep == TypeOK /\ IInv /\ [Next]_vars => IInv'
<1> SUFFICES ASSUME TypeOK, IInv, [Next]_vars PROVE IInv'
  OBVIOUS
<1>t. TypeOK'
  BY TypeStep
<1> USE NoneAssumption, ClockAssumption, FlightAssumption DEF IInv
<1> USE DEF TypeOK, Row, RowState, Ended, Control, Early, SaverState, MarkerState, KeyOf, Present, Holds, Fresh,
     InFlight, Purgeable, RowsAreOwned, FlightHolds, Progress, SpentIsHeld, DoomedIsStale,
     ClaimsAreSpaced, Claimants, Absent, Go, Tell, storeVars, threadVars, ghostVars
<1>d. ASSUME NEW a \in Attempt, InFlight(a) \/ (a \in spent /\ Fresh(a))
      PROVE KeyOf(a) \notin doomed
  <2>1. Holds(a) /\ now <= reservedAt[a] + IdempotencyTTL
    BY <1>d
  <2>2. KeyOf(a) \in Key /\ reservedAt[a] <= rows[KeyOf(a)].updatedAt
    BY <1>d, <2>1
  <2>3. ~Purgeable(rows[KeyOf(a)])
    BY <2>1, <2>2
  <2> QED BY <2>3
<1>1. ASSUME NEW a \in Attempt, NEW k \in Key, NEW b \in Body, Arrive(a, k, b) PROVE IInv'
  BY <1>1, <1>t DEF Arrive
<1>2. ASSUME NEW a \in Attempt, Handler(a) PROVE IInv'
  <2>1. CASE CacheHit(a)  BY <2>1, <1>t DEF CacheHit
  <2>2. CASE CacheMiss(a)  BY <2>2, <1>t DEF CacheMiss
  <2>3. CASE Reserve(a)
    <3>1. RowsAreOwned'
      BY <2>3, <1>t, <1>d DEF Reserve, InsertRow, PendingRow
    <3>2. FlightHolds'
      BY <2>3, <1>t, <1>d DEF Reserve, InsertRow, PendingRow
    <3>3. Progress'
      BY <2>3, <1>t, <1>d DEF Reserve, InsertRow, PendingRow
    <3>4. SpentIsHeld'
      BY <2>3, <1>t, <1>d DEF Reserve, InsertRow, PendingRow
    <3>5. DoomedIsStale'
      BY <2>3, <1>t, <1>d DEF Reserve, InsertRow, PendingRow
    <3>6. ClaimsAreSpaced'
      <4>1. \A b \in Claimants : KeyOf(b) = KeyOf(a) => reservedAt[b] + IdempotencyTTL < now
        BY <2>3 DEF Reserve
      <4>2. a \notin Claimants /\ Claimants' = Claimants \cup {a} /\ req' = req
        BY <2>3 DEF Reserve
      <4>3. /\ reservedAt'[a] = now
            /\ \A b \in Attempt : b # a => reservedAt'[b] = reservedAt[b]
        BY <2>3 DEF Reserve, InsertRow
      <4>4. ASSUME NEW x \in Claimants', NEW y \in Claimants', x # y, KeyOf(x)' = KeyOf(y)'
            PROVE  \/ reservedAt'[x] + IdempotencyTTL < reservedAt'[y]
                   \/ reservedAt'[y] + IdempotencyTTL < reservedAt'[x]
        <5>1. CASE x = a  BY <4>1, <4>2, <4>3, <4>4, <5>1
        <5>2. CASE y = a  BY <4>1, <4>2, <4>3, <4>4, <5>2
        <5>3. CASE x # a /\ y # a
          <6>1. /\ x \in Claimants /\ y \in Claimants /\ KeyOf(x) = KeyOf(y)
                /\ reservedAt'[x] = reservedAt[x] /\ reservedAt'[y] = reservedAt[y]
            BY <4>2, <4>3, <4>4, <5>3
          <6> QED BY <4>4, <6>1
        <5> QED BY <5>1, <5>2, <5>3
      <4> QED BY <4>4
    <3> QED BY <3>1, <3>2, <3>3, <3>4, <3>5, <3>6
  <2>4. CASE ReserveConflict(a)  BY <2>4, <1>t DEF ReserveConflict
  <2>5. CASE AnswerExisting(a)  BY <2>5, <1>t DEF AnswerExisting, ReplayOrRefuse
  <2>6. CASE DetachedReserve(a)
    <3>1. CASE ~Present(KeyOf(a)) /\ InsertRow(a)
      <4>1. RowsAreOwned'
        BY <2>6, <3>1, <1>t, <1>d DEF DetachedReserve, InsertRow, PendingRow
      <4>2. FlightHolds'
        BY <2>6, <3>1, <1>t, <1>d DEF DetachedReserve, InsertRow, PendingRow
      <4>3. Progress'
        BY <2>6, <3>1, <1>t, <1>d DEF DetachedReserve, InsertRow, PendingRow
      <4>4. SpentIsHeld'
        BY <2>6, <3>1, <1>t, <1>d DEF DetachedReserve, InsertRow, PendingRow
      <4>5. DoomedIsStale'
        BY <2>6, <3>1, <1>t, <1>d DEF DetachedReserve, InsertRow, PendingRow
      <4>6. ClaimsAreSpaced'
        <5>1. Claimants' = Claimants /\ a \notin Claimants
          BY <2>6 DEF DetachedReserve
        <5> QED BY <2>6, <3>1, <5>1 DEF DetachedReserve, InsertRow
      <4> QED BY <4>1, <4>2, <4>3, <4>4, <4>5, <4>6
    <3>2. CASE UNCHANGED <<rows, reservedAt>>
      BY <2>6, <3>2, <1>t DEF DetachedReserve
    <3> QED BY <2>6, <3>1, <3>2, Zenon DEF DetachedReserve
  <2>7. CASE Release(a)
    <3>1. RowsAreOwned'
      BY <2>7, <1>t, <1>d DEF Release
    <3>2. FlightHolds'
      BY <2>7, <1>t, <1>d DEF Release
    <3>3. Progress'
      BY <2>7, <1>t, <1>d DEF Release
    <3>4. SpentIsHeld'
      BY <2>7, <1>t, <1>d DEF Release
    <3>5. DoomedIsStale'
      BY <2>7, <1>t, <1>d DEF Release
    <3>6. ClaimsAreSpaced'
      BY <2>7, <1>t, <1>d DEF Release
    <3> QED BY <3>1, <3>2, <3>3, <3>4, <3>5, <3>6
  <2>8. CASE StartWork(a)
    <3>1. RowsAreOwned'
      BY <2>8, <1>t, <1>d DEF StartWork
    <3>2. FlightHolds'
      BY <2>8, <1>t, <1>d DEF StartWork
    <3>3. Progress'
      BY <2>8, <1>t, <1>d DEF StartWork
    <3>4. SpentIsHeld'
      BY <2>8, <1>t, <1>d DEF StartWork
    <3>5. DoomedIsStale'
      BY <2>8, <1>t, <1>d DEF StartWork
    <3>6. ClaimsAreSpaced'
      BY <2>8, <1>t, <1>d DEF StartWork
    <3> QED BY <3>1, <3>2, <3>3, <3>4, <3>5, <3>6
  <2>9. CASE Investigated(a)  BY <2>9, <1>t DEF Investigated
  <2>10. CASE Respond(a)  BY <2>10, <1>t DEF Respond
  <2>11. CASE Remember(a)  BY <2>11, <1>t DEF Remember
  <2> QED BY <1>2, <2>1, <2>2, <2>3, <2>4, <2>5, <2>6, <2>7, <2>8, <2>9, <2>10, <2>11 DEF Handler
<1>3. ASSUME NEW a \in Attempt, SaveThread(a) PROVE IInv'
  <2>1. CASE SaveRead(a)  BY <2>1, <1>t DEF SaveRead
  <2>2. CASE SaveCommit(a)
    <3>1. RowsAreOwned'
      BY <2>2, <1>t, <1>d DEF SaveCommit, Rewritten
    <3>2. FlightHolds'
      BY <2>2, <1>t, <1>d DEF SaveCommit, Rewritten
    <3>3. Progress'
      BY <2>2, <1>t, <1>d DEF SaveCommit, Rewritten
    <3>4. SpentIsHeld'
      BY <2>2, <1>t, <1>d DEF SaveCommit, Rewritten
    <3>5. DoomedIsStale'
      BY <2>2, <1>t, <1>d DEF SaveCommit, Rewritten
    <3>6. ClaimsAreSpaced'
      BY <2>2, <1>t, <1>d DEF SaveCommit, Rewritten
    <3> QED BY <3>1, <3>2, <3>3, <3>4, <3>5, <3>6
  <2>3. CASE SaveAborts(a)  BY <2>3, <1>t DEF SaveAborts
  <2> QED BY <1>3, <2>1, <2>2, <2>3 DEF SaveThread
<1>4. ASSUME NEW a \in Attempt, MarkThread(a) PROVE IInv'
  <2>1. CASE MarkRead(a)  BY <2>1, <1>t DEF MarkRead
  <2>2. CASE MarkWrite(a)
    <3>1. RowsAreOwned'
      BY <2>2, <1>t, <1>d DEF MarkWrite, Rewritten
    <3>2. FlightHolds'
      BY <2>2, <1>t, <1>d DEF MarkWrite, Rewritten
    <3>3. Progress'
      BY <2>2, <1>t, <1>d DEF MarkWrite, Rewritten
    <3>4. SpentIsHeld'
      BY <2>2, <1>t, <1>d DEF MarkWrite, Rewritten
    <3>5. DoomedIsStale'
      BY <2>2, <1>t, <1>d DEF MarkWrite, Rewritten
    <3>6. ClaimsAreSpaced'
      BY <2>2, <1>t, <1>d DEF MarkWrite, Rewritten
    <3> QED BY <3>1, <3>2, <3>3, <3>4, <3>5, <3>6
  <2>3. CASE MarkAborts(a)  BY <2>3, <1>t DEF MarkAborts
  <2> QED BY <1>4, <2>1, <2>2, <2>3 DEF MarkThread
<1>5. ASSUME NEW a \in Attempt, Failure(a) PROVE IInv'
  <2>1. CASE CancelOutsideTry(a)  BY <2>1, <1>t DEF CancelOutsideTry
  <2>2. CASE BuildFails(a)  BY <2>2, <1>t DEF BuildFails
  <2>3. CASE ReleaseFails(a)  BY <2>3, <1>t DEF ReleaseFails
  <2>4. CASE FailAfterWork(a)  BY <2>4, <1>t DEF FailAfterWork
  <2> QED BY <1>5, <2>1, <2>2, <2>3, <2>4 DEF Failure
<1>6. ASSUME NEW k \in Key, CacheLose(k) PROVE IInv'
  BY <1>6, <1>t DEF CacheLose
<1>7. CASE SweepSelect
  BY <1>7, <1>t DEF SweepSelect
<1>8. CASE SweepDelete
  <2>1. RowsAreOwned'
    BY <1>8, <1>t, <1>d DEF SweepDelete
  <2>2. FlightHolds'
    BY <1>8, <1>t, <1>d DEF SweepDelete
  <2>3. Progress'
    BY <1>8, <1>t, <1>d DEF SweepDelete
  <2>4. SpentIsHeld'
    <3>1. \A a \in spent : Fresh(a) => KeyOf(a) \notin doomed /\ KeyOf(a) \in Key
      BY <1>d
    <3> QED BY <1>8, <3>1 DEF SweepDelete
  <2>5. DoomedIsStale'
    BY <1>8, <1>t, <1>d DEF SweepDelete
  <2>6. ClaimsAreSpaced'
    BY <1>8, <1>t, <1>d DEF SweepDelete
  <2> QED BY <2>1, <2>2, <2>3, <2>4, <2>5, <2>6
<1>9. CASE Crash
  BY <1>9, <1>t DEF Crash
<1>10. CASE Tick
  <2>1. RowsAreOwned'
    BY <1>10, <1>t, <1>d DEF Tick
  <2>2. FlightHolds'
    BY <1>10, <1>t, <1>d DEF Tick
  <2>3. Progress'
    BY <1>10, <1>t, <1>d DEF Tick
  <2>4. SpentIsHeld'
    BY <1>10, <1>t, <1>d DEF Tick
  <2>5. DoomedIsStale'
    BY <1>10, <1>t, <1>d DEF Tick
  <2>6. ClaimsAreSpaced'
    BY <1>10, <1>t, <1>d DEF Tick
  <2> QED BY <2>1, <2>2, <2>3, <2>4, <2>5, <2>6
<1>11. CASE UNCHANGED vars
  BY <1>11, <1>t DEF vars
<1> QED
  BY <1>1, <1>2, <1>3, <1>4, <1>5, <1>6, <1>7, <1>8, <1>9, <1>10, <1>11 DEF Next, Sweeper

\* IInv, the conjunction the safety theorems follow from, is inductive.
THEOREM Invariance == Spec => [](TypeOK /\ IInv)
<1>1. Init => TypeOK /\ IInv
  <2>1. Init => TypeOK
    BY NoneAssumption DEF Init, TypeOK, Row, Absent, Entry, NoEntry, Answer, Silence,
       RowState, Ended, Control, SaverState, MarkerState, AnswerKind
  <2>2. Init => IInv
    BY NoneAssumption, ClockAssumption DEF Init, IInv, RowsAreOwned, FlightHolds, Progress,
       SpentIsHeld, DoomedIsStale, ClaimsAreSpaced, Claimants, InFlight, Present, Absent, Early
  <2> QED BY <2>1, <2>2
<1>2. TypeOK /\ IInv /\ [Next]_vars => (TypeOK /\ IInv)'
  BY TypeStep, InvStep
<1> QED
  BY <1>1, <1>2, PTL DEF Spec

\* No key is charged twice within the idempotency window, however requests,
\* cancellations, crashes, cache losses and sweeps interleave.
THEOREM ChargedOncePerWindow == Spec => []OneChargePerWindow
<1>1. IInv => OneChargePerWindow
  BY DEF IInv, ClaimsAreSpaced, Claimants, OneChargePerWindow
<1> QED
  BY Invariance, <1>1, PTL

\* A `done` row names a committed chain, and a committed chain stays named by
\* its key's row for the whole window.
THEOREM MappingHolds == Spec => []MappingIffChain
<1>1. TypeOK /\ IInv => MappingIffChain
  <2> SUFFICES ASSUME TypeOK, IInv PROVE MappingIffChain
    OBVIOUS
  <2> USE DEF TypeOK, IInv, Present
  <2>1. ASSUME NEW k \in Key, rows[k].state = "done" PROVE rows[k].chain \in chains
    BY <2>1 DEF RowsAreOwned
  <2>2. ASSUME NEW c \in chains, now <= reservedAt[c] + IdempotencyTTL
        PROVE  rows[KeyOf(c)].chain = c /\ rows[KeyOf(c)].body = req[c].body
    <3>1. Holds(c)
      BY <2>2 DEF SpentIsHeld, Fresh
    <3>2. KeyOf(c) \in Key
      BY <2>2 DEF SpentIsHeld, Progress, Early, KeyOf
    <3>3. /\ req[c] = [key |-> KeyOf(c), body |-> rows[KeyOf(c)].body]
          /\ rows[KeyOf(c)].chain = IF c \in chains THEN c ELSE None
      BY <3>1, <3>2 DEF RowsAreOwned, Holds
    <3> QED BY <2>2, <3>3
  <2> QED BY <2>1, <2>2 DEF MappingIffChain
<1> QED
  BY Invariance, <1>1, PTL

-----------------------------------------------------------------------------
(* What clients are told, and what an uncertain row is for *)

\* Every step keeps what was answered true: chains and what a request carries do
\* not change once they can be named.
LEMMA ObservedStep == TypeOK /\ IInv /\ ObservedInv /\ [Next]_vars => ObservedInv'
<1> SUFFICES ASSUME TypeOK, IInv, ObservedInv, [Next]_vars PROVE ObservedInv'
  OBVIOUS
<1> USE DEF ObservedInv
<1>k. \A a \in Attempt : pc[a] # "idle" =>
        KeyOf(a) \in Key /\ req[a] = [key |-> KeyOf(a), body |-> req[a].body]
  BY DEF TypeOK, KeyOf
<1>c. \A c \in chains : c \in Attempt /\ pc[c] \notin Early
  BY DEF IInv, SpentIsHeld, Progress, TypeOK
\* A marker is of a request in flight, and one request at a time holds a row.
<1>m. ASSUME NEW a \in Attempt, marker[a] # "none"
      PROVE  KeyOf(a) \in Key /\ Present(KeyOf(a)) /\ rows[KeyOf(a)].by = a
  BY <1>k, <1>m DEF IInv, FlightHolds, InFlight, Holds, TypeOK
\* A step that answers nobody and caches nothing.
<1>q. ASSUME chains \subseteq chains', UNCHANGED <<req, answer>>, MarkIsFirst',
             \A k \in Key : cache'[k] \in {cache[k], NoEntry},
             \A a \in Attempt : pc[a] = "answered" => pc'[a] = "answered"
      PROVE  ObservedInv'
  <2>1. CacheIsTrue'
    BY <1>q DEF CacheIsTrue, NoEntry
  <2>2. AnswersAreLast'
    BY <1>q DEF AnswersAreLast
  <2>3. ReplayIsTheOriginal'
    BY <1>q DEF ReplayIsTheOriginal
  <2> QED BY <1>q, <2>1, <2>2, <2>3
\* Such a step leaves the markers right when it marks no row.
<1>w. ASSUME rows' = rows \/ (\A a \in Attempt : marker[a] = "write" => rows'[KeyOf(a)] = rows[KeyOf(a)]),
             req' = req, \A a \in Attempt : marker'[a] = "write" => marker[a] = "write"
      PROVE  MarkIsFirst'
  BY <1>w DEF MarkIsFirst, KeyOf
\* A step that answers one request.
<1>a. ASSUME NEW a \in Attempt, pc[a] \notin Ended, NEW reply, Tell(a, reply),
             reply.kind \in {"fresh", "replay"} =>
               reply.chain \in chains /\ req[reply.chain] = req[a],
             UNCHANGED <<rows, chains, req, marker>>, CacheIsTrue'
      PROVE  ObservedInv'
  <2>1. /\ answer'[a] = reply /\ pc'[a] = "answered"
        /\ \A b \in Attempt \ {a} : answer'[b] = answer[b] /\ pc'[b] = pc[b]
    BY <1>a DEF Tell, Go, TypeOK
  <2>2. AnswersAreLast'
    BY <2>1 DEF AnswersAreLast
  <2>3. MarkIsFirst'
    BY <1>a DEF MarkIsFirst, KeyOf
  <2>4. ReplayIsTheOriginal'
    BY <1>a, <2>1 DEF ReplayIsTheOriginal
  <2> QED BY <1>a, <2>2, <2>3, <2>4
<1>1. ASSUME NEW a \in Attempt, NEW k \in Key, NEW b \in Body, Arrive(a, k, b)
      PROVE  ObservedInv'
  <2>1. /\ pc[a] = "idle" /\ UNCHANGED <<rows, chains, cache, answer, marker>>
        /\ \A c \in Attempt \ {a} : req'[c] = req[c] /\ pc'[c] = pc[c]
    BY <1>1 DEF Arrive, Go, storeVars, ghostVars, TypeOK
  <2>2. \A c \in chains : req'[c] = req[c]
    BY <1>c, <2>1 DEF Early
  <2>3. CacheIsTrue'
    BY <2>1, <2>2 DEF CacheIsTrue
  <2>4. AnswersAreLast'
    BY <2>1 DEF AnswersAreLast
  <2>5. MarkIsFirst'
    BY <2>1 DEF MarkIsFirst, KeyOf, TypeOK
  <2>6. ReplayIsTheOriginal'
    <3>1. answer[a].kind = "none"
      BY <2>1 DEF AnswersAreLast
    <3> QED BY <2>1, <2>2, <3>1 DEF ReplayIsTheOriginal
  <2> QED BY <2>3, <2>4, <2>5, <2>6
<1>2. ASSUME NEW a \in Attempt, CacheHit(a) PROVE ObservedInv'
  <2> DEFINE entry == cache[KeyOf(a)]
             reply == IF entry.body = req[a].body
                      THEN [kind |-> "replay", chain |-> entry.chain]
                      ELSE [kind |-> "key_reused", chain |-> None]
  <2>1. /\ pc[a] = "lookup" /\ entry.chain # None /\ Tell(a, reply)
        /\ UNCHANGED <<rows, chains, cache, req, marker>>
    BY <1>2 DEF CacheHit, storeVars
  <2>2. reply.kind = "replay" => reply.chain \in chains /\ req[reply.chain] = req[a]
    <3> SUFFICES ASSUME entry.body = req[a].body
                 PROVE  entry.chain \in chains /\ req[entry.chain] = req[a]
      OBVIOUS
    <3>1. KeyOf(a) \in Key /\ req[a] = [key |-> KeyOf(a), body |-> req[a].body]
      BY <1>k, <2>1
    <3>2. entry.chain \in chains /\ req[entry.chain] = [key |-> KeyOf(a), body |-> entry.body]
      BY <2>1, <3>1 DEF CacheIsTrue
    <3> QED BY <3>1, <3>2
  <2>3. reply.kind # "fresh"
    OBVIOUS
  <2>4. CacheIsTrue'
    BY <2>1 DEF CacheIsTrue
  <2> HIDE DEF reply
  <2> QED BY <1>a, <2>1, <2>2, <2>3, <2>4 DEF Ended
<1>3. ASSUME NEW a \in Attempt, AnswerExisting(a) PROVE ObservedInv'
  <2> DEFINE r == IF Present(KeyOf(a)) THEN rows[KeyOf(a)] ELSE PendingRow(a)
             reply == ReplayOrRefuse(r, req[a].body)
  <2>1. /\ pc[a] = "reread" /\ Tell(a, reply)
        /\ UNCHANGED <<rows, chains, cache, req, marker>>
    BY <1>3 DEF AnswerExisting, storeVars
  <2>2. reply.kind # "fresh"
    BY DEF ReplayOrRefuse
  <2>3. ASSUME reply.kind = "replay"
        PROVE  reply.chain \in chains /\ req[reply.chain] = req[a]
    <3>1. /\ r.state = "done" /\ r.chain \in chains /\ r.body = req[a].body
          /\ reply.chain = r.chain
      BY <2>3 DEF ReplayOrRefuse
    <3>2. Present(KeyOf(a)) /\ r = rows[KeyOf(a)]
      BY <3>1 DEF PendingRow
    <3>3. r.chain = r.by /\ req[r.by] = [key |-> KeyOf(a), body |-> r.body]
      BY <1>k, <2>1, <3>1, <3>2, NoneAssumption DEF IInv, RowsAreOwned, TypeOK
    <3> QED BY <1>k, <2>1, <3>1, <3>3
  <2>4. CacheIsTrue'
    BY <2>1 DEF CacheIsTrue
  <2> HIDE DEF reply
  <2> QED BY <1>a, <2>1, <2>2, <2>3, <2>4 DEF Ended
<1>4. ASSUME NEW a \in Attempt, Remember(a) PROVE ObservedInv'
  <2>1. /\ pc[a] = "remember" /\ Tell(a, [kind |-> "fresh", chain |-> a])
        /\ UNCHANGED <<rows, chains, req, marker>>
        /\ \/ cache' = [cache EXCEPT ![KeyOf(a)] = [chain |-> a, body |-> req[a].body,
                                                    expires |-> now + IdempotencyTTL]]
           \/ cache' = cache
    BY <1>4 DEF Remember
  <2>2. a \in chains
    BY <2>1 DEF IInv, Progress
  <2>3. CacheIsTrue'
    BY <1>k, <2>1, <2>2 DEF CacheIsTrue, TypeOK
  <2> QED BY <1>a, <2>1, <2>2, <2>3 DEF Ended
<1> USE DEF storeVars, threadVars, ghostVars, Go
<1>5. ASSUME NEW a \in Attempt,
             \/ CacheMiss(a) \/ ReserveConflict(a) \/ StartWork(a) \/ Investigated(a) \/ Respond(a)
             \/ BuildFails(a) \/ ReleaseFails(a) \/ FailAfterWork(a) \/ CancelOutsideTry(a)
             \/ SaveRead(a) \/ SaveAborts(a) \/ MarkAborts(a)
      PROVE  ObservedInv'
  <2>1. UNCHANGED <<rows, chains, cache, req, answer>>
    BY <1>5 DEF CacheMiss, ReserveConflict, StartWork, Investigated, Respond, BuildFails,
       ReleaseFails, FailAfterWork, CancelOutsideTry, SaveRead, SaveAborts, MarkAborts
  <2>2. \A b \in Attempt : pc[b] = "answered" => pc'[b] = "answered"
    BY <1>5 DEF CacheMiss, ReserveConflict, StartWork, Investigated, Respond, BuildFails,
       ReleaseFails, FailAfterWork, CancelOutsideTry, SaveRead, SaveAborts, MarkAborts, TypeOK
  <2>3. \A b \in Attempt : marker'[b] = "write" => marker[b] = "write"
    BY <1>5 DEF CacheMiss, ReserveConflict, StartWork, Investigated, Respond, BuildFails,
       ReleaseFails, FailAfterWork, CancelOutsideTry, SaveRead, SaveAborts, MarkAborts, TypeOK
  <2> QED BY <1>q, <1>w, <2>1, <2>2, <2>3
<1>6. ASSUME NEW a \in Attempt, Reserve(a) \/ DetachedReserve(a) \/ Release(a)
      PROVE  ObservedInv'
  <2>1. UNCHANGED <<chains, cache, req, answer, marker>>
    BY <1>6 DEF Reserve, DetachedReserve, Release
  <2>2. \A b \in Attempt : pc[b] = "answered" => pc'[b] = "answered"
    BY <1>6 DEF Reserve, DetachedReserve, Release, TypeOK
  <2>3. ASSUME NEW b \in Attempt, marker[b] = "write" PROVE rows'[KeyOf(b)] = rows[KeyOf(b)]
    <3>1. KeyOf(b) \in Key /\ Present(KeyOf(b)) /\ rows[KeyOf(b)].by = b /\ b \in spent
      BY <1>m, <2>3 DEF IInv, Progress
    <3>2. CASE Release(a)
      <4>1. a \notin spent /\ rows[KeyOf(a)].by = a
        BY <3>2 DEF Release, IInv, Progress, FlightHolds, InFlight, Holds
      <4> QED BY <3>1, <3>2, <4>1 DEF Release, TypeOK
    <3>3. CASE Reserve(a) \/ DetachedReserve(a)
      BY <3>1, <3>3 DEF Reserve, DetachedReserve, InsertRow, TypeOK
    <3> QED BY <1>6, <3>2, <3>3
  <2> QED BY <1>q, <1>w, <2>1, <2>2, <2>3
<1>7. ASSUME NEW a \in Attempt, SaveCommit(a) PROVE ObservedInv'
  <2>1. chains \subseteq chains' /\ UNCHANGED <<cache, req, answer, pc, marker>>
    BY <1>7 DEF SaveCommit
  <2>2. MarkIsFirst'
    BY <1>7, <1>m, <2>1 DEF SaveCommit, MarkIsFirst, Rewritten, KeyOf, TypeOK
  <2> QED BY <1>q, <2>1, <2>2
<1>8. ASSUME NEW a \in Attempt, MarkRead(a) PROVE ObservedInv'
  <2>1. UNCHANGED <<rows, chains, cache, req, answer, pc>>
    BY <1>8 DEF MarkRead
  <2>2. MarkIsFirst'
    BY <1>8 DEF MarkRead, MarkIsFirst, KeyOf, TypeOK
  <2> QED BY <1>q, <2>1, <2>2
<1>9. ASSUME NEW a \in Attempt, MarkWrite(a) PROVE ObservedInv'
  <2>1. UNCHANGED <<chains, cache, req, answer, pc>>
    BY <1>9 DEF MarkWrite
  <2>2. \A b \in Attempt : marker'[b] = "write" =>
          b # a /\ marker[b] = "write" /\ KeyOf(b) # KeyOf(a)
    BY <1>9, <1>m DEF MarkWrite, TypeOK
  <2>3. \A b \in Attempt : marker'[b] = "write" => rows'[KeyOf(b)] = rows[KeyOf(b)]
    BY <1>9, <1>m, <2>2 DEF MarkWrite, TypeOK
  <2>4. MarkIsFirst'
    BY <2>1, <2>2, <2>3 DEF MarkIsFirst, KeyOf
  <2> QED BY <1>q, <2>1, <2>4
<1>10. ASSUME NEW k \in Key, CacheLose(k) PROVE ObservedInv'
  <2>1. UNCHANGED <<rows, chains, req, answer, pc, marker>>
    BY <1>10 DEF CacheLose
  <2>2. \A j \in Key : cache'[j] \in {cache[j], NoEntry}
    BY <1>10 DEF CacheLose, TypeOK
  <2> QED BY <1>q, <1>w, <2>1, <2>2
<1>11. CASE SweepSelect \/ Tick \/ UNCHANGED vars
  <2>1. UNCHANGED <<rows, chains, cache, req, answer, pc, marker>>
    BY <1>11 DEF SweepSelect, Tick, vars
  <2> QED BY <1>q, <1>w, <2>1
<1>12. CASE SweepDelete
  <2>1. UNCHANGED <<chains, cache, req, answer, pc, marker>>
    BY <1>12 DEF SweepDelete
  <2>2. \A b \in Attempt : rows'[KeyOf(b)] \in {rows[KeyOf(b)], Absent} \/ KeyOf(b) \notin Key
    BY <1>12 DEF SweepDelete
  <2>3. MarkIsFirst'
    BY <1>m, <2>1, <2>2 DEF MarkIsFirst, KeyOf, Absent
  <2> QED BY <1>q, <2>1, <2>3
<1>13. CASE Crash
  <2>1. /\ UNCHANGED <<rows, chains, req, answer>>
        /\ \A k \in Key : cache'[k] \in {cache[k], NoEntry}
        /\ \A b \in Attempt : marker'[b] = "none"
        /\ \A b \in Attempt : pc[b] = "answered" => pc'[b] = "answered"
    BY <1>13 DEF Crash, Ended
  <2>2. MarkIsFirst'
    BY <2>1 DEF MarkIsFirst
  <2> QED BY <1>q, <2>1, <2>2
<1> QED
  BY <1>1, <1>2, <1>3, <1>4, <1>5, <1>6, <1>7, <1>8, <1>9, <1>10, <1>11, <1>12, <1>13
     DEF Next, Handler, SaveThread, MarkThread, Failure, Sweeper

\* What clients have been told, what the cache holds and who may still mark a row
\* stay in step with the chains and the rows.
THEOREM ObservedInvariance == Spec => []ObservedInv
<1>1. Init => ObservedInv
  BY DEF Init, ObservedInv, CacheIsTrue, NoEntry, AnswersAreLast, Silence, MarkIsFirst,
     ReplayIsTheOriginal
<1> QED BY <1>1, ObservedStep, Invariance, PTL DEF Spec

\* Whatever raced, was cancelled, crashed, was cached or swept: an answer names a
\* committed chain for the caller's own key and body (replay_or_refuse).
THEOREM ReplaysAreOriginal == Spec => []ReplayIsTheOriginal
<1>1. ObservedInv => ReplayIsTheOriginal
  BY DEF ObservedInv
<1> QED BY ObservedInvariance, <1>1, PTL

\* An uncertain row ends as its own request's `done`, or at the end of the longer
\* retention, and is never marked again (mark_uncertain, purge_expired).
THEOREM UncertainStays == Spec => UncertainIsKept
<1> DEFINE Kept == \A k \in Key : rows[k].state = "uncertain" /\ rows'[k] # rows[k] =>
                     \/ rows'[k].state = "done" /\ rows'[k].by = rows[k].by
                     \/ rows[k].updatedAt + UncertainRetention < now
<1>1. TypeOK /\ IInv /\ ObservedInv /\ [Next]_vars => [Kept]_vars
  <2> SUFFICES ASSUME TypeOK, IInv, ObservedInv, Next, NEW k \in Key,
                      rows[k].state = "uncertain", rows'[k] # rows[k]
               PROVE  \/ rows'[k].state = "done" /\ rows'[k].by = rows[k].by
                      \/ rows[k].updatedAt + UncertainRetention < now
    OBVIOUS
  <2>1. ASSUME NEW a \in Attempt, Reserve(a) \/ DetachedReserve(a) PROVE FALSE
    BY <2>1 DEF Reserve, DetachedReserve, InsertRow, Present, TypeOK
  <2>2. ASSUME NEW a \in Attempt, Release(a) PROVE FALSE
    BY <2>2 DEF Release, TypeOK
  <2>3. ASSUME NEW a \in Attempt, MarkWrite(a) PROVE FALSE
    BY <2>3 DEF MarkWrite, ObservedInv, MarkIsFirst, TypeOK
  <2>4. ASSUME NEW a \in Attempt, SaveCommit(a)
        PROVE  rows'[k].state = "done" /\ rows'[k].by = rows[k].by
    BY <2>4 DEF SaveCommit, Rewritten, TypeOK
  <2>5. CASE SweepDelete
    <3>1. k \in doomed
      BY <2>5 DEF SweepDelete
    <3> QED BY <3>1 DEF IInv, DoomedIsStale, Purgeable
  <2> QED
    BY <2>1, <2>2, <2>3, <2>4, <2>5
       DEF Next, Handler, SaveThread, MarkThread, Failure, Sweeper, Arrive, CacheHit, CacheMiss,
           ReserveConflict, AnswerExisting, StartWork, Investigated, Respond, Remember, SaveRead,
           SaveAborts, MarkRead, MarkAborts, CancelOutsideTry, BuildFails, ReleaseFails,
           FailAfterWork, CacheLose, SweepSelect, Crash, Tick, storeVars
<1> QED BY ObservedInvariance, Invariance, <1>1, PTL DEF Spec, UncertainIsKept

-----------------------------------------------------------------------------
(* VerificationOperations implements ChargeLedger *)

\* A step that changes no row, reservation time or charge leaves the claims.
LEMMA ClaimsUnchanged ==
  ASSUME UNCHANGED <<rows, reservedAt, spent>>
  PROVE  \A k \in Key : ClaimOn(k)' = ClaimOn(k)
BY DEF ClaimOn, Present

\* Inserting a row is a Reserve of its key.
LEMMA InsertIsReserve ==
  ASSUME TypeOK, IInv, NEW a \in Attempt, KeyOf(a) \in Key, pc[a] \in Early,
         ~Present(KeyOf(a)), InsertRow(a), UNCHANGED <<spent, now>>
  PROVE  Ledger!Reserve(a, KeyOf(a))
<1>1. ClaimOn(KeyOf(a)) = Ledger!Unclaimed
  BY DEF ClaimOn, Ledger!Unclaimed
<1>2. ASSUME NEW j \in Key, j = KeyOf(a)
      PROVE  ClaimOn(j)' = [holder |-> a, at |-> now, charged |-> FALSE, result |-> None]
  <2>1. rows'[j] = PendingRow(a) /\ reservedAt'[a] = now
    BY <1>2 DEF InsertRow, TypeOK
  <2>2. a \notin spent'
    BY DEF IInv, Progress
  <2>3. rows'[j].state = "pending" /\ rows'[j].by = a /\ rows'[j].chain = None
    BY <2>1 DEF PendingRow
  <2>4. Present(j)'
    BY <2>3 DEF Present
  <2>5. (a \in spent)' = FALSE
    BY <2>2
  <2> QED BY <2>1, <2>3, <2>4, <2>5 DEF ClaimOn
<1>3. \A j \in Key : j # KeyOf(a) => ClaimOn(j)' = ClaimOn(j)
  BY DEF ClaimOn, Present, InsertRow, KeyOf, TypeOK, IInv, RowsAreOwned, Early
<1> QED
  BY <1>1, <1>2, <1>3 DEF Ledger!Reserve

\* Every step of the implementation is a step of the ledger or leaves it alone.
LEMMA LedgerStep ==
  TypeOK /\ IInv /\ [Next]_vars => [Ledger!Next]_<<[k \in Key |-> ClaimOn(k)], now>>
<1> SUFFICES ASSUME TypeOK, IInv, [Next]_vars
             PROVE  [Ledger!Next]_<<[k \in Key |-> ClaimOn(k)], now>>
  OBVIOUS
<1> DEFINE stutter == UNCHANGED <<[k \in Key |-> ClaimOn(k)], now>>
<1>s. ASSUME UNCHANGED <<rows, reservedAt, spent, now>> PROVE stutter
  BY <1>s, ClaimsUnchanged
<1> USE DEF storeVars, threadVars, ghostVars, Go, Tell
<1>1. ASSUME NEW a \in Attempt, NEW k \in Key, NEW b \in Body, Arrive(a, k, b) PROVE stutter
  BY <1>1, <1>s DEF Arrive
<1>k. ASSUME NEW a \in Attempt, pc[a] # "idle" PROVE KeyOf(a) \in Key
  BY <1>k DEF TypeOK, KeyOf
<1>2. ASSUME NEW a \in Attempt, Handler(a) PROVE Ledger!Next \/ stutter
  <2>1. CASE CacheHit(a)  BY <2>1, <1>s DEF CacheHit
  <2>2. CASE CacheMiss(a)  BY <2>2, <1>s DEF CacheMiss
  <2>3. CASE ReserveConflict(a)  BY <2>3, <1>s DEF ReserveConflict
  <2>4. CASE AnswerExisting(a)  BY <2>4, <1>s DEF AnswerExisting
  <2>5. CASE Investigated(a)  BY <2>5, <1>s DEF Investigated
  <2>6. CASE Respond(a)  BY <2>6, <1>s DEF Respond
  <2>7. CASE Remember(a)  BY <2>7, <1>s DEF Remember
  <2>8. CASE Reserve(a)
    <3>1. Ledger!Reserve(a, KeyOf(a))
      BY <2>8, <1>k, InsertIsReserve DEF Reserve, Early
    <3> QED BY <2>8, <3>1, <1>k DEF Reserve, Ledger!Next
  <2>9. CASE DetachedReserve(a)
    <3>1. CASE ~Present(KeyOf(a)) /\ InsertRow(a)
      <4>1. Ledger!Reserve(a, KeyOf(a))
        BY <2>9, <3>1, <1>k, InsertIsReserve DEF DetachedReserve, Early
      <4> QED BY <2>9, <4>1, <1>k DEF DetachedReserve, Ledger!Next
    <3>2. CASE UNCHANGED <<rows, reservedAt>>  BY <2>9, <3>2, <1>s DEF DetachedReserve
    <3> QED BY <2>9, <3>1, <3>2, Zenon DEF DetachedReserve
  <2>10. CASE Release(a)
    <3>1. KeyOf(a) \in Key /\ Holds(a) /\ a \notin spent /\ UNCHANGED <<spent, reservedAt, now>>
      BY <2>10, <1>k DEF Release, IInv, FlightHolds, InFlight, Progress
    <3>2. CASE rows[KeyOf(a)].state = "pending"
      <4>1. /\ \A j \in Key : ClaimOn(j)' = IF j = KeyOf(a) THEN Ledger!Unclaimed ELSE ClaimOn(j)
            /\ ~ClaimOn(KeyOf(a)).charged
        BY <2>10, <3>1, <3>2 DEF Release, ClaimOn, Present, Holds, Absent, TypeOK, KeyOf, Ledger!Unclaimed
      <4>2. Ledger!Free(KeyOf(a))
        BY <3>1, <4>1 DEF Ledger!Free
      <4> QED BY <3>1, <4>2 DEF Ledger!Next
    <3>3. CASE rows[KeyOf(a)].state # "pending"
      BY <2>10, <3>1, <3>3, <1>s DEF Release
    <3> QED BY <3>2, <3>3
  <2>11. CASE StartWork(a)
    <3>1. KeyOf(a) \in Key /\ Holds(a) /\ a \notin spent /\ UNCHANGED <<rows, reservedAt, now>>
      BY <2>11, <1>k DEF StartWork, IInv, FlightHolds, InFlight, Progress
    <3>2. ClaimOn(KeyOf(a)).holder = a /\ ~ClaimOn(KeyOf(a)).charged
      BY <3>1 DEF ClaimOn, Holds
    <3>3. ASSUME NEW j \in Key, j = KeyOf(a)
          PROVE  ClaimOn(j)' = Ledger!Charged(ClaimOn(j))
      BY <2>11, <3>1, <3>3 DEF StartWork, ClaimOn, Present, Holds, Ledger!Charged
    <3>4. ASSUME NEW j \in Key, j # KeyOf(a) PROVE ClaimOn(j)' = ClaimOn(j)
      <4>1. ASSUME Present(j), rows[j].by = a PROVE FALSE
        <5>1. req[a] = [key |-> j, body |-> rows[j].body]
          BY <4>1 DEF IInv, RowsAreOwned
        <5> QED BY <3>4, <5>1 DEF KeyOf
      <4>2. rows' = rows /\ reservedAt' = reservedAt /\ spent' = spent \cup {a}
        BY <2>11 DEF StartWork
      <4> QED BY <4>1, <4>2 DEF ClaimOn, Present
    <3>5. Ledger!Charge(KeyOf(a))
      BY <3>1, <3>2, <3>3, <3>4, NoneAssumption DEF Ledger!Charge
    <3> QED BY <3>1, <3>5 DEF Ledger!Next
  <2> QED BY <1>2, <2>1, <2>2, <2>3, <2>4, <2>5, <2>6, <2>7, <2>8, <2>9, <2>10, <2>11 DEF Handler
<1>3. ASSUME NEW a \in Attempt, SaveThread(a) PROVE Ledger!Next \/ stutter
  <2>1. CASE SaveRead(a)  BY <2>1, <1>s DEF SaveRead
  <2>2. CASE SaveAborts(a)  BY <2>2, <1>s DEF SaveAborts
  <2>3. CASE SaveCommit(a)
    <3>1. KeyOf(a) \in Key /\ Holds(a) /\ a \in spent /\ UNCHANGED <<spent, reservedAt, now>>
      BY <2>3, <1>k DEF SaveCommit, IInv, FlightHolds, InFlight, Progress, TypeOK
    <3>2. rows' = [rows EXCEPT ![KeyOf(a)] = Rewritten(@, "done", a)]
      BY <2>3 DEF SaveCommit, IInv, Progress
    <3>3. ClaimOn(KeyOf(a)).holder = a /\ ClaimOn(KeyOf(a)).charged
      BY <3>1 DEF ClaimOn, Holds
    <3>4. ASSUME NEW j \in Key, j = KeyOf(a)
          PROVE  ClaimOn(j)' = Ledger!Settled(ClaimOn(j))
      <4>1. rows'[j] = Rewritten(rows[j], "done", a)
        BY <3>2, <3>4 DEF TypeOK
      <4> QED BY <3>1, <3>4, <4>1 DEF ClaimOn, Present, Holds, Rewritten, Ledger!Settled
    <3>5. \A j \in Key : j # KeyOf(a) => ClaimOn(j)' = ClaimOn(j)
      BY <3>1, <3>2 DEF ClaimOn, Present, TypeOK
    <3>6. Ledger!Settle(KeyOf(a))
      BY <3>1, <3>3, <3>4, <3>5 DEF Ledger!Settle
    <3> QED BY <3>1, <3>6 DEF Ledger!Next
  <2> QED BY <1>3, <2>1, <2>2, <2>3 DEF SaveThread
<1>4. ASSUME NEW a \in Attempt, MarkThread(a) PROVE stutter
  <2>1. CASE MarkRead(a)  BY <2>1, <1>s DEF MarkRead
  <2>2. CASE MarkAborts(a)  BY <2>2, <1>s DEF MarkAborts
  <2>3. CASE MarkWrite(a)
    <3>1. \A j \in Key : ClaimOn(j)' = ClaimOn(j)
      BY <2>3 DEF MarkWrite, Rewritten, ClaimOn, Present, KeyOf, TypeOK
    <3> QED BY <2>3, <3>1 DEF MarkWrite
  <2> QED BY <1>4, <2>1, <2>2, <2>3 DEF MarkThread
<1>5. ASSUME NEW a \in Attempt, Failure(a) PROVE stutter
  <2>1. CASE CancelOutsideTry(a)  BY <2>1, <1>s DEF CancelOutsideTry
  <2>2. CASE BuildFails(a)  BY <2>2, <1>s DEF BuildFails
  <2>3. CASE ReleaseFails(a)  BY <2>3, <1>s DEF ReleaseFails
  <2>4. CASE FailAfterWork(a)  BY <2>4, <1>s DEF FailAfterWork
  <2> QED BY <1>5, <2>1, <2>2, <2>3, <2>4 DEF Failure
<1>6. ASSUME NEW k \in Key, CacheLose(k) PROVE stutter
  BY <1>6, <1>s DEF CacheLose
<1>7. CASE SweepSelect
  BY <1>7, <1>s DEF SweepSelect
<1>8. CASE SweepDelete
  <2>1. UNCHANGED <<spent, reservedAt, now>> /\ doomed \in SUBSET Key
    BY <1>8 DEF SweepDelete, TypeOK
  <2>2. \A k \in doomed : ClaimOn(k).at + IdempotencyTTL < now
    <3> SUFFICES ASSUME NEW k \in doomed PROVE ClaimOn(k).at + IdempotencyTTL < now
      OBVIOUS
    <3>1. Present(k) /\ Purgeable(rows[k]) /\ k \in Key
      BY <2>1 DEF IInv, DoomedIsStale
    <3>2. /\ rows[k].updatedAt \in Nat /\ rows[k].by \in Attempt
          /\ reservedAt[rows[k].by] <= rows[k].updatedAt /\ reservedAt[rows[k].by] \in Nat /\ now \in Nat
      BY <3>1 DEF IInv, RowsAreOwned, TypeOK, Row
    <3>3. rows[k].updatedAt + IdempotencyTTL < now
      BY <3>1, <3>2, ClockAssumption, FlightAssumption DEF Purgeable
    <3> QED BY <3>1, <3>2, <3>3, ClockAssumption DEF ClaimOn
  <2>3. \A k \in Key : ClaimOn(k)' = IF k \in doomed THEN Ledger!Unclaimed ELSE ClaimOn(k)
    BY <1>8, <2>1 DEF SweepDelete, ClaimOn, Present, Absent, Ledger!Unclaimed
  <2>4. Ledger!Forget(doomed)
    BY <2>1, <2>2, <2>3 DEF Ledger!Forget
  <2> QED BY <2>1, <2>4 DEF Ledger!Next
<1>9. CASE Crash
  BY <1>9, <1>s DEF Crash
<1>10. CASE Tick
  <2>1. \A k \in Key : ClaimOn(k)' = ClaimOn(k)
    BY <1>10, ClaimsUnchanged DEF Tick
  <2>2. Ledger!Pass
    BY <1>10, <2>1 DEF Tick, Ledger!Pass
  <2> QED BY <2>2 DEF Ledger!Next
<1>11. CASE UNCHANGED vars
  BY <1>11, <1>s DEF vars
<1> QED
  BY <1>1, <1>2, <1>3, <1>4, <1>5, <1>6, <1>7, <1>8, <1>9, <1>10, <1>11 DEF Next, Sweeper

\* The handler, its threads, the sweeper, cache losses and crashes implement
\* the ledger: one claimant per key, charged at most once before the window has
\* passed, its result the claimant's own chain.
THEOREM LedgerImplemented == Spec => ImplementsLedger
<1>1. Init => Ledger!Init
  BY DEF Init, Ledger!Init, Ledger!Unclaimed, ClaimOn, Present, Absent
<1> QED
  BY <1>1, LedgerStep, Invariance, PTL DEF Spec, ImplementsLedger, Ledger!Spec
=============================================================================
