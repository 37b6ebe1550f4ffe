----------------------------- MODULE ConsentProofs -----------------------------
(***************************************************************************)
(* Proofs about Consent, for every set of consents, merchants and requests *)
(* and every choice of the windows and caps.                               *)
(***************************************************************************)
EXTENDS Consent, TLAPS

-----------------------------------------------------------------------------
(* The record operators *)

\* Offering a record to _expire leaves it alone or ends it, and ends only a live
\* record that is out of its window.
LEMMA ExpiredIs ==
  ASSUME NEW r \in Record
  PROVE  \/ Expired(r) = r /\ (r.status \in Live => ~(r.expiresAt <= now))
         \/ Expired(r) = Ended(r, "EXPIRED") /\ r.status \in Live /\ r.expiresAt <= now
BY DEF Expired

\* Every way a record is rewritten gives a record again.
LEMMA RecordTypes ==
  ASSUME NEW r \in Record, now \in Nat
  PROVE  /\ \A status \in Status : Ended(r, status) \in Record
         /\ \A status \in Status, token \in BOOLEAN : Moved(r, status, token) \in Record
         /\ Completed(r) \in Record
         /\ Expired(r) \in Record
<1>1. \A status \in Status : Ended(r, status) \in Record
  BY DEF Record, Ended
<1>2. \A status \in Status, token \in BOOLEAN : Moved(r, status, token) \in Record
  BY DEF Record, Moved
<1>3. Completed(r) \in Record
  BY DEF Record, Completed, Status, Terminal
<1>4. Expired(r) \in Record
  BY <1>1 DEF Expired, Status, Terminal
<1> QED BY <1>1, <1>2, <1>3, <1>4

\* Every step keeps the variables in their types.
LEMMA TypeStep == TypeOK /\ [Next]_vars => TypeOK'
<1> SUFFICES ASSUME TypeOK, [Next]_vars PROVE TypeOK'
  OBVIOUS
<1> USE NoneAssumption, NumberAssumption DEF TypeOK, stores
<1>r. \A c \in Consent : rec[c] \in Record /\ Expired(rec[c]) \in Record
  BY RecordTypes
<1>s. {"EXPIRED", "FAILED", "DENIED", "EXCHANGING", "AUTHORIZED", "VERIFYING"} \subseteq Status
  BY DEF Status, Terminal, Live
<1>p. ASSUME NEW c \in Consent, NEW r \in Record, Put(c, r) PROVE rec' \in [Consent -> Record]
  BY <1>p DEF Put
<1>w. ASSUME NEW r \in Request, NEW c \in Consent, NEW place \in {"over"} \cup Awaiting,
             Wait(r, c, place)
      PROVE  /\ pc' \in [Request -> {"idle", "over"} \cup Awaiting]
             /\ on' \in [Request -> Consent \cup {None}]
             /\ \A s \in Request : pc'[s] \in Awaiting => on'[s] \in Consent
             /\ since' \in [Request -> Nat]
  BY <1>w DEF Wait
<1>l. ASSUME NEW r \in Request, Leave(r)
      PROVE  /\ pc' \in [Request -> {"idle", "over"} \cup Awaiting]
             /\ on' \in [Request -> Consent \cup {None}]
             /\ \A s \in Request : pc'[s] \in Awaiting => on'[s] \in Consent
             /\ since' \in [Request -> Nat]
  BY <1>l DEF Leave, Awaiting
<1>k. Swept \in [Consent -> Record]
  BY <1>r DEF Swept
<1>1. ASSUME NEW c \in Consent, NEW o \in Owner, Create(c, o) PROVE TypeOK'
  <2>1. now + TTL \in Nat
    OBVIOUS
  <2>2. rec' \in [Consent -> Record]
    BY <1>1, <1>k, <2>1 DEF Create, Record, Status, Live
  <2> QED BY <1>1, <2>2 DEF Create
<1>2. ASSUME NEW c \in Consent, StartRequest(c) PROVE TypeOK'
  <2>1. CASE StartSucceeds(c)
    <3>1. rec' \in [Consent -> Record]
      <4> DEFINE r == rec[c]
                 withUrl == [status |-> r.status, owner |-> r.owner, url |-> TRUE,
                             token |-> r.token, chain |-> r.chain,
                             expiresAt |-> r.expiresAt, terminalAt |-> r.terminalAt]
      <4>1. withUrl \in Record
        BY <1>r DEF Record
      <4>2. Expired(IF r.status = "PENDING" THEN withUrl ELSE r) \in Record
        BY <1>r, <4>1, RecordTypes
      <4> QED BY <2>1, <4>2, <1>p DEF StartSucceeds
    <3> QED BY <2>1, <3>1 DEF StartSucceeds
  <2>2. CASE StartFails(c)
    <3>1. rec' \in [Consent -> Record]
      BY <2>2, <1>p, <1>r, <1>s, RecordTypes DEF StartFails
    <3> QED BY <2>2, <3>1 DEF StartFails
  <2>3. CASE StartCancelled(c)
    BY <2>3 DEF StartCancelled
  <2> QED BY <1>2, <2>1, <2>2, <2>3 DEF StartRequest
<1>3. ASSUME NEW c \in Consent, Read(c) PROVE TypeOK'
  <2>1. rec' \in [Consent -> Record]
    BY <1>3, <1>p, <1>r DEF Read, Vanishes
  <2> QED BY <1>3, <2>1 DEF Read, Vanishes, Drop
<1>4. ASSUME NEW r \in Request, NEW c \in Consent, Callback(r, c) PROVE TypeOK'
  <2>1. CASE CallbackTooLate(r, c)
    <3>1. rec' \in [Consent -> Record]
      BY <2>1, <1>p, <1>r DEF CallbackTooLate, Vanishes
    <3> QED BY <2>1, <3>1, <1>l DEF CallbackTooLate, Vanishes, Drop
  <2>2. CASE CallbackDenied(r, c)
    <3>1. rec' \in [Consent -> Record]
      BY <2>2, <1>p, <1>r, <1>s, RecordTypes DEF CallbackDenied
    <3> QED BY <2>2, <3>1, <1>l DEF CallbackDenied
  <2>3. CASE CallbackRefused(r, c)
    <3>1. rec' \in [Consent -> Record]
      BY <2>3, <1>p, <1>r DEF CallbackRefused
    <3> QED BY <2>3, <3>1, <1>l DEF CallbackRefused
  <2>4. ASSUME NEW withCode \in BOOLEAN, CallbackBegins(r, c, withCode) PROVE TypeOK'
    <3>1. rec' \in [Consent -> Record]
      <4>1. Expired(rec[c]).token \in BOOLEAN
        BY <1>r DEF Record
      <4> QED BY <2>4, <4>1, <1>p, <1>r, <1>s, RecordTypes DEF CallbackBegins
    <3>2. CASE withCode
      BY <2>4, <3>1, <3>2, <1>w DEF CallbackBegins, Awaiting
    <3>3. CASE ~withCode
      BY <2>4, <3>1, <3>3, <1>w DEF CallbackBegins
    <3> QED BY <3>2, <3>3
  <2> QED BY <1>4, <2>1, <2>2, <2>3, <2>4 DEF Callback
<1>5. ASSUME NEW r \in Request, NEW c \in Consent, Verify(r, c) PROVE TypeOK'
  <2>1. rec' \in [Consent -> Record]
    <3>1. Expired(rec[c]).token \in BOOLEAN
      BY <1>r DEF Record
    <3> QED BY <1>5, <3>1, <1>p, <1>r, <1>s, RecordTypes DEF Verify
  <2> QED BY <1>5, <2>1, <1>w DEF Verify, Awaiting
<1>6. ASSUME NEW r \in Request, Resume(r) PROVE TypeOK'
  <2>1. CASE ExchangeSucceeds(r)
    <3>1. rec' \in [Consent -> Record]
      <4>1. on[r] \in Consent
        BY <2>1 DEF ExchangeSucceeds, Awaiting
      <4> QED BY <2>1, <4>1, <1>p, <1>r, <1>s, RecordTypes DEF ExchangeSucceeds
    <3> QED BY <2>1, <3>1, <1>l DEF ExchangeSucceeds
  <2>2. CASE ExchangeFails(r)
    <3>1. on[r] \in Consent
      BY <2>2 DEF ExchangeFails, Awaiting
    <3>2. rec' \in [Consent -> Record]
      BY <2>2, <3>1, <1>p, <1>r, <1>s, RecordTypes DEF ExchangeFails
    <3> QED BY <2>2, <3>2, <1>l DEF ExchangeFails
  <2>3. CASE Investigated(r)
    BY <2>3 DEF Investigated, Awaiting
  <2>4. CASE Save(r)
    BY <2>4 DEF Save, Awaiting
  <2>5. CASE Complete(r)
    <3>1. on[r] \in Consent
      BY <2>5 DEF Complete, Awaiting
    <3>2. rec' \in [Consent -> Record]
      BY <2>5, <3>1, <1>p, <1>r, RecordTypes DEF Complete
    <3> QED BY <2>5, <3>2, <1>l DEF Complete
  <2>6. CASE VerificationFails(r)
    <3>1. on[r] \in Consent
      BY <2>6 DEF VerificationFails, Awaiting
    <3>2. rec' \in [Consent -> Record]
      BY <2>6, <3>1, <1>p, <1>r, <1>s, RecordTypes DEF VerificationFails
    <3> QED BY <2>6, <3>2, <1>l DEF VerificationFails
  <2>7. CASE Cancel(r)
    <3>1. saved' \subseteq Consent
      BY <2>7 DEF Cancel, Awaiting
    <3> QED BY <2>7, <3>1, <1>l DEF Cancel
  <2> QED BY <1>6, <2>1, <2>2, <2>3, <2>4, <2>5, <2>6, <2>7 DEF Resume
<1>7. CASE Sweep
  BY <1>7, <1>k DEF Sweep, Drop
<1>8. CASE Tick
  BY <1>8 DEF Tick
<1>9. CASE UNCHANGED vars
  BY <1>9 DEF vars
<1> QED
  BY <1>1, <1>2, <1>3, <1>4, <1>5, <1>6, <1>7, <1>8, <1>9 DEF Next

\* The records, requests and clocks always have the shapes TypeOK gives them.
THEOREM TypeCorrect == Spec => []TypeOK
<1>1. Init => TypeOK
  BY NoneAssumption, NumberAssumption DEF Init, TypeOK, Record, Unborn, Status, Awaiting
<1> QED
  BY <1>1, TypeStep, PTL DEF Spec
-----------------------------------------------------------------------------
(* What a step may do to a record that it neither creates nor claims *)

Kept(c) ==
  /\ rec'[c].status = rec[c].status
  /\ rec'[c].token = rec[c].token
  /\ rec'[c].chain = rec[c].chain
  /\ rec'[c].expiresAt = rec[c].expiresAt
  /\ rec'[c].terminalAt = rec[c].terminalAt
  /\ rec'[c].url = rec[c].url \/ start'[c] # "begin"
  /\ rec[c].status \in Terminal => rec'[c] = rec[c]

\* It ends, and unless it merely expires nobody waits for it any longer.
EndsNow(c) ==
  /\ c \in records'
  /\ rec[c].status \in Live \cup {"EXPIRED"}
  /\ rec'[c].status \in Terminal
  /\ ~rec'[c].token
  /\ rec'[c].expiresAt = rec[c].expiresAt
  /\ rec'[c].terminalAt = now
  /\ rec'[c].url = rec[c].url \/ start'[c] # "begin"
  /\ rec'[c].status = "COMPLETED" => rec'[c].chain /\ c \in saved'
  /\ rec[c].status = "EXPIRED" =>
       rec'[c].status \in {"COMPLETED", "FAILED"} /\ now <= rec[c].expiresAt + MaxFlight
  /\ \/ rec[c].status \in Live /\ rec'[c].status = "EXPIRED"
     \/ start'[c] # "begin" /\ \A r \in Waiting' : on[r] # c

Authorizes(c) ==
  /\ rec[c].status = "EXCHANGING" /\ rec'[c].status = "AUTHORIZED"
  /\ rec'[c].token
  /\ rec'[c].chain = rec[c].chain
  /\ rec'[c].expiresAt = rec[c].expiresAt
  /\ rec'[c].terminalAt = rec[c].terminalAt
  /\ start'[c] # "begin" /\ \A r \in Waiting' : on[r] # c
  /\ \E s \in exchanged : on[s] = c

\* No request starts to wait, no record starts, none leaves before its time.
Quiet ==
  /\ \A r \in Waiting' : r \in Waiting /\ pc'[r] = pc[r]
  /\ \A r \in Request : pc[r] # "idle" => pc'[r] # "idle"
  /\ \A c \in Consent : start'[c] = "begin" => start[c] = "begin"
  /\ records' \subseteq records /\ states' \subseteq states
  /\ \A c \in records \ records' : PastRetention(rec[c])
  /\ saved \subseteq saved'
  /\ UNCHANGED <<on, since, startedAt, now, exchanged, charged>>
  /\ \A c \in Consent : Kept(c) \/ EndsNow(c) \/ Authorizes(c)

\* A live record is in the store: only a terminal one is ever dropped.
LEMMA LiveIsStored ==
  ASSUME ResultIsKept, NEW c \in Consent, rec[c].status \in Live
  PROVE  c \in records
BY DEF ResultIsKept, Live, Terminal

\* A record on the point of being dropped has long been terminal: nobody waits
\* for it, because no wait lasts as long as the retention.
LEMMA DroppedIsFree ==
  ASSUME TypeOK, IInv, NEW c \in Consent, PastRetention(rec[c])
  PROVE  start[c] # "begin" /\ \A r \in Waiting : on[r] # c
<1> USE NumberAssumption, FlightAssumption DEF TypeOK, Record, IInv, PastRetention
<1>1. start[c] # "begin"
  BY DEF StartHoldsRecord, Terminal
<1>2. ASSUME NEW r \in Waiting, on[r] = c PROVE FALSE
  <2>1. r \in Request
    BY DEF Waiting
  <2>2. since[r] <= rec[c].terminalAt
    BY <1>2 DEF WaitingHoldsRecord
  <2>3. now <= since[r] + MaxFlight
    BY <1>2 DEF WaitIsShort
  <2> QED BY <2>1, <2>2, <2>3
<1> QED BY <1>1, <1>2

\* A step that starts nothing keeps the invariant.
LEMMA QuietKeeps ==
  ASSUME TypeOK, TypeOK', IInv, Quiet, sweepDue' = sweepDue \/ Sweep
  PROVE  IInv'
<1> USE NumberAssumption, FlightAssumption DEF TypeOK, Record, IInv
<1>d. \A c \in records \ records' : start[c] # "begin" /\ \A r \in Waiting : on[r] # c
  BY DroppedIsFree DEF Quiet
<1>w. \A r \in Waiting : r \in Request /\ on[r] \in Consent /\ pc[r] \in Awaiting
  BY DEF Waiting
<1>f. \A c \in Consent : Kept(c) \/ EndsNow(c) \/ Authorizes(c)
  BY DEF Quiet
<1>1. WaitingHoldsRecord'
  <2> SUFFICES ASSUME NEW r \in Waiting'
               PROVE  LET c == on'[r] IN
                      /\ c \in records' \ states'
                      /\ start'[c] # "begin"
                      /\ rec'[c].status \in Terminal => since'[r] <= rec'[c].terminalAt
                      /\ pc'[r] = "exchanging" =>
                           r \in exchanged' /\ rec'[c].status \in {"EXCHANGING", "EXPIRED"}
                      /\ pc'[r] # "exchanging" =>
                           r \in charged' /\ rec'[c].status \in {"VERIFYING", "EXPIRED"}
                      /\ pc'[r] = "saved" => c \in saved'
    BY DEF WaitingHoldsRecord
  <2> DEFINE c == on[r]
  <2>1. r \in Waiting /\ pc'[r] = pc[r] /\ on'[r] = c /\ c \in Consent /\ since'[r] = since[r]
    BY <1>w DEF Quiet
  <2>2. /\ c \in records \ states
        /\ start[c] # "begin"
        /\ rec[c].status \in Terminal => since[r] <= rec[c].terminalAt
        /\ pc[r] = "exchanging" => r \in exchanged /\ rec[c].status \in {"EXCHANGING", "EXPIRED"}
        /\ pc[r] # "exchanging" => r \in charged /\ rec[c].status \in {"VERIFYING", "EXPIRED"}
        /\ pc[r] = "saved" => c \in saved
    BY <2>1 DEF WaitingHoldsRecord
  <2>3. c \in records' \ states' /\ start'[c] # "begin"
    BY <2>1, <2>2, <1>d DEF Quiet
  <2>4. since[r] <= now
    BY <2>1 DEF WaitIsShort
  <2>5. Kept(c) \/ (EndsNow(c) /\ rec[c].status \in Live /\ rec'[c].status = "EXPIRED")
    BY <2>1, <1>f DEF EndsNow, Authorizes
  <2>6. rec'[c].status \in Terminal => since'[r] <= rec'[c].terminalAt
    BY <2>1, <2>2, <2>4, <2>5 DEF Kept, EndsNow
  <2>7. rec'[c].status = rec[c].status \/ rec'[c].status = "EXPIRED"
    BY <2>5 DEF Kept
  <2> QED BY <2>1, <2>2, <2>3, <2>6, <2>7 DEF Quiet
<1>2. OneWaits'
  BY DEF OneWaits, Quiet
<1>3. WaitIsShort'
  BY <1>w, <1>f DEF WaitIsShort, Quiet, Kept, EndsNow, Authorizes
<1>4. StartHoldsRecord'
  <2> SUFFICES ASSUME NEW c \in Consent, start'[c] = "begin"
               PROVE  /\ c \in records'
                      /\ ~rec'[c].url
                      /\ rec'[c].status \in {"PENDING", "EXPIRED"}
                      /\ startedAt'[c] <= now' /\ now' <= startedAt'[c] + MaxFlight
                      /\ startedAt'[c] <= rec'[c].expiresAt
                      /\ rec'[c].status = "EXPIRED" => startedAt'[c] <= rec'[c].terminalAt
    BY DEF StartHoldsRecord
  <2>1. start[c] = "begin" /\ startedAt'[c] = startedAt[c] /\ now' = now
    BY DEF Quiet
  <2>2. /\ c \in records
        /\ ~rec[c].url
        /\ rec[c].status \in {"PENDING", "EXPIRED"}
        /\ startedAt[c] <= now /\ now <= startedAt[c] + MaxFlight
        /\ startedAt[c] <= rec[c].expiresAt
        /\ rec[c].status = "EXPIRED" => startedAt[c] <= rec[c].terminalAt
    BY <2>1 DEF StartHoldsRecord
  <2>3. c \in records'
    BY <2>1, <2>2, <1>d
  <2>4. Kept(c) \/ (EndsNow(c) /\ rec'[c].status = "EXPIRED")
    BY <1>f DEF EndsNow, Authorizes
  <2> QED BY <2>1, <2>2, <2>3, <2>4 DEF Kept, EndsNow
<1>5. StatusTells'
  <2>1. ASSUME NEW r \in exchanged'
        PROVE  pc'[r] # "idle" /\ on'[r] \in Consent /\ rec'[on'[r]].status \notin {"unborn", "PENDING"}
    <3>1. r \in exchanged /\ on'[r] = on[r] /\ r \in Request
      BY DEF Quiet
    <3>2. pc[r] # "idle" /\ on[r] \in Consent /\ rec[on[r]].status \notin {"unborn", "PENDING"}
      BY <3>1 DEF StatusTells
    <3> QED BY <3>1, <3>2, <1>f DEF Quiet, Kept, EndsNow, Authorizes, Terminal
  <2>2. ASSUME NEW r \in charged'
        PROVE  pc'[r] # "idle" /\ on'[r] \in Consent
               /\ rec'[on'[r]].status \in {"VERIFYING"} \cup Terminal
    <3>1. r \in charged /\ on'[r] = on[r] /\ r \in Request
      BY DEF Quiet
    <3>2. pc[r] # "idle" /\ on[r] \in Consent /\ rec[on[r]].status \in {"VERIFYING"} \cup Terminal
      BY <3>1 DEF StatusTells
    <3> QED BY <3>1, <3>2, <1>f DEF Quiet, Kept, EndsNow, Authorizes, Terminal
  <2>3. ASSUME NEW c \in Consent, rec'[c].status = "AUTHORIZED"
        PROVE  \E s \in exchanged' : on'[s] = c
    <3>1. rec[c].status = "AUTHORIZED" \/ \E s \in exchanged : on[s] = c
      BY <2>3, <1>f DEF Kept, EndsNow, Authorizes, Terminal
    <3> QED BY <3>1 DEF StatusTells, Quiet
  <2> QED BY <2>1, <2>2, <2>3 DEF StatusTells
<1>6. SweptInTime'
  <2> DEFINE InTime(c, due) ==
        /\ rec'[c].status # "unborn"
        /\ rec'[c].status \in Live => due <= rec'[c].expiresAt + SweepEvery
        /\ rec'[c].status \in Terminal =>
             /\ due <= rec'[c].terminalAt + Retention + SweepEvery
             /\ rec'[c].terminalAt <= rec'[c].expiresAt + Lateness
  <2>1. now' = now /\ now <= sweepDue /\ sweepDue <= now + SweepEvery
    BY DEF Quiet, SweptInTime
  <2>2. Lateness \in Nat /\ SweepEvery <= Lateness /\ MaxFlight <= Lateness
    BY DEF Lateness
  <2>3. ASSUME NEW c \in records' PROVE InTime(c, sweepDue)
    <3>1. c \in Consent /\ c \in records
      BY DEF Quiet
    <3>2. /\ rec[c].status # "unborn"
          /\ rec[c].status \in Live => sweepDue <= rec[c].expiresAt + SweepEvery
          /\ rec[c].status \in Terminal =>
               /\ sweepDue <= rec[c].terminalAt + Retention + SweepEvery
               /\ rec[c].terminalAt <= rec[c].expiresAt + Lateness
      BY <3>1 DEF SweptInTime
    <3>3. CASE Kept(c)
      BY <3>2, <3>3 DEF Kept
    <3>4. CASE Authorizes(c)
      BY <3>1, <3>2, <3>4 DEF Authorizes, Live, Terminal
    <3>5. CASE EndsNow(c)
      <4>1. now <= rec[c].expiresAt + Lateness
        <5>1. CASE rec[c].status \in Live
          BY <3>1, <3>2, <2>1, <2>2, <5>1
        <5>2. CASE rec[c].status = "EXPIRED"
          BY <3>1, <3>5, <2>2, <5>2 DEF EndsNow
        <5> QED BY <3>5, <5>1, <5>2 DEF EndsNow
      <4> QED BY <3>5, <2>1, <4>1, <3>1 DEF EndsNow, Live, Terminal
    <3> QED BY <3>1, <3>3, <3>4, <3>5, <1>f
  <2>4. CASE sweepDue' = sweepDue
    BY <2>1, <2>3, <2>4 DEF SweptInTime, Lateness
  <2>5. CASE Sweep
    <3>1. sweepDue' = now + SweepEvery
      BY <2>5 DEF Sweep
    <3>2. ASSUME NEW c \in records' PROVE InTime(c, now + SweepEvery)
      <4>1. c \in Consent /\ rec'[c] = Expired(rec[c]) /\ ~PastRetention(rec'[c])
        BY <2>5 DEF Sweep, Drop, Stale, Swept
      <4>2. rec'[c].status \in Live => ~(rec'[c].expiresAt <= now)
        BY <4>1, ExpiredIs DEF Ended, Live
      <4>3. InTime(c, sweepDue)
        BY <2>3
      <4> QED BY <2>1, <4>1, <4>2, <4>3 DEF PastRetention
    <3> QED BY <2>1, <3>1, <3>2 DEF SweptInTime, Lateness
  <2> QED BY <2>4, <2>5
<1>7. OneCodeOneInvestigation'
  BY DEF OneCodeOneInvestigation, Quiet
<1>8. TokenOnlyWhileUsable'
  BY <1>f DEF TokenOnlyWhileUsable, Kept, EndsNow, Authorizes, Terminal
<1>9. ResultIsKept'
  BY <1>f DEF ResultIsKept, Quiet, PastRetention, Kept, EndsNow, Authorizes, Terminal
<1>10. StatesAreOpen'
  BY <1>f DEF StatesAreOpen, Quiet, Kept, EndsNow, Authorizes, Terminal
<1> QED BY <1>1, <1>2, <1>3, <1>4, <1>5, <1>6, <1>7, <1>8, <1>9, <1>10

-----------------------------------------------------------------------------
(* Each step *)

\* A record offered to _expire is kept or ends; dropped, it is kept.
LEMMA ExpiryFits ==
  ASSUME TypeOK, IInv, NEW c \in Consent, c \in records', rec'[c] = Expired(rec[c])
  PROVE  Kept(c) \/ EndsNow(c)
<1> USE DEF TypeOK
<1>1. CASE rec'[c] = rec[c]
  BY <1>1 DEF Kept
<1>2. CASE Expired(rec[c]) = Ended(rec[c], "EXPIRED") /\ rec[c].status \in Live
  BY <1>2 DEF EndsNow, Ended, Live, Terminal
<1> QED BY <1>1, <1>2, ExpiredIs

LEMMA StaleIsOld ==
  ASSUME TypeOK, NEW c \in Consent, PastRetention(Expired(rec[c]))
  PROVE  Expired(rec[c]) = rec[c] /\ PastRetention(rec[c])
<1> USE NumberAssumption, FlightAssumption DEF TypeOK
<1>1. CASE Expired(rec[c]) = rec[c]
  BY <1>1
<1>2. CASE Expired(rec[c]) = Ended(rec[c], "EXPIRED")
  BY <1>2 DEF PastRetention, Ended
<1> QED BY <1>1, <1>2, ExpiredIs

\* The whole of what an unclaimed record and its waiting requests can do.
LEMMA QuietSteps ==
  ASSUME TypeOK, IInv,
         \/ \E c \in Consent : StartRequest(c) \/ Read(c)
         \/ \E r \in Request, c \in Consent :
              CallbackTooLate(r, c) \/ CallbackDenied(r, c) \/ CallbackRefused(r, c)
         \/ \E r \in Request : 
              \/ ExchangeSucceeds(r) \/ ExchangeFails(r)
              \/ Complete(r) \/ VerificationFails(r) \/ Cancel(r)
  PROVE  Quiet /\ sweepDue' = sweepDue
<1> USE NumberAssumption, FlightAssumption DEF TypeOK, Record, IInv
<1>due. sweepDue' = sweepDue
  BY DEF StartRequest, StartSucceeds, StartFails, StartCancelled, Read, CallbackTooLate,
     CallbackDenied, CallbackRefused, ExchangeSucceeds, ExchangeFails, Complete,
     VerificationFails, Cancel
<1>same. ASSUME NEW c \in Consent, rec'[c] = rec[c] PROVE Kept(c)
  BY <1>same DEF Kept
<1>leave. ASSUME NEW r \in Request, Leave(r)
          PROVE  /\ Waiting' = Waiting \ {r}
                 /\ \A s \in Waiting' : pc'[s] = pc[s]
                 /\ \A s \in Request : pc[s] # "idle" => pc'[s] # "idle"
                 /\ UNCHANGED <<on, since>>
  BY <1>leave DEF Leave, Waiting, Awaiting
<1>stay. ASSUME UNCHANGED pc
         PROVE  /\ Waiting' = Waiting
                /\ \A s \in Waiting' : pc'[s] = pc[s]
                /\ \A s \in Request : pc[s] # "idle" => pc'[s] # "idle"
  BY <1>stay DEF Waiting
<1>1. ASSUME NEW c \in Consent, StartSucceeds(c) PROVE Quiet
  <2>1. /\ c \in records
        /\ ~rec[c].url
        /\ rec[c].status \in {"PENDING", "EXPIRED"}
        /\ now <= startedAt[c] + MaxFlight /\ startedAt[c] <= rec[c].expiresAt
    BY <1>1 DEF StartSucceeds, StartHoldsRecord
  <2>2. start'[c] = "over"
    BY <1>1 DEF StartSucceeds
  <2>3. Kept(c) \/ EndsNow(c)
    BY <1>1, <2>1, <2>2 DEF StartSucceeds, Put, Expired, Ended, Kept, EndsNow, Live, Terminal
  <2>4. \A d \in Consent \ {c} : rec'[d] = rec[d]
    BY <1>1 DEF StartSucceeds, Put
  <2> QED BY <1>1, <1>same, <1>stay, <2>3, <2>4 DEF StartSucceeds, Quiet
<1>2. ASSUME NEW c \in Consent, StartFails(c) PROVE Quiet
  <2>1. /\ c \in records
        /\ rec[c].status \in {"PENDING", "EXPIRED"}
        /\ now <= startedAt[c] + MaxFlight /\ startedAt[c] <= rec[c].expiresAt
    BY <1>2 DEF StartFails, StartHoldsRecord
  <2>2. \A r \in Waiting : on[r] # c
    BY <1>2 DEF StartFails, WaitingHoldsRecord
  <2>3. EndsNow(c)
    BY <1>2, <1>stay, <2>1, <2>2 DEF StartFails, Put, Ended, EndsNow, Live, Terminal
  <2>4. \A d \in Consent \ {c} : rec'[d] = rec[d]
    BY <1>2 DEF StartFails, Put
  <2> QED BY <1>2, <1>same, <1>stay, <2>3, <2>4 DEF StartFails, Quiet
<1>3. ASSUME NEW c \in Consent, StartCancelled(c) PROVE Quiet
  BY <1>3, <1>same, <1>stay DEF StartCancelled, Quiet, stores
<1>4. ASSUME NEW c \in Consent, Read(c) PROVE Quiet
  <2>1. \A d \in Consent \ {c} : rec'[d] = rec[d]
    BY <1>4 DEF Read, Vanishes, Put
  <2>2. CASE Vanishes(c)
    <3>1. rec'[c] = rec[c] /\ PastRetention(rec[c])
      BY <2>2, StaleIsOld DEF Vanishes, Put
    <3> QED BY <1>4, <2>1, <2>2, <3>1, <1>same, <1>stay DEF Read, Vanishes, Drop, Quiet
  <2>3. CASE ~Vanishes(c)
    <3>1. Kept(c) \/ EndsNow(c)
      BY <1>4, <2>3, ExpiryFits DEF Read, Put
    <3> QED BY <1>4, <2>1, <2>3, <3>1, <1>same, <1>stay DEF Read, Quiet
  <2> QED BY <2>2, <2>3
<1>5. ASSUME NEW r \in Request, NEW c \in Consent, CallbackTooLate(r, c) PROVE Quiet
  <2>1. rec'[c] = rec[c] /\ PastRetention(rec[c])
    BY <1>5, StaleIsOld DEF CallbackTooLate, Vanishes, Put
  <2>2. \A d \in Consent \ {c} : rec'[d] = rec[d]
    BY <1>5 DEF CallbackTooLate, Vanishes, Put
  <2> QED BY <1>5, <1>same, <1>leave, <2>1, <2>2 DEF CallbackTooLate, Vanishes, Drop, Quiet
<1>6. ASSUME NEW r \in Request, NEW c \in Consent, CallbackDenied(r, c) PROVE Quiet
  <2> DEFINE e == Expired(rec[c])
  <2>1. c \in records /\ start[c] # "begin" /\ \A s \in Waiting : on[s] # c
    BY <1>6 DEF CallbackDenied, Resolves, StartHoldsRecord, WaitingHoldsRecord
  <2>2. \A d \in Consent \ {c} : rec'[d] = rec[d]
    BY <1>6 DEF CallbackDenied, Put
  <2>3. CASE rec'[c] = e
    <3>1. Kept(c) \/ EndsNow(c)
      BY <1>6, <2>1, <2>3, ExpiryFits DEF CallbackDenied
    <3> QED BY <1>6, <2>2, <3>1, <1>same, <1>leave DEF CallbackDenied, Quiet
  <2>4. CASE rec'[c] = Ended(e, "DENIED") /\ e.status \in {"PENDING", "EXCHANGING"}
    <3>1. e = rec[c]
      BY <2>4, ExpiredIs DEF Ended
    <3>2. EndsNow(c)
      BY <1>6, <1>leave, <2>1, <2>4, <3>1 DEF CallbackDenied, Ended, EndsNow, Live, Terminal
    <3> QED BY <1>6, <2>2, <3>2, <1>same, <1>leave DEF CallbackDenied, Quiet
  <2> QED BY <1>6, <2>3, <2>4 DEF CallbackDenied, Put
<1>7. ASSUME NEW r \in Request, NEW c \in Consent, CallbackRefused(r, c) PROVE Quiet
  <2>1. c \in records'
    BY <1>7 DEF CallbackRefused, Resolves
  <2>2. \A d \in Consent \ {c} : rec'[d] = rec[d]
    BY <1>7 DEF CallbackRefused, Put
  <2>3. Kept(c) \/ EndsNow(c)
    BY <1>7, <2>1, ExpiryFits DEF CallbackRefused, Put
  <2> QED BY <1>7, <2>2, <2>3, <1>same, <1>leave DEF CallbackRefused, Quiet
<1>wait. ASSUME NEW r \in Waiting
         PROVE  /\ on[r] \in Consent /\ on[r] \in records /\ start[on[r]] # "begin"
                /\ \A s \in Waiting \ {r} : on[s] # on[r]
                /\ now <= rec[on[r]].expiresAt + MaxFlight
                /\ pc[r] = "exchanging" =>
                     r \in exchanged /\ rec[on[r]].status \in {"EXCHANGING", "EXPIRED"}
                /\ pc[r] # "exchanging" => rec[on[r]].status \in {"VERIFYING", "EXPIRED"}
                /\ pc[r] = "saved" => on[r] \in saved
  BY DEF Waiting, WaitingHoldsRecord, OneWaits, WaitIsShort
<1>8. ASSUME NEW r \in Request, ExchangeSucceeds(r) PROVE Quiet
  <2> DEFINE c == on[r]
             e == Expired(rec[c])
  <2>1. r \in Waiting
    BY <1>8 DEF ExchangeSucceeds, Waiting, Awaiting
  <2>2. \A d \in Consent \ {c} : rec'[d] = rec[d]
    BY <1>8 DEF ExchangeSucceeds, Put
  <2>3. Kept(c) \/ EndsNow(c) \/ Authorizes(c)
    <3>1. CASE e.status = "EXCHANGING"
      <4>1. e = rec[c]
        BY <2>1, <3>1, <1>wait, ExpiredIs DEF Ended
      <4>2. rec'[c] = Moved(rec[c], "AUTHORIZED", TRUE)
        BY <1>8, <2>1, <3>1, <4>1, <1>wait DEF ExchangeSucceeds, Put
      <4>3. start'[c] # "begin" /\ \A s \in Waiting' : on[s] # c
        BY <1>8, <2>1, <1>wait, <1>leave DEF ExchangeSucceeds
      <4> QED BY <1>8, <2>1, <3>1, <4>1, <4>2, <4>3, <1>wait DEF ExchangeSucceeds, Moved, Authorizes
    <3>2. CASE e.status # "EXCHANGING"
      BY <1>8, <2>1, <3>2, <1>wait, ExpiryFits DEF ExchangeSucceeds, Put
    <3> QED BY <3>1, <3>2
  <2> QED BY <1>8, <2>1, <2>2, <2>3, <1>same, <1>leave DEF ExchangeSucceeds, Quiet
<1>9. ASSUME NEW r \in Request, ExchangeFails(r) PROVE Quiet
  <2>1. r \in Waiting
    BY <1>9 DEF ExchangeFails, Waiting, Awaiting
  <2>2. \A d \in Consent \ {on[r]} : rec'[d] = rec[d]
    BY <1>9 DEF ExchangeFails, Put
  <2>3. start'[on[r]] # "begin" /\ \A s \in Waiting' : on[s] # on[r]
    BY <1>9, <2>1, <1>wait, <1>leave DEF ExchangeFails
  <2>4. EndsNow(on[r])
    BY <1>9, <2>1, <2>3, <1>wait DEF ExchangeFails, Put, Ended, EndsNow, Live, Terminal
  <2> QED BY <1>9, <2>1, <2>2, <2>4, <1>same, <1>leave DEF ExchangeFails, Quiet
<1>10. ASSUME NEW r \in Request, Complete(r) PROVE Quiet
  <2>1. r \in Waiting
    BY <1>10 DEF Complete, Waiting, Awaiting
  <2>2. \A d \in Consent \ {on[r]} : rec'[d] = rec[d]
    BY <1>10 DEF Complete, Put
  <2>3. start'[on[r]] # "begin" /\ \A s \in Waiting' : on[s] # on[r]
    BY <1>10, <2>1, <1>wait, <1>leave DEF Complete
  <2>4. EndsNow(on[r])
    BY <1>10, <2>1, <2>3, <1>wait DEF Complete, Put, Completed, EndsNow, Live, Terminal
  <2> QED BY <1>10, <2>1, <2>2, <2>4, <1>same, <1>leave DEF Complete, Quiet
<1>11. ASSUME NEW r \in Request, VerificationFails(r) PROVE Quiet
  <2>1. r \in Waiting
    BY <1>11 DEF VerificationFails, Waiting, Awaiting
  <2>2. \A d \in Consent \ {on[r]} : rec'[d] = rec[d]
    BY <1>11 DEF VerificationFails, Put
  <2>3. start'[on[r]] # "begin" /\ \A s \in Waiting' : on[s] # on[r]
    BY <1>11, <2>1, <1>wait, <1>leave DEF VerificationFails
  <2>4. EndsNow(on[r])
    BY <1>11, <2>1, <2>3, <1>wait DEF VerificationFails, Put, Ended, EndsNow, Live, Terminal
  <2> QED BY <1>11, <2>1, <2>2, <2>4, <1>same, <1>leave DEF VerificationFails, Quiet
<1>12. ASSUME NEW r \in Request, Cancel(r) PROVE Quiet
  BY <1>12, <1>same, <1>leave DEF Cancel, stores, Quiet
<1> QED
  BY <1>1, <1>2, <1>3, <1>4, <1>5, <1>6, <1>7, <1>8, <1>9, <1>10, <1>11, <1>12, <1>due
  DEF StartRequest

LEMMA SweepFits ==
  ASSUME TypeOK, IInv, Sweep
  PROVE  Quiet
<1> USE NumberAssumption, FlightAssumption DEF TypeOK, IInv
<1>1. \A c \in records \ records' : rec'[c] = rec[c] /\ PastRetention(rec[c])
  BY StaleIsOld DEF Sweep, Drop, Stale, Swept
<1>2. ASSUME NEW c \in Consent PROVE Kept(c) \/ EndsNow(c)
  <2>1. CASE c \in records'
    BY <2>1, ExpiryFits DEF Sweep, Drop, Swept
  <2>2. CASE c \notin records'
    <3>1. rec'[c] = rec[c]
      BY <1>1, <2>2 DEF Sweep, Swept
    <3> QED BY <3>1 DEF Kept
  <2> QED BY <2>1, <2>2
<1>3. Waiting' = Waiting
  BY DEF Sweep, Waiting
<1> QED BY <1>1, <1>2, <1>3 DEF Sweep, Drop, Quiet

\* A record is claimed by a callback while nobody waits for it.
LEMMA BeginsKeeps ==
  ASSUME TypeOK, TypeOK', IInv, NEW r \in Request, NEW c \in Consent, NEW withCode \in BOOLEAN,
         CallbackBegins(r, c, withCode)
  PROVE  IInv'
<1> USE NumberAssumption, FlightAssumption DEF TypeOK, Record, IInv
<1>1. Expired(rec[c]) = rec[c] /\ rec[c].status = "PENDING" /\ now < rec[c].expiresAt
  BY ExpiredIs DEF CallbackBegins, Ended, Live
<1>2. /\ rec' = [rec EXCEPT ![c] = Moved(rec[c], "EXCHANGING", rec[c].token)]
      /\ pc[r] = "idle" /\ c \in states /\ rec[c].url
      /\ states' = states \ {c} /\ records' = records
      /\ on' = [on EXCEPT ![r] = c] /\ since' = [since EXCEPT ![r] = now]
      /\ UNCHANGED <<start, startedAt, sweepDue, now, charged, saved>>
  BY <1>1 DEF CallbackBegins, Resolves, Put, Wait
<1>3. \/ pc' = [pc EXCEPT ![r] = "exchanging"] /\ exchanged' = exchanged \cup {r}
      \/ pc' = [pc EXCEPT ![r] = "over"] /\ exchanged' = exchanged
  BY DEF CallbackBegins, Wait
<1>4. r \notin exchanged /\ r \notin charged /\ r \notin Waiting
  BY <1>2 DEF StatusTells, Waiting, Awaiting
<1>5. start[c] # "begin" /\ \A s \in Waiting : on[s] # c
  BY <1>1, <1>2 DEF StartHoldsRecord, WaitingHoldsRecord
<1>6. \A s \in Waiting' : s # r => s \in Waiting /\ pc'[s] = pc[s] /\ on'[s] = on[s]
                                    /\ since'[s] = since[s] /\ on[s] # c /\ on[s] \in Consent
  BY <1>2, <1>3, <1>5 DEF Waiting
<1>7. r \in Waiting' => pc'[r] = "exchanging" /\ r \in exchanged'
  BY <1>2, <1>3 DEF Waiting, Awaiting
<1>8. /\ rec'[c].status = "EXCHANGING" /\ rec'[c].token = rec[c].token
      /\ rec'[c].expiresAt = rec[c].expiresAt
      /\ \A d \in Consent : d # c => rec'[d] = rec[d]
  BY <1>2 DEF Moved
<1>10. WaitingHoldsRecord'
  BY <1>1, <1>2, <1>3, <1>5, <1>6, <1>7, <1>8 DEF WaitingHoldsRecord, Terminal
<1>11. OneWaits'
  BY <1>2, <1>6 DEF OneWaits
<1>12. WaitIsShort'
  BY <1>1, <1>2, <1>6, <1>8 DEF WaitIsShort
<1>13. StartHoldsRecord'
  BY <1>2, <1>5, <1>8 DEF StartHoldsRecord
<1>14. StatusTells'
  BY <1>1, <1>2, <1>3, <1>4, <1>8 DEF StatusTells, Terminal
<1>15. SweptInTime'
  BY <1>1, <1>2, <1>8 DEF SweptInTime, Live, Terminal, Lateness
<1>16. OneCodeOneInvestigation'
  BY <1>1, <1>2, <1>3, <1>4 DEF OneCodeOneInvestigation, StatusTells, Terminal
<1>17. TokenOnlyWhileUsable'
  BY <1>1, <1>8 DEF TokenOnlyWhileUsable
<1>18. ResultIsKept'
  BY <1>2, <1>8 DEF ResultIsKept
<1>19. StatesAreOpen'
  BY <1>2, <1>5, <1>8 DEF StatesAreOpen
<1> QED BY <1>10, <1>11, <1>12, <1>13, <1>14, <1>15, <1>16, <1>17, <1>18, <1>19

\* An authorized record is claimed by one verify, while nobody waits for it.
LEMMA VerifyKeeps ==
  ASSUME TypeOK, TypeOK', IInv, NEW r \in Request, NEW c \in Consent, Verify(r, c)
  PROVE  IInv'
<1> USE NumberAssumption, FlightAssumption DEF TypeOK, Record, IInv
<1>1. Expired(rec[c]) = rec[c] /\ rec[c].status = "AUTHORIZED" /\ now < rec[c].expiresAt
  BY ExpiredIs DEF Verify, Ended, Live
<1>2. /\ rec' = [rec EXCEPT ![c] = Moved(rec[c], "VERIFYING", rec[c].token)]
      /\ pc[r] = "idle" /\ c \in records
      /\ pc' = [pc EXCEPT ![r] = "investigating"]
      /\ on' = [on EXCEPT ![r] = c] /\ since' = [since EXCEPT ![r] = now]
      /\ charged' = charged \cup {r}
      /\ UNCHANGED <<records, states, start, startedAt, sweepDue, now, exchanged, saved>>
  BY <1>1 DEF Verify, Put, Wait
<1>4. r \notin exchanged /\ r \notin charged /\ r \notin Waiting
  BY <1>2 DEF StatusTells, Waiting, Awaiting
<1>5. start[c] # "begin" /\ c \notin states /\ \A s \in Waiting : on[s] # c
  BY <1>1, <1>2 DEF StartHoldsRecord, WaitingHoldsRecord, StatesAreOpen
<1>6. \A s \in Waiting' : s # r => s \in Waiting /\ pc'[s] = pc[s] /\ on'[s] = on[s]
                                    /\ since'[s] = since[s] /\ on[s] # c /\ on[s] \in Consent
  BY <1>2, <1>5 DEF Waiting
<1>8. /\ rec'[c].status = "VERIFYING" /\ rec'[c].token = rec[c].token
      /\ rec'[c].expiresAt = rec[c].expiresAt
      /\ \A d \in Consent : d # c => rec'[d] = rec[d]
  BY <1>2 DEF Moved
<1>10. WaitingHoldsRecord'
  BY <1>1, <1>2, <1>5, <1>6, <1>8 DEF WaitingHoldsRecord, Terminal
<1>11. OneWaits'
  BY <1>2, <1>6 DEF OneWaits
<1>12. WaitIsShort'
  BY <1>1, <1>2, <1>6, <1>8 DEF WaitIsShort
<1>13. StartHoldsRecord'
  BY <1>2, <1>5, <1>8 DEF StartHoldsRecord
<1>14. StatusTells'
  BY <1>1, <1>2, <1>4, <1>8 DEF StatusTells, Terminal
<1>15. SweptInTime'
  BY <1>1, <1>2, <1>8 DEF SweptInTime, Live, Terminal, Lateness
<1>16. OneCodeOneInvestigation'
  <2>1. \A s \in exchanged \cup charged : on'[s] = on[s]
    BY <1>2, <1>4
  <2>2. \A s \in charged : on[s] # c
    BY <1>1 DEF StatusTells, Terminal
  <2>3. on'[r] = c
    BY <1>2
  <2>4. \E s \in exchanged : on[s] = c
    BY <1>1 DEF StatusTells
  <2> QED BY <1>2, <2>1, <2>2, <2>3, <2>4 DEF OneCodeOneInvestigation
<1>17. TokenOnlyWhileUsable'
  BY <1>1, <1>8 DEF TokenOnlyWhileUsable
<1>18. ResultIsKept'
  BY <1>2, <1>8 DEF ResultIsKept
<1>19. StatesAreOpen'
  BY <1>2, <1>5, <1>8 DEF StatesAreOpen
<1> QED BY <1>10, <1>11, <1>12, <1>13, <1>14, <1>15, <1>16, <1>17, <1>18, <1>19

\* A new record is created beside a sweep of the others.
LEMMA CreateKeeps ==
  ASSUME TypeOK, TypeOK', IInv, NEW c \in Consent, NEW o \in Owner, Create(c, o)
  PROVE  IInv'
<1> USE NumberAssumption, FlightAssumption DEF TypeOK, Record, IInv
<1>1. /\ rec[c].status = "unborn"
      /\ records' = (records \ Stale) \cup {c} /\ states' = (states \ Stale) \cup {c}
      /\ start' = [start EXCEPT ![c] = "begin"] /\ startedAt' = [startedAt EXCEPT ![c] = now]
      /\ UNCHANGED <<pc, on, since, sweepDue, now, exchanged, charged, saved>>
  BY DEF Create
<1>2. /\ rec'[c].status = "PENDING" /\ ~rec'[c].token /\ ~rec'[c].url
      /\ rec'[c].expiresAt = now + TTL
      /\ \A d \in Consent : d # c => rec'[d] = Swept[d]
  BY DEF Create, Swept
<1>3. \A d \in records \ records' : PastRetention(rec[d]) /\ rec'[d] = rec[d] /\ d # c
  BY <1>1, <1>2, StaleIsOld DEF Stale, Swept
<1>4. ASSUME NEW d \in Consent, d # c PROVE Kept(d) \/ EndsNow(d)
  <2>1. CASE d \in records'
    BY <1>1, <1>2, <1>4, <2>1, ExpiryFits DEF Swept
  <2>2. CASE d \notin records'
    <3>1. rec'[d] = rec[d]
      BY <1>2, <1>3, <1>4, <2>2 DEF Swept
    <3> QED BY <3>1 DEF Kept
  <2> QED BY <2>1, <2>2
<1>5. ASSUME NEW d \in Consent, d # c
      PROVE  \/ rec'[d] = rec[d]
             \/ /\ rec[d].status \in Live /\ rec'[d].status = "EXPIRED"
                /\ rec'[d].terminalAt = now /\ rec'[d].expiresAt = rec[d].expiresAt
                /\ ~rec'[d].token /\ rec'[d].url = rec[d].url /\ d \in records'
  <2>1. rec'[d] = Expired(rec[d]) \/ rec'[d] = rec[d]
    BY <1>2, <1>5 DEF Swept
  <2>2. rec'[d] = rec[d] \/ (rec'[d] = Ended(rec[d], "EXPIRED") /\ rec[d].status \in Live)
    BY <2>1, ExpiredIs
  <2>3. rec[d].status \in Live => d \in records
    BY LiveIsStored
  <2> QED BY <1>1, <1>3, <1>5, <2>2, <2>3 DEF Ended
<1>6. /\ Waiting' = Waiting
      /\ \A r \in Waiting : on[r] # c /\ on[r] \in Consent /\ on[r] \in records'
                            /\ pc'[r] = pc[r]
  <2>1. \A d \in records \ records' : \A r \in Waiting : on[r] # d
    BY <1>3, DroppedIsFree
  <2>2. \A r \in Waiting : on[r] \in Consent /\ on[r] \in records
    BY DEF Waiting, WaitingHoldsRecord
  <2>3. c \notin records
    BY <1>1 DEF SweptInTime
  <2> QED BY <1>1, <2>1, <2>2, <2>3 DEF Waiting
<1>7. \A d \in Consent : d # c /\ start[d] = "begin" => d \in records'
  BY <1>3, DroppedIsFree DEF StartHoldsRecord
<1>8. \A r \in exchanged \cup charged : on[r] # c
  BY <1>1 DEF StatusTells, Terminal
<1>10. WaitingHoldsRecord'
  BY <1>1, <1>2, <1>5, <1>6 DEF WaitingHoldsRecord, WaitIsShort, Live, Terminal
<1>11. OneWaits'
  BY <1>1, <1>6 DEF OneWaits
<1>12. WaitIsShort'
  BY <1>1, <1>5, <1>6 DEF WaitIsShort
<1>13. StartHoldsRecord'
  <2>1. ASSUME NEW d \in Consent, d # c, start'[d] = "begin"
        PROVE  /\ d \in records'
               /\ ~rec'[d].url
               /\ rec'[d].status \in {"PENDING", "EXPIRED"}
               /\ startedAt'[d] <= now' /\ now' <= startedAt'[d] + MaxFlight
               /\ startedAt'[d] <= rec'[d].expiresAt
               /\ rec'[d].status = "EXPIRED" => startedAt'[d] <= rec'[d].terminalAt
    BY <1>1, <1>5, <1>7, <2>1 DEF StartHoldsRecord
  <2>2. /\ c \in records' /\ startedAt'[c] = now /\ now' = now
        /\ startedAt'[c] <= rec'[c].expiresAt
    BY <1>1, <1>2
  <2> QED BY <1>2, <2>1, <2>2 DEF StartHoldsRecord
<1>14. StatusTells'
  <2>1. \A d \in Consent : d # c =>
          rec'[d].status = rec[d].status \/ (rec[d].status # "unborn" /\ rec'[d].status = "EXPIRED")
    BY <1>5 DEF Live
  <2>2. \A r \in exchanged :
          pc[r] # "idle" /\ on[r] \in Consent /\ rec'[on[r]].status \notin {"unborn", "PENDING"}
    BY <1>8, <2>1 DEF StatusTells
  <2>3. \A r \in charged :
          pc[r] # "idle" /\ on[r] \in Consent /\ rec'[on[r]].status \in {"VERIFYING"} \cup Terminal
    BY <1>8, <2>1 DEF StatusTells, Terminal
  <2>4. \A d \in Consent : rec'[d].status = "AUTHORIZED" => \E s \in exchanged : on[s] = d
    BY <1>2, <2>1 DEF StatusTells
  <2> QED BY <1>1, <2>2, <2>3, <2>4 DEF StatusTells
<1>15. SweptInTime'
  <2>1. ASSUME NEW d \in records', d # c
        PROVE  /\ rec'[d].status # "unborn"
               /\ rec'[d].status \in Live => sweepDue <= rec'[d].expiresAt + SweepEvery
               /\ rec'[d].status \in Terminal =>
                    /\ sweepDue <= rec'[d].terminalAt + Retention + SweepEvery
                    /\ rec'[d].terminalAt <= rec'[d].expiresAt + Lateness
    <3>1. d \in records /\ d \in Consent
      BY <1>1, <2>1
    <3>2. Lateness \in Nat /\ SweepEvery <= Lateness
      BY DEF Lateness
    <3> QED BY <1>5, <2>1, <3>1, <3>2 DEF SweptInTime, Live, Terminal
  <2>2. sweepDue <= rec'[c].expiresAt + SweepEvery
    BY <1>2 DEF SweptInTime
  <2> QED BY <1>1, <1>2, <2>1, <2>2 DEF SweptInTime, Terminal, Lateness
<1>16. OneCodeOneInvestigation'
  BY <1>1 DEF OneCodeOneInvestigation
<1>17. TokenOnlyWhileUsable'
  BY <1>2, <1>5 DEF TokenOnlyWhileUsable
<1>18. ResultIsKept'
  BY <1>1, <1>2, <1>3, <1>5 DEF ResultIsKept, PastRetention
<1>19. StatesAreOpen'
  BY <1>1, <1>2, <1>5 DEF StatesAreOpen
<1> QED BY <1>10, <1>11, <1>12, <1>13, <1>14, <1>15, <1>16, <1>17, <1>18, <1>19

\* The investigation and the save move a request on beside its record.
LEMMA MovingOnKeeps ==
  ASSUME TypeOK, TypeOK', IInv, NEW r \in Request, Investigated(r) \/ Save(r)
  PROVE  IInv'
<1> USE NumberAssumption, FlightAssumption DEF TypeOK, Record, IInv, stores
<1>1. /\ r \in Waiting /\ pc[r] # "exchanging"
      /\ pc'[r] \in {"saving", "saved"} /\ (pc'[r] = "saved" => on[r] \in saved')
      /\ \A s \in Request \ {r} : pc'[s] = pc[s]
      /\ saved \subseteq saved'
      /\ UNCHANGED <<rec, records, states, start, on, since, startedAt, sweepDue, now,
                     exchanged, charged>>
  BY DEF Investigated, Save, Waiting, Awaiting
<1>2. Waiting' = Waiting
  BY <1>1 DEF Waiting, Awaiting
<1>10. WaitingHoldsRecord'
  BY <1>1, <1>2 DEF WaitingHoldsRecord
<1>11. OneWaits' /\ WaitIsShort' /\ StartHoldsRecord' /\ StatesAreOpen'
  BY <1>1, <1>2 DEF OneWaits, WaitIsShort, StartHoldsRecord, StatesAreOpen
<1>12. StatusTells'
  BY <1>1 DEF StatusTells
<1>13. SweptInTime' /\ OneCodeOneInvestigation' /\ TokenOnlyWhileUsable' /\ ResultIsKept'
  BY <1>1 DEF SweptInTime, OneCodeOneInvestigation, TokenOnlyWhileUsable, ResultIsKept, Lateness
<1> QED BY <1>10, <1>11, <1>12, <1>13

LEMMA TickKeeps ==
  ASSUME TypeOK, IInv, Tick
  PROVE  IInv'
<1> USE NumberAssumption, FlightAssumption DEF TypeOK, Record, IInv, stores
<1>1. /\ now' = now + 1 /\ now < sweepDue
      /\ \A r \in Waiting : now < since[r] + MaxFlight
      /\ \A c \in Consent : start[c] = "begin" => now < startedAt[c] + MaxFlight
      /\ Waiting' = Waiting
      /\ UNCHANGED <<rec, records, states, start, pc, on, since, startedAt, sweepDue,
                     exchanged, charged, saved>>
  BY DEF Tick, Waiting
<1>2. WaitingHoldsRecord' /\ OneWaits' /\ StatesAreOpen'
  BY <1>1 DEF WaitingHoldsRecord, OneWaits, StatesAreOpen
<1>3. WaitIsShort'
  BY <1>1 DEF WaitIsShort, Waiting
<1>4. StartHoldsRecord'
  BY <1>1 DEF StartHoldsRecord
<1>5. StatusTells' /\ OneCodeOneInvestigation' /\ TokenOnlyWhileUsable'
  BY <1>1 DEF StatusTells, OneCodeOneInvestigation, TokenOnlyWhileUsable
<1>6. SweptInTime'
  BY <1>1 DEF SweptInTime, Lateness
<1>7. ResultIsKept'
  BY <1>1 DEF ResultIsKept
<1> QED BY <1>2, <1>3, <1>4, <1>5, <1>6, <1>7

\* Every step keeps the inductive invariant.
LEMMA InvStep == TypeOK /\ IInv /\ [Next]_vars => IInv'
<1> SUFFICES ASSUME TypeOK, IInv, [Next]_vars PROVE IInv'
  OBVIOUS
<1>t. TypeOK'
  BY TypeStep
<1>1. ASSUME NEW c \in Consent, NEW o \in Owner, Create(c, o) PROVE IInv'
  BY <1>1, <1>t, CreateKeeps
<1>2. ASSUME NEW c \in Consent, StartRequest(c) \/ Read(c) PROVE IInv'
  BY <1>2, <1>t, QuietSteps, QuietKeeps
<1>3. ASSUME NEW r \in Request, NEW c \in Consent, Callback(r, c) PROVE IInv'
  BY <1>3, <1>t, QuietSteps, QuietKeeps, BeginsKeeps DEF Callback
<1>4. ASSUME NEW r \in Request, NEW c \in Consent, Verify(r, c) PROVE IInv'
  BY <1>4, <1>t, VerifyKeeps
<1>5. ASSUME NEW r \in Request, Resume(r) PROVE IInv'
  BY <1>5, <1>t, QuietSteps, QuietKeeps, MovingOnKeeps DEF Resume
<1>6. CASE Sweep
  BY <1>6, <1>t, SweepFits, QuietKeeps
<1>7. CASE Tick
  BY <1>7, TickKeeps
<1>8. CASE UNCHANGED vars
  BY <1>8 DEF vars, IInv, WaitingHoldsRecord, OneWaits, StatesAreOpen, WaitIsShort,
     StartHoldsRecord, StatusTells, SweptInTime, OneCodeOneInvestigation, TokenOnlyWhileUsable,
     ResultIsKept, Waiting, Lateness
<1> QED BY <1>1, <1>2, <1>3, <1>4, <1>5, <1>6, <1>7, <1>8 DEF Next

\* IInv, from which the safety theorems follow, is inductive.
THEOREM Invariance == Spec => [](TypeOK /\ IInv)
<1>1. Init => IInv
  BY NumberAssumption DEF Init, IInv, WaitingHoldsRecord, OneWaits, StatesAreOpen, WaitIsShort,
     StartHoldsRecord, StatusTells, SweptInTime, OneCodeOneInvestigation, TokenOnlyWhileUsable,
     ResultIsKept, Waiting, Awaiting, Unborn
<1>2. TypeOK /\ IInv /\ [Next]_vars => IInv'
  BY InvStep
<1> QED BY TypeCorrect, <1>1, <1>2, PTL DEF Spec

-----------------------------------------------------------------------------
\* A consent sends one code and drives one investigation, and its access token is
\* held exactly while it may be used, whatever interleaves (begin_callback,
\* authorize, claim_verification).
THEOREM OneCodeOneTokenHolds == Spec => []OneCodeOneToken
<1>1. IInv => OneCodeOneToken
  BY DEF IInv, OneCodeOneToken
<1> QED BY Invariance, <1>1, PTL

\* A record leaves the store only when it has been terminal for its retention, and
\* then leaves it in time, because no call in flight lasts as long as that.
THEOREM RecordsStand == Spec => []RecordsStandTheirTime
<1>1. TypeOK /\ IInv => RecordsStandTheirTime
  <2> SUFFICES ASSUME TypeOK, IInv, NEW c \in records
               PROVE  now <= rec[c].expiresAt + Lateness + Retention + SweepEvery
    BY DEF IInv, RecordsStandTheirTime, NoRecordOutstays
  <2> USE NumberAssumption DEF TypeOK, Record, IInv
  <2>1. Lateness \in Nat
    BY DEF Lateness
  <2>2. now <= sweepDue
    BY DEF SweptInTime
  <2>3. rec[c].status \in Live \cup Terminal
    BY DEF SweptInTime, Status
  <2>4. \/ sweepDue <= rec[c].expiresAt + SweepEvery
        \/ sweepDue <= rec[c].terminalAt + Retention + SweepEvery
           /\ rec[c].terminalAt <= rec[c].expiresAt + Lateness
    BY <2>3 DEF SweptInTime
  <2> QED BY <2>1, <2>2, <2>4
<1> QED BY Invariance, <1>1, PTL

\* An ended consent is never live again; only the call that was in flight when it
\* expired still revises it.
THEOREM ExpiryAloneIsRevised == Spec => OnlyExpiryIsRevised
<1> DEFINE Revision == \A c \in Consent :
             rec[c].status \in Terminal /\ rec'[c] # rec[c] =>
               rec[c].status = "EXPIRED" /\ rec'[c].status \in {"COMPLETED", "FAILED"}
<1>1. TypeOK /\ IInv /\ [Next]_vars => [Revision]_vars
  <2> SUFFICES ASSUME TypeOK, IInv, Next, NEW c \in Consent,
                      rec[c].status \in Terminal, rec'[c] # rec[c]
               PROVE  rec[c].status = "EXPIRED" /\ rec'[c].status \in {"COMPLETED", "FAILED"}
    OBVIOUS
  <2> USE DEF TypeOK, Live, Terminal
  <2>1. CASE Quiet
    <3>1. Kept(c) \/ EndsNow(c) \/ Authorizes(c)
      BY <2>1 DEF Quiet
    <3> QED BY <3>1 DEF Kept, EndsNow, Authorizes
  <2>2. ASSUME NEW d \in Consent, NEW o \in Owner, Create(d, o) PROVE FALSE
    <3>1. d # c /\ rec'[c] \in {rec[c], Expired(rec[c])}
      BY <2>2 DEF Create, Swept
    <3> QED BY <3>1, ExpiredIs
  <2>3. ASSUME NEW r \in Request, NEW d \in Consent, NEW withCode \in BOOLEAN,
               CallbackBegins(r, d, withCode)
        PROVE  FALSE
    <3>1. Expired(rec[d]).status = "PENDING" /\ (d # c => rec'[c] = rec[c])
      BY <2>3 DEF CallbackBegins, Put
    <3> QED BY <3>1, ExpiredIs DEF Ended
  <2>4. ASSUME NEW r \in Request, NEW d \in Consent, Verify(r, d) PROVE FALSE
    <3>1. Expired(rec[d]).status = "AUTHORIZED" /\ (d # c => rec'[c] = rec[c])
      BY <2>4 DEF Verify, Put
    <3> QED BY <3>1, ExpiredIs DEF Ended
  <2>5. ASSUME NEW r \in Request, Investigated(r) \/ Save(r) PROVE FALSE
    BY <2>5 DEF Investigated, Save, stores
  <2>6. CASE Tick
    BY <2>6 DEF Tick, stores
  <2> QED BY <2>1, <2>2, <2>3, <2>4, <2>5, <2>6, QuietSteps, SweepFits
          DEF Next, Callback, Resume
<1> QED BY Invariance, <1>1, PTL DEF Spec, OnlyExpiryIsRevised

=============================================================================
