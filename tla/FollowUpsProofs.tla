---------------------------- MODULE FollowUpsProofs ----------------------------
(***************************************************************************)
(* Proofs about FollowUps: the challenges (C) and the trust sessions (S),  *)
(* for every set of requests, keys and sessions and every window.          *)
(***************************************************************************)
EXTENDS FollowUps, SequenceTheorems, TLAPS

-----------------------------------------------------------------------------
(* Trust sessions *)

\* Terminating ends an active session once; expiring is terminating when due.
LEMMA TerminateIs ==
  ASSUME S!TypeOK, NEW s \in Session, NEW status \in S!Ending, S!Terminate(s, status)
  PROVE  \/ /\ S!Active(s)
            /\ sess' = [sess EXCEPT ![s] =
                          [status |-> status, owner |-> sess[s].owner, phone |-> FALSE,
                           expiresAt |-> sess[s].expiresAt, terminalAt |-> now]]
            /\ log' = [log EXCEPT ![s] = Append(log[s], S!EventOf(status))]
         \/ ~S!Active(s) /\ sess' = sess /\ log' = log
BY DEF S!Terminate

LEMMA ExpireIs ==
  ASSUME S!TypeOK, NEW s \in Session, S!ExpireIfDue(s)
  PROVE  \/ S!Due(s) /\ S!Terminate(s, "EXPIRED")
         \/ ~S!Due(s) /\ sess' = sess /\ log' = log
BY DEF S!ExpireIfDue

LEMMA SessionTypes ==
  ASSUME S!TypeOK, NEW s \in Session,
         \/ \E status \in S!Ending : S!Terminate(s, status)
         \/ S!ExpireIfDue(s)
  PROVE  sess' \in [Session -> S!Record] /\ log' \in [Session -> Seq(S!Event)]
<1>1. ASSUME NEW status \in S!Ending, S!Terminate(s, status)
      PROVE  sess' \in [Session -> S!Record] /\ log' \in [Session -> Seq(S!Event)]
  <2>1. [status |-> status, owner |-> sess[s].owner, phone |-> FALSE,
         expiresAt |-> sess[s].expiresAt, terminalAt |-> now] \in S!Record
    BY DEF S!TypeOK, S!Record
  <2>2. S!EventOf(status) \in S!Event
    BY DEF S!EventOf, S!Event, S!Ending
  <2>3. sess \in [Session -> S!Record] /\ log \in [Session -> Seq(S!Event)]
    BY DEF S!TypeOK
  <2>4. Append(log[s], S!EventOf(status)) \in Seq(S!Event)
    BY <2>2, <2>3
  <2>5. CASE S!Active(s)
    <3>1. /\ sess' = [sess EXCEPT ![s] =
                        [status |-> status, owner |-> sess[s].owner, phone |-> FALSE,
                         expiresAt |-> sess[s].expiresAt, terminalAt |-> now]]
          /\ log' = [log EXCEPT ![s] = Append(log[s], S!EventOf(status))]
      BY <1>1, <2>5, TerminateIs
    <3>2. sess' \in [Session -> S!Record]
      BY <2>1, <2>3, <3>1
    <3>3. log' \in [Session -> Seq(S!Event)]
      BY <2>3, <2>4, <3>1, Zenon
    <3> QED BY <3>2, <3>3
  <2>6. CASE ~S!Active(s)
    BY <1>1, <2>3, <2>6, TerminateIs
  <2> QED BY <2>5, <2>6
<1>2. "EXPIRED" \in S!Ending
  BY DEF S!Ending
<1> QED BY <1>1, <1>2, ExpireIs DEF S!TypeOK

\* What the monitor writes beside the record keeps its type.
LEMMA MonitorTypes ==
  ASSUME S!TypeOK, NEW s \in Session
  PROVE  /\ \A place \in S!Place : S!Goes(s, place) => monitor' \in [Session -> S!Place]
         /\ S!Sleeps(s) => monitor' \in [Session -> S!Place] /\ wake' \in [Session -> Nat]
         /\ \A place \in S!Place : S!Calls(s, place) =>
              monitor' \in [Session -> S!Place] /\ wake' \in [Session -> Nat]
              /\ calls' \in [Session -> Nat]
<1>1. /\ sess[s].expiresAt \in Nat /\ now \in Nat /\ now + Poll \in Nat /\ calls[s] + 1 \in Nat
      /\ monitor \in [Session -> S!Place] /\ wake \in [Session -> Nat]
      /\ calls \in [Session -> Nat]
  <2>1. Poll \in Nat
    BY SessionAssumption DEF S!NumberAssumption
  <2>2. sess[s].expiresAt \in Nat
    BY DEF S!TypeOK, S!Record
  <2> QED BY <2>1, <2>2 DEF S!TypeOK
<1>2. \A place \in S!Place : S!Goes(s, place) => monitor' \in [Session -> S!Place]
  BY <1>1 DEF S!Goes
<1>3. "sleeping" \in S!Place
  BY DEF S!Place
<1> QED BY <1>1, <1>2, <1>3 DEF S!Sleeps, S!Calls

LEMMA SessionTypeStep == S!TypeOK /\ [S!Next]_(S!vars) => S!TypeOK'
<1> SUFFICES ASSUME S!TypeOK, [S!Next]_(S!vars) PROVE S!TypeOK'
  OBVIOUS
<1> USE SessionAssumption DEF S!NumberAssumption, S!NoneAssumption
<1>e. {"EXPIRED", "REVOKED", "ENDED"} \subseteq S!Ending
      /\ {"ready", "sleeping", "sim", "device", "cancelled", "done"} \subseteq S!Place
  BY DEF S!Ending, S!Place
<1>h. ASSUME NEW s \in Session, S!LoopHead(s)
      PROVE  /\ sess' \in [Session -> S!Record] /\ log' \in [Session -> Seq(S!Event)]
             /\ monitor' \in [Session -> S!Place] /\ wake' \in [Session -> Nat]
  BY <1>e, <1>h, SessionTypes, MonitorTypes DEF S!LoopHead, S!TypeOK
<1>1. ASSUME NEW s \in Session, NEW o \in Owner, NEW ttl \in 1..MaxTTL, S!Create(s, o, ttl)
      PROVE  S!TypeOK'
  <2>1. [status |-> "ACTIVE", owner |-> o, phone |-> TRUE, expiresAt |-> now + ttl,
         terminalAt |-> 0] \in S!Record
    BY DEF S!Record, S!TypeOK
  <2>2. <<"started">> \in Seq(S!Event)
    BY DEF S!Event
  <2>3. monitor' \in [Session -> S!Place]
    BY <1>1, <1>e, MonitorTypes DEF S!Create
  <2> QED BY <1>1, <2>1, <2>2, <2>3 DEF S!Create, S!TypeOK
<1>2. ASSUME NEW o \in Owner, S!CreateRefused(o) PROVE S!TypeOK'
  BY <1>2 DEF S!CreateRefused, S!TypeOK
<1>3. CASE S!CreateCollides
  BY <1>3 DEF S!CreateCollides, S!TypeOK
<1>4. ASSUME NEW s \in Session, S!Read(s) PROVE S!TypeOK'
  BY <1>4, SessionTypes DEF S!Read, S!TypeOK
<1>5. ASSUME NEW s \in Session, S!End(s) PROVE S!TypeOK'
  <2>1. sess' \in [Session -> S!Record] /\ log' \in [Session -> Seq(S!Event)]
    BY <1>5, <1>e, SessionTypes DEF S!End
  <2>2. monitor' \in [Session -> S!Place]
    BY <1>5, <1>e, MonitorTypes DEF S!End, S!TypeOK
  <2> QED BY <1>5, <2>1, <2>2 DEF S!End, S!TypeOK
<1>6. ASSUME NEW s \in Session, S!Monitor(s) PROVE S!TypeOK'
  <2>1. CASE S!MonitorStarts(s)
    BY <2>1, <1>h DEF S!MonitorStarts, S!TypeOK
  <2>2. CASE S!MonitorWakes(s)
    <3>1. sess' \in [Session -> S!Record] /\ log' \in [Session -> Seq(S!Event)]
      BY <2>2, SessionTypes DEF S!MonitorWakes
    <3>2. /\ monitor' \in [Session -> S!Place] /\ wake' \in [Session -> Nat]
          /\ calls' \in [Session -> Nat]
      BY <2>2, <1>e, MonitorTypes DEF S!MonitorWakes, S!TypeOK
    <3> QED BY <2>2, <3>1, <3>2 DEF S!MonitorWakes, S!TypeOK
  <2>3. CASE S!MonitorFails(s)
    <3>1. /\ sess' \in [Session -> S!Record] /\ log' \in [Session -> Seq(S!Event)]
          /\ monitor' \in [Session -> S!Place]
      BY <2>3, <1>e, SessionTypes, MonitorTypes DEF S!MonitorFails
    <3> QED BY <2>3, <3>1 DEF S!MonitorFails, S!TypeOK
  <2>4. CASE S!MonitorCancelled(s)
    BY <2>4, <1>e, MonitorTypes DEF S!MonitorCancelled, S!TypeOK
  <2>5. ASSUME NEW flag \in BOOLEAN, S!SimAnswers(s, flag) PROVE S!TypeOK'
    <3>1. sess' \in [Session -> S!Record] /\ log' \in [Session -> Seq(S!Event)]
      BY <2>5, SessionTypes DEF S!SimAnswers
    <3>2. /\ monitor' \in [Session -> S!Place] /\ wake' \in [Session -> Nat]
          /\ calls' \in [Session -> Nat]
      BY <2>5, <1>e, MonitorTypes DEF S!SimAnswers, S!TypeOK
    <3> QED BY <2>5, <3>1, <3>2 DEF S!SimAnswers, S!TypeOK
  <2>6. ASSUME NEW flag \in BOOLEAN, S!DeviceAnswers(s, flag) PROVE S!TypeOK'
    <3>1. /\ sess' \in [Session -> S!Record] /\ log' \in [Session -> Seq(S!Event)]
          /\ monitor' \in [Session -> S!Place] /\ wake' \in [Session -> Nat]
      BY <2>6, <1>e, <1>h, SessionTypes, MonitorTypes DEF S!DeviceAnswers, S!TypeOK
    <3> QED BY <2>6, <3>1 DEF S!DeviceAnswers, S!TypeOK
  <2> QED BY <1>6, <2>1, <2>2, <2>3, <2>4, <2>5, <2>6 DEF S!Monitor
<1>7. CASE S!SweepLists
  BY <1>7 DEF S!SweepLists, S!TypeOK
<1>8. ASSUME NEW s \in Session, S!SweepLooks(s) PROVE S!TypeOK'
  BY <1>8 DEF S!SweepLooks, S!TypeOK
<1>9. CASE S!Tick
  BY <1>9 DEF S!Tick, S!TypeOK
<1>10. CASE UNCHANGED S!vars
  BY <1>10 DEF S!vars, S!TypeOK
<1> QED
  BY <1>1, <1>2, <1>3, <1>4, <1>5, <1>6, <1>7, <1>8, <1>9, <1>10 DEF S!Next, S!Sweeper

\* The events of a session that has ended, as OneTerminalEvent has them.
LEMMA EndedLog ==
  ASSUME NEW status \in S!Ending
  PROVE  Append(<<"started">>, S!EventOf(status)) = <<"started", S!EventOf(status)>>
<1> DEFINE e == S!EventOf(status)
<1>1. e \in S!Event /\ "started" \in S!Event
  BY DEF S!EventOf, S!Event, S!Ending
<1> HIDE DEF e
<1>2. <<"started">> \in Seq(S!Event) /\ <<"started", e>> \in Seq(S!Event)
  BY <1>1
<1>3. /\ Append(<<"started">>, e) \in Seq(S!Event)
      /\ Len(Append(<<"started">>, e)) = Len(<<"started", e>>)
      /\ Len(<<"started", e>>) = 2
  BY <1>1, <1>2
<1>4. \A i \in 1..Len(Append(<<"started">>, e)) :
        Append(<<"started">>, e)[i] = <<"started", e>>[i]
  BY <1>1, <1>2, <1>3
<1>5. Append(<<"started">>, e) = <<"started", e>>
  BY <1>2, <1>3, <1>4, SeqEqual, Zenon
<1> QED BY <1>5 DEF e

\* How one step leaves another session, and the session it ends.
SameSession(s) ==
  /\ sess'[s] = sess[s] /\ log'[s] = log[s]
  /\ monitor'[s] = monitor[s] /\ wake'[s] = wake[s]

EndsSession(s) ==
  /\ S!Active(s)
  /\ sess'[s].status \in S!Ending
  /\ ~sess'[s].phone
  /\ log'[s] = Append(log[s], S!EventOf(sess'[s].status))

\* Neither of the two: the record and its events stand, the task looks again.
Watches(s) ==
  /\ sess'[s] = sess[s] /\ log'[s] = log[s]
  /\ monitor'[s] # "none"
  /\ S!Active(s) =>
       monitor'[s] \in {"sleeping", "sim", "device"} /\ wake'[s] <= sess[s].expiresAt

LEMMA EndingIs ==
  ASSUME S!TypeOK, NEW s \in Session, monitor'[s] # "none",
         \/ \E status \in S!Ending : S!Terminate(s, status)
         \/ S!ExpireIfDue(s),
         ~(S!Active(s) /\ sess' = sess) \/
           (monitor'[s] \in {"sleeping", "sim", "device"} /\ wake'[s] <= sess[s].expiresAt)
  PROVE  /\ EndsSession(s) \/ Watches(s)
         /\ \A t \in Session \ {s} : sess'[t] = sess[t] /\ log'[t] = log[t]
<1>1. ASSUME NEW status \in S!Ending, S!Terminate(s, status), S!Active(s)
      PROVE  /\ EndsSession(s)
             /\ \A t \in Session \ {s} : sess'[t] = sess[t] /\ log'[t] = log[t]
  BY <1>1, TerminateIs DEF EndsSession, S!TypeOK
<1>2. CASE sess' = sess /\ log' = log
  BY <1>2 DEF Watches
<1>3. "EXPIRED" \in S!Ending
  BY DEF S!Ending
<1> QED BY <1>1, <1>2, <1>3, ExpireIs, TerminateIs

\* What a step on one session, other than its creation, comes to.
Touches(s) ==
  /\ SameSession(s) \/ EndsSession(s) \/ Watches(s)
  /\ (monitor[s] # "none" /\ monitor'[s] # "none") \/ SameSession(s)
  /\ \A t \in Session \ {s} : SameSession(t)
  /\ s \in kept \/ monitor[s] \notin {"none", "done"} \/ SameSession(s)
  /\ UNCHANGED <<kept, now>>

LEMMA SessionSteps ==
  ASSUME S!TypeOK, S!IInv, NEW s \in Session, S!Read(s) \/ S!End(s) \/ S!Monitor(s)
  PROVE  Touches(s)
<1> USE DEF S!IInv
<1>t. /\ monitor \in [Session -> S!Place] /\ wake \in [Session -> Nat]
      /\ sess \in [Session -> S!Record] /\ now \in Nat /\ sess[s].expiresAt \in Nat
      /\ Poll \in Nat
  <2>1. sess \in [Session -> S!Record]
    BY DEF S!TypeOK
  <2>2. sess[s].expiresAt \in Nat
    BY <2>1 DEF S!Record
  <2> QED BY <2>1, <2>2, SessionAssumption DEF S!TypeOK, S!NumberAssumption
<1>e. {"EXPIRED", "REVOKED", "ENDED"} \subseteq S!Ending /\ "ACTIVE" \notin S!Ending
  BY DEF S!Ending
<1>w. ASSUME S!Active(s)
      PROVE  /\ monitor[s] \in {"ready", "sleeping", "sim", "device"}
             /\ monitor[s] # "ready" => wake[s] <= sess[s].expiresAt
  BY <1>w DEF S!TrustIsWatched
<1>x. ASSUME S!ExpireIfDue(s), S!Due(s) PROVE ~(S!Active(s) /\ sess' = sess)
  <2> SUFFICES ASSUME S!Active(s), sess' = sess PROVE FALSE
    OBVIOUS
  <2>1. S!Terminate(s, "EXPIRED")
    BY <1>x DEF S!ExpireIfDue
  <2>2. sess'[s].status = "EXPIRED"
    BY <1>t, <1>e, <2>1, TerminateIs
  <2> QED BY <2>2 DEF S!Active
<1>r. ASSUME S!Terminate(s, "REVOKED") PROVE ~(S!Active(s) /\ sess' = sess)
  <2> SUFFICES ASSUME S!Active(s), sess' = sess PROVE FALSE
    OBVIOUS
  <2>1. sess'[s].status = "REVOKED"
    BY <1>r, <1>t, <1>e, TerminateIs
  <2> QED BY <2>1 DEF S!Active
<1>h. ASSUME S!LoopHead(s)
      PROVE  /\ EndsSession(s) \/ Watches(s)
             /\ monitor'[s] # "none"
             /\ \A t \in Session \ {s} : SameSession(t)
  <2>1. CASE S!Active(s) /\ ~S!Due(s)
    <3>1. monitor'[s] = "sleeping" /\ wake'[s] <= sess[s].expiresAt
      BY <1>h, <1>t, <2>1 DEF S!LoopHead, S!Sleeps, S!Goes
    <3>2. \A t \in Session \ {s} : monitor'[t] = monitor[t] /\ wake'[t] = wake[t]
      BY <1>h, <1>t, <2>1 DEF S!LoopHead, S!Sleeps, S!Goes
    <3> QED BY <1>h, <3>1, <3>2, EndingIs DEF S!LoopHead, SameSession
  <2>2. CASE ~(S!Active(s) /\ ~S!Due(s))
    <3>1. monitor'[s] = "done" /\ \A t \in Session \ {s} : monitor'[t] = monitor[t] /\ wake' = wake
      BY <1>h, <1>t, <2>2 DEF S!LoopHead, S!Goes
    <3>2. ~(S!Active(s) /\ sess' = sess)
      BY <1>h, <1>x, <2>2 DEF S!LoopHead
    <3> QED BY <1>h, <3>1, <3>2, EndingIs DEF S!LoopHead, SameSession
  <2> QED BY <2>1, <2>2
<1>1. CASE S!Read(s)
  <2>1. s \in kept /\ S!ExpireIfDue(s) /\ UNCHANGED <<kept, monitor, wake, now>>
    BY <1>1 DEF S!Read
  <2>2. CASE sess' = sess /\ log' = log
    BY <2>1, <2>2 DEF Touches, SameSession
  <2>3. CASE S!Terminate(s, "EXPIRED") /\ S!Active(s)
    <3>1. monitor'[s] # "none"
      BY <1>w, <2>1, <2>3
    <3>2. EndsSession(s) /\ \A t \in Session \ {s} : sess'[t] = sess[t] /\ log'[t] = log[t]
      BY <1>e, <2>3, TerminateIs DEF EndsSession, S!TypeOK
    <3> QED BY <2>1, <3>1, <3>2 DEF Touches, SameSession
  <2> QED BY <1>e, <2>1, <2>2, <2>3, ExpireIs, TerminateIs
<1>2. CASE S!End(s)
  <2>1. s \in kept /\ UNCHANGED <<kept, wake, now>>
    BY <1>2 DEF S!End
  <2>2. CASE S!Active(s) /\ ~S!Due(s)
    <3>1. S!Terminate(s, "ENDED") /\ monitor' = [monitor EXCEPT ![s] = "cancelled"]
      BY <1>2, <1>w, <2>2 DEF S!End, S!Goes
    <3>2. EndsSession(s) /\ \A t \in Session \ {s} : sess'[t] = sess[t] /\ log'[t] = log[t]
      BY <1>e, <2>2, <3>1, TerminateIs DEF EndsSession, S!TypeOK
    <3>3. monitor[s] # "none"
      BY <1>w, <2>2
    <3> QED BY <1>t, <2>1, <3>1, <3>2, <3>3 DEF Touches, SameSession
  <2>3. CASE ~(S!Active(s) /\ ~S!Due(s))
    <3>1. S!ExpireIfDue(s) /\ monitor' = monitor
      BY <1>2, <2>3 DEF S!End
    <3>2. CASE sess' = sess /\ log' = log
      BY <2>1, <3>1, <3>2 DEF Touches, SameSession
    <3>3. CASE S!Terminate(s, "EXPIRED") /\ S!Active(s)
      <4>1. monitor'[s] # "none"
        BY <1>w, <3>1, <3>3
      <4>2. EndsSession(s) /\ \A t \in Session \ {s} : sess'[t] = sess[t] /\ log'[t] = log[t]
        BY <1>e, <3>3, TerminateIs DEF EndsSession, S!TypeOK
      <4> QED BY <2>1, <3>1, <4>1, <4>2 DEF Touches, SameSession
    <3> QED BY <1>e, <3>1, <3>2, <3>3, ExpireIs, TerminateIs
  <2> QED BY <2>2, <2>3
<1>3. CASE S!MonitorStarts(s)
  BY <1>3, <1>h DEF S!MonitorStarts, Touches
<1>4. ASSUME S!ExpireIfDue(s), NEW place \in {"sim", "device"},
             IF S!Active(s) /\ ~S!Due(s) THEN S!Calls(s, place)
             ELSE S!Goes(s, "done") /\ UNCHANGED <<wake, calls>>
      PROVE  /\ EndsSession(s) \/ Watches(s)
             /\ monitor'[s] # "none"
             /\ \A t \in Session \ {s} : SameSession(t)
  <2>1. CASE S!Active(s) /\ ~S!Due(s)
    <3>1. monitor'[s] = place /\ wake'[s] <= sess[s].expiresAt
      BY <1>4, <1>t, <2>1 DEF S!Calls, S!Goes, S!Due
    <3>2. \A t \in Session \ {s} : monitor'[t] = monitor[t] /\ wake'[t] = wake[t]
      BY <1>4, <1>t, <2>1 DEF S!Calls, S!Goes
    <3> QED BY <1>4, <3>1, <3>2, EndingIs DEF SameSession
  <2>2. CASE ~(S!Active(s) /\ ~S!Due(s))
    <3>1. monitor'[s] = "done" /\ \A t \in Session \ {s} : monitor'[t] = monitor[t] /\ wake' = wake
      BY <1>4, <1>t, <2>2 DEF S!Goes
    <3>2. ~(S!Active(s) /\ sess' = sess)
      BY <1>4, <1>x, <2>2
    <3> QED BY <1>4, <3>1, <3>2, EndingIs DEF SameSession
  <2> QED BY <2>1, <2>2
<1>5. CASE S!MonitorWakes(s)
  BY <1>4, <1>5 DEF S!MonitorWakes, Touches
<1>6. ASSUME NEW flag \in BOOLEAN, S!SimAnswers(s, flag) PROVE Touches(s)
  BY <1>4, <1>6 DEF S!SimAnswers, Touches
<1>7. ASSUME S!Terminate(s, "REVOKED"), S!Goes(s, "done"), UNCHANGED wake
      PROVE  /\ EndsSession(s) \/ Watches(s)
             /\ monitor'[s] # "none"
             /\ \A t \in Session \ {s} : SameSession(t)
  <2>1. monitor'[s] = "done" /\ \A t \in Session \ {s} : monitor'[t] = monitor[t] /\ wake' = wake
    BY <1>7, <1>t DEF S!Goes
  <2> QED BY <1>7, <1>e, <1>r, <2>1, EndingIs DEF SameSession
<1>8. ASSUME NEW flag \in BOOLEAN, S!DeviceAnswers(s, flag) PROVE Touches(s)
  <2>1. CASE flagged[s] \/ flag
    BY <1>7, <1>8, <2>1 DEF S!DeviceAnswers, Touches
  <2>2. CASE ~(flagged[s] \/ flag)
    BY <1>h, <1>8, <2>2 DEF S!DeviceAnswers, Touches
  <2> QED BY <2>1, <2>2
<1>9. CASE S!MonitorFails(s)
  BY <1>7, <1>9 DEF S!MonitorFails, Touches
<1>10. CASE S!MonitorCancelled(s)
  <2>1. ~S!Active(s)
    BY <1>w, <1>10 DEF S!MonitorCancelled
  <2>2. /\ monitor[s] = "cancelled" /\ monitor' = [monitor EXCEPT ![s] = "done"]
        /\ UNCHANGED <<sess, log, wake, kept, now>>
    BY <1>10 DEF S!MonitorCancelled, S!Goes
  <2> QED BY <1>t, <2>1, <2>2 DEF Touches, Watches, SameSession
<1> QED BY <1>1, <1>2, <1>3, <1>5, <1>6, <1>8, <1>9, <1>10 DEF S!Monitor


LEMMA TouchesKeeps ==
  ASSUME S!TypeOK, S!TypeOK', S!IInv, NEW s \in Session, Touches(s)
  PROVE  S!IInv'
<1> USE SessionAssumption DEF S!IInv, S!NumberAssumption
<1>t. /\ \A t \in Session : sess[t].expiresAt \in Nat /\ sess[t].terminalAt \in Nat
      /\ \A t \in Session : sess[t].status \in {"none", "ACTIVE"} \cup S!Ending
      /\ now' = now /\ now \in Nat /\ kept' = kept
  BY DEF S!TypeOK, S!Record, Touches
<1>e. "ACTIVE" \notin S!Ending /\ "none" \notin S!Ending
  BY DEF S!Ending
<1>1. CASE SameSession(s)
  <2>1. \A t \in Session : SameSession(t)
    BY <1>1 DEF Touches
  <2> QED BY <1>t, <2>1 DEF SameSession, S!TrustIsWatched, S!SessionsHaveTasks, S!TrustEndsOnTime,
             S!OneTerminalEvent, S!NumberIsForgotten, S!EndingIsObservable, S!Active
<1>2. CASE ~SameSession(s)
  <2>1. \A t \in Session \ {s} : SameSession(t)
    BY DEF Touches
  <2>2. s \in kept
    <3>1. s \in kept \/ monitor[s] \notin {"none", "done"}
      BY <1>2 DEF Touches
    <3>2. monitor[s] # "none" => sess[s].status # "none"
      BY DEF S!SessionsHaveTasks
    <3> QED BY <3>1, <3>2 DEF S!EndingIsObservable
  <2>3. EndsSession(s) \/ Watches(s)
    BY <1>2 DEF Touches
  <2>4. S!TrustIsWatched'
    BY <1>e, <1>t, <2>1, <2>3 DEF S!TrustIsWatched, SameSession, EndsSession, Watches, S!Active
  <2>5. S!SessionsHaveTasks'
    <3>1. monitor[s] # "none" /\ monitor'[s] # "none"
      BY <1>2 DEF Touches
    <3> QED BY <1>e, <1>2, <2>1, <2>3, <3>1
            DEF S!SessionsHaveTasks, SameSession, EndsSession, Watches, S!Active
  <2>6. S!TrustEndsOnTime'
    BY <1>e, <1>t, <2>1, <2>3 DEF S!TrustEndsOnTime, SameSession, EndsSession, Watches, S!Active
  <2>7. S!OneTerminalEvent'
    <3>1. \A t \in Session \ {s} : /\ sess'[t] = sess[t] /\ log'[t] = log[t]
      BY <2>1 DEF SameSession
    <3>2. CASE Watches(s)
      BY <3>1, <3>2 DEF Watches, S!OneTerminalEvent, S!Active
    <3>3. CASE EndsSession(s)
      <4>1. log[s] = <<"started">>
        BY <3>3 DEF EndsSession, S!OneTerminalEvent
      <4>2. sess'[s].status \in S!Ending
        BY <3>3 DEF EndsSession
      <4>3. log'[s] = <<"started", S!EventOf(sess'[s].status)>>
        BY <3>3, <4>1, <4>2, EndedLog DEF EndsSession
      <4> QED BY <1>e, <3>1, <3>3, <4>3 DEF EndsSession, S!OneTerminalEvent, S!Active
    <3> QED BY <2>3, <3>2, <3>3
  <2>8. S!NumberIsForgotten'
    BY <1>e, <2>1, <2>3 DEF S!NumberIsForgotten, SameSession, EndsSession, Watches, S!Active
  <2>9. S!EndingIsObservable'
    BY <1>t, <2>1, <2>2 DEF S!EndingIsObservable, SameSession
  <2> QED BY <2>4, <2>5, <2>6, <2>7, <2>8, <2>9
<1> QED BY <1>1, <1>2

\* Pruning takes only what may go, and nothing else changes.
LEMMA PruneKeeps ==
  ASSUME S!TypeOK, S!IInv, kept' \subseteq kept, \A s \in kept \ kept' : S!Prunable(s),
         UNCHANGED <<sess, monitor, wake, now, log>>
  PROVE  S!IInv'
<1> USE DEF S!IInv
<1>1. S!EndingIsObservable'
  <2> SUFFICES ASSUME NEW s \in Session, sess[s].status # "none", s \notin kept'
               PROVE  /\ sess[s].status \in S!Ending
                      /\ sess[s].terminalAt + Retention <= now
                      /\ monitor[s] = "done"
    BY DEF S!EndingIsObservable
  <2> QED BY DEF S!EndingIsObservable, S!Prunable, S!SessionsHaveTasks
<1> QED BY <1>1 DEF S!TrustIsWatched, S!SessionsHaveTasks, S!TrustEndsOnTime,
           S!OneTerminalEvent, S!NumberIsForgotten, S!Active

LEMMA SessionInvStep == S!TypeOK /\ S!IInv /\ [S!Next]_(S!vars) => S!IInv'
<1> SUFFICES ASSUME S!TypeOK, S!IInv, [S!Next]_(S!vars) PROVE S!IInv'
  OBVIOUS
<1>t. S!TypeOK'
  BY SessionTypeStep
<1> USE SessionAssumption DEF S!NumberAssumption
<1>e. "ACTIVE" \notin S!Ending /\ "none" \notin S!Ending
  BY DEF S!Ending
<1>1. ASSUME NEW s \in Session, NEW o \in Owner, NEW ttl \in 1..MaxTTL, S!Create(s, o, ttl)
      PROVE  S!IInv'
  <2> USE DEF S!IInv
  <2>1. /\ sess[s].status = "none"
        /\ sess'[s].status = "ACTIVE" /\ sess'[s].phone /\ sess'[s].expiresAt = now + ttl
        /\ log'[s] = <<"started">> /\ monitor'[s] = "ready"
        /\ \A t \in Session \ {s} : SameSession(t)
        /\ now' = now /\ s \in kept'
    BY <1>1 DEF S!Create, S!Goes, S!TypeOK, SameSession
  <2>2. \A t \in kept \ kept' : S!Prunable(t)
    BY <1>1 DEF S!Create
  <2>3. now \in Nat /\ now + ttl \in Nat /\ now <= now + ttl /\ now <= now + ttl + MaxCall
    <3>1. now \in Nat
      BY DEF S!TypeOK
    <3> QED BY <3>1
  <2>4. S!TrustIsWatched' /\ S!TrustEndsOnTime'
    BY <2>1, <2>3 DEF S!TrustIsWatched, S!TrustEndsOnTime, SameSession, S!Active
  <2>5. S!SessionsHaveTasks' /\ S!NumberIsForgotten'
    BY <2>1 DEF S!SessionsHaveTasks, S!NumberIsForgotten, SameSession, S!Active
  <2>6. S!OneTerminalEvent'
    BY <1>e, <2>1 DEF S!OneTerminalEvent, SameSession, S!Active
  <2>7. S!EndingIsObservable'
    BY <2>1, <2>2 DEF S!EndingIsObservable, S!Prunable, S!SessionsHaveTasks, SameSession
  <2> QED BY <2>4, <2>5, <2>6, <2>7
<1>2. ASSUME NEW o \in Owner, S!CreateRefused(o) PROVE S!IInv'
  BY <1>2, PruneKeeps DEF S!CreateRefused
<1>3. CASE S!CreateCollides
  BY <1>3, PruneKeeps DEF S!CreateCollides
<1>4. ASSUME NEW s \in Session, S!Read(s) \/ S!End(s) \/ S!Monitor(s) PROVE S!IInv'
  BY <1>4, <1>t, SessionSteps, TouchesKeeps
<1>5. CASE S!SweepLists
  BY <1>5, PruneKeeps DEF S!SweepLists
<1>6. ASSUME NEW s \in Session, S!SweepLooks(s) PROVE S!IInv'
  BY <1>6, PruneKeeps DEF S!SweepLooks
<1>7. CASE S!Tick
  <2> USE DEF S!IInv
  <2>1. now' = now + 1 /\ UNCHANGED <<sess, kept, monitor, wake, log>>
    BY <1>7 DEF S!Tick
  <2>2. ASSUME NEW s \in Session, S!Active(s)
        PROVE  now + 1 <= sess[s].expiresAt + MaxCall /\ monitor[s] # "ready"
    <3>1. now \in Nat /\ sess[s].expiresAt \in Nat /\ wake[s] \in Nat
      BY DEF S!TypeOK, S!Record
    <3>2. \/ monitor[s] = "sleeping" /\ wake[s] <= sess[s].expiresAt
          \/ monitor[s] \in {"sim", "device"} /\ wake[s] <= sess[s].expiresAt
      BY <1>7, <2>2 DEF S!Tick, S!TrustIsWatched
    <3>3. /\ monitor[s] = "sleeping" => now < wake[s]
          /\ monitor[s] \in {"sim", "device"} => now < wake[s] + MaxCall
      BY <1>7 DEF S!Tick
    <3> QED BY <3>1, <3>2, <3>3
  <2>3. S!TrustIsWatched' /\ S!TrustEndsOnTime'
    BY <2>1, <2>2 DEF S!TrustIsWatched, S!TrustEndsOnTime, S!Active
  <2>4. S!EndingIsObservable'
    <3>1. now \in Nat /\ \A s \in Session : sess[s].terminalAt \in Nat
      BY DEF S!TypeOK, S!Record
    <3> QED BY <2>1, <3>1 DEF S!EndingIsObservable
  <2> QED BY <2>1, <2>3, <2>4 DEF S!SessionsHaveTasks, S!OneTerminalEvent, S!NumberIsForgotten,
             S!Active
<1>8. CASE UNCHANGED S!vars
  BY <1>8, PruneKeeps DEF S!vars
<1> QED BY <1>1, <1>2, <1>3, <1>4, <1>5, <1>6, <1>7, <1>8 DEF S!Next, S!Sweeper

\* The sessions' variables have their types, and IInv of Sessions is inductive.
THEOREM SessionInvariance == Spec => [](S!TypeOK /\ S!IInv)
<1>1. Init => S!TypeOK
  BY SessionAssumption DEF Init, S!Init, S!TypeOK, S!Record, S!Place, S!NumberAssumption
<1>2. Init => S!IInv
  BY DEF Init, S!Init, S!IInv, S!TrustIsWatched, S!SessionsHaveTasks, S!TrustEndsOnTime,
     S!OneTerminalEvent, S!NumberIsForgotten, S!EndingIsObservable, S!Active, S!Ending
<1>3. [Next]_vars => [S!Next]_(S!vars)
  BY DEF Next, vars, sessionVars, S!vars
<1> QED BY <1>1, <1>2, <1>3, SessionTypeStep, SessionInvStep, PTL DEF Spec

\* Trust outlives its deadline by one operator call at most, and the number is
\* held exactly as long (_run, _terminate).
THEOREM TrustEnds == Spec => []TrustEndsOnTime
<1>1. S!IInv => TrustEndsOnTime
  BY DEF S!IInv, TrustEndsOnTime
<1> QED BY SessionInvariance, <1>1, PTL

\* However many paths discover an ending, it is told once, and it can be seen for
\* the retention, whichever prune comes first (_terminate, prune).
THEOREM EndingsAreToldOnce == Spec => []EndingIsToldOnce
<1>1. S!IInv => EndingIsToldOnce
  BY DEF S!IInv, EndingIsToldOnce
<1> QED BY SessionInvariance, <1>1, PTL

\* No operator call begins about a session that is over or past its deadline.
THEOREM CallsEndWithTrust == Spec => NoCallAfterTrust
<1> DEFINE Trusted == \A s \in Session : calls'[s] # calls[s] => S!Active(s) /\ ~S!Due(s)
<1>1. S!TypeOK /\ [Next]_vars => [Trusted]_(S!vars)
  <2> SUFFICES ASSUME S!TypeOK, S!Next, NEW s \in Session, calls'[s] # calls[s]
               PROVE  S!Active(s) /\ ~S!Due(s)
    BY DEF Next, vars, sessionVars, S!vars
  <2>1. ASSUME NEW t \in Session, S!Monitor(t) PROVE S!Active(s) /\ ~S!Due(s)
    <3>1. CASE S!MonitorWakes(t)
      BY <2>1, <3>1 DEF S!MonitorWakes, S!Calls, S!TypeOK
    <3>2. ASSUME NEW flag \in BOOLEAN, S!SimAnswers(t, flag) PROVE S!Active(s) /\ ~S!Due(s)
      BY <3>2 DEF S!SimAnswers, S!Calls, S!TypeOK
    <3> QED BY <2>1, <3>1, <3>2 DEF S!Monitor, S!MonitorStarts, S!MonitorFails,
               S!MonitorCancelled, S!DeviceAnswers
  <2> QED BY <2>1 DEF S!Next, S!Create, S!CreateRefused, S!CreateCollides, S!Read, S!End,
             S!Sweeper, S!SweepLists, S!SweepLooks, S!Tick
<1> QED BY SessionInvariance, <1>1, PTL DEF Spec, NoCallAfterTrust, S!NoCallAfterTrust

-----------------------------------------------------------------------------
(* Challenges *)

\* The parts of TypeOK the steps below look at.
LEMMA ChallengeTypes ==
  ASSUME C!TypeOK
  PROVE  /\ attempts \in [Creator -> C!Attempt]
         /\ \A a \in Creator : /\ attempts[a].status \in C!Status
                               /\ attempts[a].expiresAt \in Nat
                               /\ attempts[a].terminalAt \in Nat
         /\ \A r \in C!Request : /\ ctx[r] = [key |-> ctx[r].key, target |-> ctx[r].target,
                                              value |-> ctx[r].value]
                                 /\ ctx[r].target \in Creator \cup {None}
                                 /\ ctx[r].value \in C!Value \cup {None}
                                 /\ pc[r] # "idle" => ctx[r].key \in Key
                                 /\ at[r] \in Nat /\ wroteAt[r] \in Nat
                                 /\ C!OperationOf(r) \in C!Operation
         /\ challengeNow \in Nat
<1>1. attempts \in [Creator -> C!Attempt]
  BY DEF C!TypeOK
<1>2. ctx \in [C!Request -> [key : Key \cup {None}, target : Creator \cup {None},
                             value : C!Value \cup {None}]]
  BY DEF C!TypeOK
<1>3. \A a \in Creator : /\ attempts[a].status \in C!Status
                         /\ attempts[a].expiresAt \in Nat
                         /\ attempts[a].terminalAt \in Nat
  BY <1>1 DEF C!Attempt
<1>4. \A r \in C!Request : /\ ctx[r] = [key |-> ctx[r].key, target |-> ctx[r].target,
                                        value |-> ctx[r].value]
                           /\ ctx[r].target \in Creator \cup {None}
                           /\ ctx[r].value \in C!Value \cup {None}
  BY <1>2
<1> QED BY <1>1, <1>3, <1>4 DEF C!TypeOK, C!OperationOf, C!Operation

\* Telling and moving on change one request's place, answer and clock.
LEMMA TellIs ==
  ASSUME C!TypeOK, NEW r \in C!Request, NEW kind, NEW by, C!Tell(r, kind, by)
  PROVE  /\ answer'[r] = [kind |-> kind, by |-> by] /\ pc'[r] = "over"
         /\ \A q \in C!Request \ {r} :
              answer'[q] = answer[q] /\ pc'[q] = pc[q] /\ at'[q] = at[q]
BY DEF C!Tell, C!Go, C!TypeOK

\* A request is bound to what it asks.
LEMMA ArriveIs ==
  ASSUME NEW r \in C!Request, C!Arrive(r)
  PROVE  \E ask \in C!CreateAsk \cup C!ReportAsk :
           /\ r \in Reporter => ask \in C!ReportAsk
           /\ ctx' = [ctx EXCEPT ![r] = ask]
<1>1. PICK asks \in Asks : r \in DOMAIN asks /\ ctx' = [ctx EXCEPT ![r] = asks[r]]
  BY DEF C!Arrive
<1>2. asks[r] \in IF r \in Creator THEN C!CreateAsk ELSE C!ReportAsk
  BY <1>1, ChallengeAssumption DEF C!AskAssumption
<1>3. r \in Reporter => r \notin Creator
  BY ChallengeAssumption DEF C!NameAssumption
<1> QED BY <1>1, <1>2, <1>3

LEMMA GoIs ==
  ASSUME C!TypeOK, NEW r \in C!Request, NEW place, C!Go(r, place)
  PROVE  pc'[r] = place /\ \A q \in C!Request \ {r} : pc'[q] = pc[q]
BY DEF C!Go, C!TypeOK

\* What a request that writes leaves.
LEMMA SaveIs ==
  ASSUME C!TypeOK, NEW r \in C!Request, pc[r] = "write", C!SaveAnswer(r)
  PROVE  /\ C!SavedFor(r) = C!Nothing
         /\ \A o \in C!Operation, k \in Key :
              idem'[o][k] = IF o = C!OperationOf(r) /\ k = ctx[r].key
                            THEN [by |-> r, target |-> ctx[r].target, value |-> ctx[r].value,
                                  at |-> challengeNow]
                            ELSE idem[o][k]
         /\ wroteAt'[r] = challengeNow
         /\ \A q \in C!Request \ {r} : wroteAt'[q] = wroteAt[q]
         /\ C!Tell(r, "ok", r)
<1>1. idem \in [C!Operation -> [Key -> C!Saved]] /\ wroteAt \in [C!Request -> Nat]
      /\ C!OperationOf(r) \in C!Operation /\ ctx[r].key \in Key
  BY ChallengeTypes DEF C!TypeOK
<1> QED BY <1>1 DEF C!SaveAnswer

(* What a key answers *)

\* A step of a request that writes nothing: it is told nothing, a refusal, or
\* the write that its key holds.
ToldWhat(r) ==
  \/ answer'[r] = answer[r]
  \/ /\ pc'[r] = "over" /\ ctx'[r] = ctx[r] /\ pc[r] # "idle"
     /\ \/ answer'[r].kind \notin {"none", "ok"} /\ answer'[r].by = None
        \/ /\ C!SavedFor(r) # C!Nothing /\ C!SameRequest(r)
           /\ answer'[r] = [kind |-> "ok", by |-> C!SavedFor(r).by]

\* The invariants about answers.
Answers ==
  /\ C!RecordsAreWrites
  /\ C!AnswersAreFinal
  /\ C!AnswersAgree

LEMMA AnsweredIsOver ==
  ASSUME C!TypeOK, Answers, NEW r \in C!Request, pc[r] # "over"
  PROVE  /\ answer[r].kind = "none" /\ answer[r].by = None
         /\ \A q \in C!Request : answer[q].by # r
         /\ \A o \in C!Operation, k \in Key : idem[o][k] # C!Nothing => idem[o][k].by # r
<1> USE DEF Answers
<1>1. answer[r].kind = "none" /\ answer[r].by = None
  <2>1. answer[r] \in [kind : C!AnswerKind, by : C!Request \cup {None}]
    BY DEF C!TypeOK
  <2> QED BY <2>1 DEF C!AnswersAreFinal
<1>2. None \notin C!Request
  BY ChallengeAssumption DEF C!NameAssumption
<1>3. ASSUME NEW q \in C!Request, answer[q].by = r PROVE FALSE
  <2>1. answer[q].kind = "ok"
    BY <1>2, <1>3 DEF C!AnswersAreFinal
  <2>2. answer[r] = [kind |-> "ok", by |-> r]
    BY <1>3, <2>1 DEF C!AnswersAgree
  <2> QED BY <1>1, <2>2
<1>4. ASSUME NEW o \in C!Operation, NEW k \in Key, idem[o][k] # C!Nothing, idem[o][k].by = r
      PROVE  FALSE
  <2>1. answer[idem[o][k].by] = [kind |-> "ok", by |-> idem[o][k].by]
    BY <1>4 DEF C!RecordsAreWrites
  <2>2. answer[r].kind = "ok"
    BY <1>4, <2>1
  <2> QED BY <1>1, <2>2
<1> QED BY <1>1, <1>3, <1>4

LEMMA AnswersKept ==
  ASSUME C!TypeOK, Answers, NEW r \in C!Request, pc[r] # "over", ToldWhat(r),
         \A q \in C!Request \ {r} :
           answer'[q] = answer[q] /\ ctx'[q] = ctx[q] /\ pc'[q] = pc[q],
         UNCHANGED <<idem, wroteAt, challengeNow>>
  PROVE  Answers'
<1> USE DEF Answers
<1>n. None \notin C!Request
  BY ChallengeAssumption DEF C!NameAssumption
<1>o. /\ answer[r].kind = "none" /\ answer[r].by = None
      /\ \A q \in C!Request : answer[q].by # r
      /\ \A o \in C!Operation, k \in Key : idem[o][k] # C!Nothing => idem[o][k].by # r
  BY AnsweredIsOver
<1>k. \A q \in C!Request : C!OperationOf(q) \in C!Operation
  BY DEF C!OperationOf, C!Operation
<1>1. C!RecordsAreWrites'
  <2> SUFFICES ASSUME NEW o \in C!Operation, NEW k \in Key, idem[o][k] # C!Nothing
               PROVE  /\ idem[o][k].by \in C!Request /\ C!OperationOf(idem[o][k].by) = o
                      /\ ctx'[idem[o][k].by] =
                           [key |-> k, target |-> idem[o][k].target, value |-> idem[o][k].value]
                      /\ answer'[idem[o][k].by] = [kind |-> "ok", by |-> idem[o][k].by]
                      /\ idem[o][k].at = wroteAt[idem[o][k].by]
                      /\ o = "event" =>
                           idem[o][k].target \in Creator /\ pc'[idem[o][k].target] = "over"
    BY DEF C!RecordsAreWrites, C!Nothing, C!OperationOf
  <2>1. idem[o][k].by \in C!Request \ {r}
    BY <1>o DEF C!RecordsAreWrites
  <2>2. o = "event" => idem[o][k].target \in C!Request /\ pc[idem[o][k].target] = "over"
    BY DEF C!RecordsAreWrites, C!Request
  <2> QED BY <2>1, <2>2 DEF C!RecordsAreWrites
<1>2. CASE answer'[r] = answer[r]
  <2>1. C!AnswersAreFinal'
    BY <1>2, <1>o, <1>n DEF C!AnswersAreFinal, C!SavedFor
  <2>2. C!AnswersAgree'
    BY <1>2, <1>o, <1>n DEF C!AnswersAgree, C!AnswersAreFinal
  <2> QED BY <1>1, <2>1, <2>2
<1>3. CASE answer'[r] # answer[r]
  <2> DEFINE b == C!SavedFor(r).by
  <2>1. /\ pc'[r] = "over" /\ ctx' [r] = ctx[r] /\ pc[r] # "idle"
        /\ \/ answer'[r].kind \notin {"none", "ok"} /\ answer'[r].by = None
           \/ /\ C!SavedFor(r) # C!Nothing /\ C!SameRequest(r)
              /\ answer'[r] = [kind |-> "ok", by |-> b]
    BY <1>3 DEF ToldWhat
  <2>2. ASSUME answer'[r].kind = "ok"
        PROVE  /\ b \in C!Request \ {r} /\ answer'[r].by = b
               /\ answer[b] = [kind |-> "ok", by |-> b]
               /\ ctx[b] = ctx[r] /\ C!OperationOf(b) = C!OperationOf(r)
    <3>1. /\ C!SavedFor(r) # C!Nothing /\ C!SameRequest(r)
          /\ answer'[r] = [kind |-> "ok", by |-> b]
      BY <2>1, <2>2
    <3>2. ctx[r].key \in Key
      BY <2>1, ChallengeTypes
    <3>3. /\ b \in C!Request /\ C!OperationOf(b) = C!OperationOf(r) /\ b # r
          /\ answer[b] = [kind |-> "ok", by |-> b]
          /\ ctx[b] = [key |-> ctx[r].key, target |-> C!SavedFor(r).target,
                       value |-> C!SavedFor(r).value]
      BY <1>k, <1>o, <3>1, <3>2 DEF C!RecordsAreWrites, C!SavedFor
    <3>4. ctx[b] = ctx[r]
      BY <3>1, <3>3, ChallengeTypes DEF C!SameRequest
    <3> QED BY <3>1, <3>3, <3>4
  <2>3. answer'[r].by # r
    BY <1>n, <2>1, <2>2
  <2>4. answer'[r].kind # "none" /\ (answer'[r].by # None => answer'[r].kind = "ok")
    BY <2>1
  <2>5. \A q \in C!Request : ctx'[q] = ctx[q] /\ (pc[q] = "over" => pc'[q] = "over")
    BY <2>1
  <2>6. C!AnswersAreFinal'
    <3> SUFFICES ASSUME NEW q \in C!Request
                 PROVE  /\ answer'[q].kind # "none" => pc'[q] = "over"
                        /\ answer'[q].by # None => answer'[q].kind = "ok"
                        /\ answer'[q].kind = "ok" => answer'[q].by \in C!Request
                        /\ answer'[q].by = q =>
                             C!SavedFor(q)'.by = q \/ wroteAt[q] + KeyTTL <= challengeNow
      BY DEF C!AnswersAreFinal
    <3>1. C!SavedFor(q)' = C!SavedFor(q)
      BY <2>5 DEF C!SavedFor
    <3> QED BY <2>1, <2>2, <2>3, <2>4, <2>5, <3>1 DEF C!AnswersAreFinal
  <2>7. C!AnswersAgree'
    <3>1. ASSUME NEW q \in C!Request, answer'[q].kind = "ok"
          PROVE  LET b2 == answer'[q].by IN
                 /\ answer'[b2] = [kind |-> "ok", by |-> b2]
                 /\ ctx'[b2] = ctx'[q] /\ C!OperationOf(b2) = C!OperationOf(q)
      <4>1. CASE q = r
        BY <2>2, <2>5, <3>1, <4>1
      <4>2. CASE q # r
        <5>1. answer'[q] = answer[q] /\ answer[q].by \in C!Request \ {r}
          BY <1>o, <3>1, <4>2 DEF C!AnswersAreFinal
        <5> QED BY <2>5, <3>1, <5>1 DEF C!AnswersAgree
      <4> QED BY <4>1, <4>2
    <3>2. ASSUME NEW q1 \in C!Request, NEW q2 \in C!Request, q1 # q2,
                 C!OperationOf(q1) = C!OperationOf(q2), ctx'[q1].key = ctx'[q2].key,
                 answer'[q1].by = q1, answer'[q2].by = q2
          PROVE  \/ wroteAt[q1] + KeyTTL <= wroteAt[q2]
                 \/ wroteAt[q2] + KeyTTL <= wroteAt[q1]
      <4>1. q1 # r /\ q2 # r
        BY <2>3, <3>2
      <4> QED BY <2>5, <3>2, <4>1 DEF C!AnswersAgree
    <3> QED BY <3>1, <3>2 DEF C!AnswersAgree, C!OperationOf
  <2> QED BY <1>1, <2>6, <2>7
<1> QED BY <1>2, <1>3

\* A write finds its key free, so who wrote under it before did so a lifetime ago.
LEMMA AnswersSaved ==
  ASSUME C!TypeOK, Answers, NEW r \in C!Request, pc[r] = "write", C!SaveAnswer(r),
         r \in Reporter => ctx[r].target \in Creator /\ pc[ctx[r].target] = "over",
         UNCHANGED <<ctx, challengeNow>>
  PROVE  Answers'
<1> USE DEF Answers
<1>n. None \notin C!Request /\ Creator \cap Reporter = {}
  BY ChallengeAssumption DEF C!NameAssumption
<1>o. /\ answer[r].kind = "none" /\ answer[r].by = None
      /\ \A q \in C!Request : answer[q].by # r
      /\ \A o \in C!Operation, k \in Key : idem[o][k] # C!Nothing => idem[o][k].by # r
  BY AnsweredIsOver
<1>k. \A q \in C!Request : C!OperationOf(q) \in C!Operation
  BY DEF C!OperationOf, C!Operation
<1>s. /\ C!SavedFor(r) = C!Nothing
      /\ \A o \in C!Operation, k \in Key :
           idem'[o][k] = IF o = C!OperationOf(r) /\ k = ctx[r].key
                         THEN [by |-> r, target |-> ctx[r].target, value |-> ctx[r].value,
                               at |-> challengeNow]
                         ELSE idem[o][k]
      /\ wroteAt'[r] = challengeNow
      /\ \A q \in C!Request \ {r} : wroteAt'[q] = wroteAt[q]
  BY SaveIs
<1>t. /\ answer'[r] = [kind |-> "ok", by |-> r] /\ pc'[r] = "over"
      /\ \A q \in C!Request \ {r} : answer'[q] = answer[q] /\ pc'[q] = pc[q]
  BY SaveIs, TellIs
<1>1. C!RecordsAreWrites'
  <2> SUFFICES ASSUME NEW o \in C!Operation, NEW k \in Key, idem'[o][k] # C!Nothing
               PROVE  /\ idem'[o][k].by \in C!Request /\ C!OperationOf(idem'[o][k].by) = o
                      /\ ctx[idem'[o][k].by] =
                           [key |-> k, target |-> idem'[o][k].target,
                            value |-> idem'[o][k].value]
                      /\ answer'[idem'[o][k].by] = [kind |-> "ok", by |-> idem'[o][k].by]
                      /\ idem'[o][k].at = wroteAt'[idem'[o][k].by]
                      /\ o = "event" =>
                           idem'[o][k].target \in Creator /\ pc'[idem'[o][k].target] = "over"
    BY DEF C!RecordsAreWrites, C!Nothing, C!OperationOf
  <2>1. CASE o = C!OperationOf(r) /\ k = ctx[r].key
    <3>1. idem'[o][k] = [by |-> r, target |-> ctx[r].target, value |-> ctx[r].value,
                         at |-> challengeNow]
      BY <1>s, <2>1
    <3>2. ctx[r] = [key |-> k, target |-> ctx[r].target, value |-> ctx[r].value]
      BY <2>1, ChallengeTypes
    <3>3. o = "event" => ctx[r].target \in Creator /\ pc'[ctx[r].target] = "over"
      BY <1>t, <2>1 DEF C!OperationOf, C!Request
    <3> QED BY <1>s, <1>t, <2>1, <3>1, <3>2, <3>3
  <2>2. CASE ~(o = C!OperationOf(r) /\ k = ctx[r].key)
    <3>1. idem'[o][k] = idem[o][k]
      BY <1>s, <2>2
    <3>2. idem[o][k].by \in C!Request \ {r}
      BY <1>o, <3>1 DEF C!RecordsAreWrites
    <3>3. o = "event" => idem[o][k].target \in C!Request /\ pc[idem[o][k].target] = "over"
      BY <3>1 DEF C!RecordsAreWrites, C!Request
    <3> QED BY <1>s, <1>t, <3>1, <3>2, <3>3 DEF C!RecordsAreWrites
  <2> QED BY <2>1, <2>2
\* Who wrote under this key holds it no longer.
<1>2. ASSUME NEW q \in C!Request \ {r}, answer[q].by = q,
             C!OperationOf(q) = C!OperationOf(r), ctx[q].key = ctx[r].key
      PROVE  wroteAt[q] + KeyTTL <= challengeNow
  <2>1. C!SavedFor(q) = C!Nothing
    BY <1>2, <1>s DEF C!SavedFor
  <2>2. C!SavedFor(q).by # q
    BY <1>n, <2>1 DEF C!Nothing
  <2> QED BY <1>2, <2>2 DEF C!AnswersAreFinal
<1>3. C!AnswersAreFinal'
  <2> SUFFICES ASSUME NEW q \in C!Request
               PROVE  /\ answer'[q].kind # "none" => pc'[q] = "over"
                      /\ answer'[q].by # None => answer'[q].kind = "ok"
                      /\ answer'[q].kind = "ok" => answer'[q].by \in C!Request
                      /\ answer'[q].by = q =>
                           \/ idem'[C!OperationOf(q)][ctx[q].key].by = q
                           \/ wroteAt'[q] + KeyTTL <= challengeNow
    BY DEF C!AnswersAreFinal, C!SavedFor, C!OperationOf
  <2>1. CASE q = r
    <3>1. ctx[r].key \in Key
      BY ChallengeTypes
    <3>2. idem'[C!OperationOf(r)][ctx[r].key].by = r
      BY <1>k, <1>s, <3>1
    <3> QED BY <1>t, <2>1, <3>2
  <2>2. CASE q # r
    <3>1. answer'[q] = answer[q] /\ pc'[q] = pc[q] /\ wroteAt'[q] = wroteAt[q]
      BY <1>s, <1>t, <2>2
    <3>2. ASSUME answer[q].by = q
          PROVE  \/ idem'[C!OperationOf(q)][ctx[q].key].by = q
                 \/ wroteAt[q] + KeyTTL <= challengeNow
      <4>1. pc[q] = "over"
        BY <1>n, <3>2 DEF C!AnswersAreFinal
      <4>2. ctx[q].key \in Key
        BY <4>1, ChallengeTypes
      <4>3. CASE C!OperationOf(q) = C!OperationOf(r) /\ ctx[q].key = ctx[r].key
        BY <1>2, <2>2, <3>2, <4>3
      <4>4. CASE ~(C!OperationOf(q) = C!OperationOf(r) /\ ctx[q].key = ctx[r].key)
        BY <1>k, <1>s, <3>2, <4>2, <4>4 DEF C!AnswersAreFinal, C!SavedFor
      <4> QED BY <4>3, <4>4
    <3> QED BY <3>1, <3>2 DEF C!AnswersAreFinal
  <2> QED BY <2>1, <2>2
<1>4. C!AnswersAgree'
  <2>1. ASSUME NEW q \in C!Request, answer'[q].kind = "ok"
        PROVE  LET b == answer'[q].by IN
               /\ answer'[b] = [kind |-> "ok", by |-> b]
               /\ ctx[b] = ctx[q] /\ C!OperationOf(b) = C!OperationOf(q)
    <3>1. CASE q = r
      BY <1>t, <3>1
    <3>2. CASE q # r
      <4>1. answer'[q] = answer[q] /\ answer[q].by \in C!Request \ {r}
        BY <1>o, <1>t, <2>1, <3>2 DEF C!AnswersAreFinal
      <4> QED BY <1>t, <2>1, <4>1 DEF C!AnswersAgree
    <3> QED BY <3>1, <3>2
  <2>2. ASSUME NEW q1 \in C!Request, NEW q2 \in C!Request, q1 # q2,
               C!OperationOf(q1) = C!OperationOf(q2), ctx[q1].key = ctx[q2].key,
               answer'[q1].by = q1, answer'[q2].by = q2
        PROVE  \/ wroteAt'[q1] + KeyTTL <= wroteAt'[q2]
               \/ wroteAt'[q2] + KeyTTL <= wroteAt'[q1]
    BY <1>2, <1>s, <1>t, <2>2 DEF C!AnswersAgree
  <2> QED BY <2>1, <2>2 DEF C!AnswersAgree, C!OperationOf
<1> QED BY <1>1, <1>3, <1>4

\* Retention drops the records that are a lifetime old, and time only passes.
LEMMA AnswersPurged ==
  ASSUME C!TypeOK, Answers, C!PurgeKeys \/ C!Tick
  PROVE  Answers'
<1> USE DEF Answers
<1>1. /\ \A o \in C!Operation, k \in Key :
           \/ idem'[o][k] = idem[o][k]
           \/ idem'[o][k] = C!Nothing /\ idem[o][k].at + KeyTTL <= challengeNow
      /\ UNCHANGED <<ctx, pc, answer, wroteAt>>
      /\ challengeNow' \in {challengeNow, challengeNow + 1}
  BY DEF C!PurgeKeys, C!Tick, C!tables
<1>2. challengeNow \in Nat /\ KeyTTL \in Nat /\ \A r \in C!Request : wroteAt[r] \in Nat
  BY ChallengeAssumption DEF C!NumberAssumption, C!TypeOK
<1>3. C!RecordsAreWrites'
  <2> SUFFICES ASSUME NEW o \in C!Operation, NEW k \in Key, idem'[o][k] # C!Nothing
               PROVE  /\ idem'[o][k] = idem[o][k]
                      /\ idem[o][k] # C!Nothing
    BY <1>1 DEF C!RecordsAreWrites, C!Nothing, C!OperationOf
  <2> QED BY <1>1
<1>4. C!AnswersAreFinal'
  <2> SUFFICES ASSUME NEW r \in C!Request, answer[r].by = r
               PROVE  \/ idem'[C!OperationOf(r)][ctx[r].key].by = r
                      \/ wroteAt[r] + KeyTTL <= challengeNow'
    BY <1>1 DEF C!AnswersAreFinal, C!SavedFor, C!OperationOf
  <2>1. None # r
    BY ChallengeAssumption DEF C!NameAssumption
  <2>2. pc[r] = "over"
    BY <2>1 DEF C!AnswersAreFinal
  <2>3. ctx[r].key \in Key /\ C!OperationOf(r) \in C!Operation
    BY <2>2, ChallengeTypes
  <2>4. CASE wroteAt[r] + KeyTTL <= challengeNow
    BY <1>1, <1>2, <2>4
  <2>5. CASE C!SavedFor(r).by = r
    <3>1. C!SavedFor(r) # C!Nothing
      BY <2>1, <2>5 DEF C!Nothing
    <3>2. C!SavedFor(r).at = wroteAt[r]
      BY <2>3, <2>5, <3>1 DEF C!RecordsAreWrites, C!SavedFor
    <3> QED BY <1>1, <1>2, <2>3, <2>5, <3>2 DEF C!SavedFor
  <2> QED BY <2>4, <2>5 DEF C!AnswersAreFinal
<1>5. C!AnswersAgree'
  BY <1>1 DEF C!AnswersAgree, C!OperationOf
<1> QED BY <1>3, <1>4, <1>5

(* What the callers have read *)

Reads ==
  /\ C!AttemptsAreOpenedOnce
  /\ C!ReportersHaveRead
  /\ C!ScannersHaveRead

ReporterHasRead(r) ==
  /\ pc[r] # "idle" => ctx[r].target \in Creator /\ ctx[r].value \in Result
  /\ pc[r] \in {"expire", "write"} => pc[ctx[r].target] = "over"
  /\ pc[r] = "expire" /\ attempts[ctx[r].target].status = "PENDING" =>
       at[r] > attempts[ctx[r].target].expiresAt
  /\ pc[r] = "write" /\ attempts[ctx[r].target].status = "PENDING" =>
       at[r] <= attempts[ctx[r].target].expiresAt

ScannerHasRead(s) ==
  /\ scan[s].at <= challengeNow
  /\ \A a \in scan[s].due :
       pc[a] = "over" /\ (attempts[a].status = "PENDING" => scan[s].at > attempts[a].expiresAt)

\* Requests that are over stay so, an attempt is pending from its opening on or
\* not at all, and whoever reads anew reads what is there.
LEMMA ReadsKept ==
  ASSUME C!TypeOK, Reads,
         \A a \in Creator :
           /\ pc[a] = "over" => pc'[a] = "over"
           /\ attempts'[a].status # "absent" => attempts[a].status # "absent" \/ pc'[a] = "over"
           /\ attempts'[a].status = "PENDING" => attempts'[a] = attempts[a] \/ pc[a] # "over",
         \A r \in Reporter :
           \/ pc'[r] = pc[r] /\ at'[r] = at[r] /\ ctx'[r] = ctx[r]
           \/ ReporterHasRead(r)',
         \A s \in C!Scanner : scan'[s] = scan[s] \/ ScannerHasRead(s)',
         challengeNow' \in {challengeNow, challengeNow + 1}
  PROVE  Reads'
<1> USE DEF Reads
<1>t. challengeNow \in Nat /\ \A s \in C!Scanner : scan[s].at \in Nat /\ scan[s].due \subseteq Creator
  <2>1. scan \in [C!Scanner -> [phase : {"idle", "expire", "purge"}, due : SUBSET Creator,
                                at : Nat]]
    BY DEF C!TypeOK
  <2> QED BY <2>1 DEF C!TypeOK
<1>1. C!AttemptsAreOpenedOnce'
  BY DEF C!AttemptsAreOpenedOnce
<1>2. C!ReportersHaveRead'
  <2> SUFFICES ASSUME NEW r \in Reporter PROVE ReporterHasRead(r)'
    BY DEF C!ReportersHaveRead, ReporterHasRead
  <2>1. ReporterHasRead(r)
    BY DEF C!ReportersHaveRead, ReporterHasRead
  <2>2. CASE pc'[r] = pc[r] /\ at'[r] = at[r] /\ ctx'[r] = ctx[r]
    BY <2>1, <2>2 DEF ReporterHasRead
  <2> QED BY <2>2
<1>3. C!ScannersHaveRead'
  <2> SUFFICES ASSUME NEW s \in C!Scanner PROVE ScannerHasRead(s)'
    BY DEF C!ScannersHaveRead, ScannerHasRead
  <2>1. ScannerHasRead(s)
    BY DEF C!ScannersHaveRead, ScannerHasRead
  <2>2. CASE scan'[s] = scan[s]
    BY <1>t, <2>1, <2>2 DEF ScannerHasRead
  <2> QED BY <2>2
<1> QED BY <1>1, <1>2, <1>3

(* What the tables say *)

Tables ==
  /\ C!OneResult
  /\ C!NoLateResult
  /\ C!RecordIsTrue

\* A pending attempt has no event, and no record under a key is about it.
LEMMA PendingIsOpen ==
  ASSUME C!TypeOK, Answers, Reads, Tables, NEW a \in Creator,
         attempts[a].status \in {"PENDING", "absent", "EXPIRED"}
  PROVE  /\ {e \in events : e.attempt = a} = {}
         /\ attempts[a].status # "absent" =>
              \A k \in Key : idem["event"][k] # C!Nothing => idem["event"][k].target # a
<1> USE DEF Answers, Reads, Tables
<1>1. Result \cap {"absent", "PENDING", "EXPIRED"} = {}
  BY ChallengeAssumption DEF C!NameAssumption
<1>2. {e \in events : e.attempt = a} = {}
  BY <1>1 DEF C!OneResult
<1>3. ASSUME NEW k \in Key, idem["event"][k] # C!Nothing, idem["event"][k].target = a,
             attempts[a].status # "absent"
      PROVE  FALSE
  <2> DEFINE saved == idem["event"][k]
  <2>1. /\ saved.by \in C!Request /\ C!OperationOf(saved.by) = "event"
        /\ ctx[saved.by].value = saved.value
        /\ answer[saved.by].kind = "ok"
    <3>1. /\ saved.by \in C!Request /\ C!OperationOf(saved.by) = "event"
          /\ ctx[saved.by] = [key |-> k, target |-> saved.target, value |-> saved.value]
          /\ answer[saved.by] = [kind |-> "ok", by |-> saved.by]
      BY <1>3 DEF C!RecordsAreWrites, C!Operation
    <3> HIDE DEF saved
    <3> QED BY <3>1
  <2>2. saved.by \in Reporter /\ pc[saved.by] = "over"
    BY <2>1 DEF C!OperationOf, C!Request, C!AnswersAreFinal
  <2>3. saved.value \in Result
    BY <2>1, <2>2 DEF C!ReportersHaveRead
  <2>4. attempts[a].status \in {saved.value, "absent"}
    BY <1>3 DEF C!RecordIsTrue
  <2> QED BY <1>1, <1>3, <2>3, <2>4
<1> QED BY <1>2, <1>3

\* An expiry finds the attempt pending and its window passed.
LEMMA TablesExpired ==
  ASSUME C!TypeOK, Answers, Reads, Tables,
         \A a \in Creator :
           \/ attempts'[a] = attempts[a]
           \/ /\ attempts[a].status = "PENDING"
              /\ \E t \in Nat : /\ t > attempts[a].expiresAt
                                /\ attempts'[a] = C!Resolved(a, "EXPIRED", t),
         UNCHANGED <<events, idem>>
  PROVE  Tables'
<1> USE DEF Tables
<1>1. Result \cap {"absent", "PENDING", "EXPIRED"} = {}
  BY ChallengeAssumption DEF C!NameAssumption
<1>2. \A a \in Creator : attempts'[a] # attempts[a] =>
        /\ attempts[a].status = "PENDING"
        /\ attempts'[a].status = "EXPIRED"
        /\ attempts'[a].terminalAt > attempts'[a].expiresAt
  <2> SUFFICES ASSUME NEW a \in Creator, attempts'[a] # attempts[a]
               PROVE  /\ attempts[a].status = "PENDING"
                      /\ attempts'[a].status = "EXPIRED"
                      /\ attempts'[a].terminalAt > attempts'[a].expiresAt
    OBVIOUS
  <2>1. PICK t \in Nat : /\ t > attempts[a].expiresAt
                         /\ attempts'[a] = C!Resolved(a, "EXPIRED", t)
    OBVIOUS
  <2> QED BY <2>1 DEF C!Resolved
<1>3. C!OneResult'
  <2> SUFFICES ASSUME NEW a \in Creator
               PROVE  IF attempts'[a].status \in Result
                      THEN {e \in events : e.attempt = a} =
                             {[attempt |-> a, result |-> attempts'[a].status,
                               reportedAt |-> attempts'[a].terminalAt]}
                      ELSE {e \in events : e.attempt = a} = {}
    BY DEF C!OneResult
  <2>1. CASE attempts'[a] = attempts[a]
    BY <2>1 DEF C!OneResult
  <2>2. CASE attempts'[a] # attempts[a]
    BY <1>1, <1>2, <2>2, PendingIsOpen
  <2> QED BY <2>1, <2>2
<1>4. C!NoLateResult'
  BY <1>1, <1>2 DEF C!NoLateResult
<1>5. C!RecordIsTrue'
  <2> SUFFICES ASSUME NEW k \in Key, idem["event"][k] # C!Nothing
               PROVE  attempts'[idem["event"][k].target].status
                        \in {idem["event"][k].value, "absent"}
    BY DEF C!RecordIsTrue, C!Nothing
  <2>1. idem["event"][k].target \in Creator
    BY DEF Answers, C!RecordsAreWrites, C!Operation
  <2>2. attempts'[idem["event"][k].target] = attempts[idem["event"][k].target]
    BY <1>2, <2>1, PendingIsOpen
  <2> QED BY <2>2 DEF C!RecordIsTrue
<1> QED BY <1>3, <1>4, <1>5

\* A report that wins resolves the attempt, inside its window, with one event.
LEMMA TablesReported ==
  ASSUME C!TypeOK, Answers, Reads, Tables, NEW r \in Reporter, C!ReportCommits(r)
  PROVE  Tables'
<1> USE DEF Tables
<1> DEFINE a == ctx[r].target
           new == [attempt |-> a, result |-> ctx[r].value, reportedAt |-> at[r]]
           saved == [by |-> r, target |-> a, value |-> ctx[r].value, at |-> challengeNow]
<1>1. Result \cap {"absent", "PENDING", "EXPIRED"} = {} /\ Creator \cap Reporter = {}
  BY ChallengeAssumption DEF C!NameAssumption
<1>2. /\ pc[r] = "write" /\ attempts[a].status = "PENDING" /\ C!SaveAnswer(r)
      /\ attempts' = [attempts EXCEPT ![a] = C!Resolved(a, ctx[r].value, at[r])]
      /\ events' = events \cup {new}
  BY DEF C!ReportCommits
<1>3. a \in Creator /\ ctx[r].value \in Result /\ at[r] <= attempts[a].expiresAt
  BY <1>2 DEF Reads, C!ReportersHaveRead
<1>4. /\ attempts'[a].status = ctx[r].value /\ attempts'[a].terminalAt = at[r]
      /\ attempts'[a].expiresAt = attempts[a].expiresAt
      /\ \A b \in Creator \ {a} : attempts'[b] = attempts[b]
  BY <1>2, <1>3 DEF C!TypeOK, C!Resolved
<1>5. C!OneResult'
  <2> SUFFICES ASSUME NEW b \in Creator
               PROVE  IF attempts'[b].status \in Result
                      THEN {e \in events' : e.attempt = b} =
                             {[attempt |-> b, result |-> attempts'[b].status,
                               reportedAt |-> attempts'[b].terminalAt]}
                      ELSE {e \in events' : e.attempt = b} = {}
    BY DEF C!OneResult
  <2>1. CASE b = a
    <3>1. {e \in events : e.attempt = a} = {}
      BY <1>2, <1>3, PendingIsOpen
    <3> QED BY <1>2, <1>3, <1>4, <2>1, <3>1
  <2>2. CASE b # a
    <3>1. {e \in events' : e.attempt = b} = {e \in events : e.attempt = b}
      BY <1>2, <2>2
    <3> QED BY <1>4, <2>2, <3>1 DEF C!OneResult
  <2> QED BY <2>1, <2>2
<1>6. C!NoLateResult'
  BY <1>1, <1>3, <1>4 DEF C!NoLateResult
<1>7. C!RecordIsTrue'
  <2> SUFFICES ASSUME NEW k \in Key, idem'["event"][k] # C!Nothing
               PROVE  attempts'[idem'["event"][k].target].status
                        \in {idem'["event"][k].value, "absent"}
    BY DEF C!RecordIsTrue, C!Nothing
  <2>1. r \in C!Request /\ C!OperationOf(r) = "event" /\ "event" \in C!Operation
    BY <1>1 DEF C!Request, C!OperationOf, C!Operation
  <2>2. idem'["event"][k] = IF k = ctx[r].key THEN saved ELSE idem["event"][k]
    BY <1>2, <2>1, SaveIs
  <2>3. CASE k = ctx[r].key
    BY <1>4, <2>2, <2>3
  <2>4. CASE k # ctx[r].key
    <3>1. idem'["event"][k] = idem["event"][k]
      BY <2>2, <2>4
    <3>2. idem["event"][k].target \in Creator \ {a}
      BY <1>2, <1>3, <2>1, <3>1, PendingIsOpen DEF Answers, C!RecordsAreWrites
    <3> QED BY <1>4, <3>1, <3>2 DEF C!RecordIsTrue
  <2> QED BY <2>3, <2>4
<1> QED BY <1>5, <1>6, <1>7

\* A new attempt is one that nothing in the tables speaks of.
LEMMA TablesOpened ==
  ASSUME C!TypeOK, Answers, Reads, Tables, NEW c \in Creator, C!CreateCommits(c)
  PROVE  Tables'
<1> USE DEF Tables
<1>1. Result \cap {"absent", "PENDING", "EXPIRED"} = {}
  BY ChallengeAssumption DEF C!NameAssumption
<1>2. /\ pc[c] = "write" /\ C!SaveAnswer(c) /\ events' = events
      /\ attempts' = [attempts EXCEPT ![c] = [status |-> "PENDING",
                        expiresAt |-> at[c] + AttemptTTL, terminalAt |-> 0]]
  BY DEF C!CreateCommits
<1>3. attempts[c].status = "absent"
  BY <1>2 DEF Reads, C!AttemptsAreOpenedOnce
<1>4. /\ attempts'[c].status = "PENDING"
      /\ \A b \in Creator \ {c} : attempts'[b] = attempts[b]
  BY <1>2 DEF C!TypeOK
<1>5. C!OneResult'
  <2> SUFFICES ASSUME NEW b \in Creator
               PROVE  IF attempts'[b].status \in Result
                      THEN {e \in events : e.attempt = b} =
                             {[attempt |-> b, result |-> attempts'[b].status,
                               reportedAt |-> attempts'[b].terminalAt]}
                      ELSE {e \in events : e.attempt = b} = {}
    BY <1>2 DEF C!OneResult
  <2>1. CASE b = c
    BY <1>1, <1>3, <1>4, <2>1, PendingIsOpen
  <2>2. CASE b # c
    BY <1>4, <2>2 DEF C!OneResult
  <2> QED BY <2>1, <2>2
<1>6. C!NoLateResult'
  BY <1>1, <1>4 DEF C!NoLateResult
<1>7. C!RecordIsTrue'
  <2> SUFFICES ASSUME NEW k \in Key, idem'["event"][k] # C!Nothing
               PROVE  attempts'[idem'["event"][k].target].status
                        \in {idem'["event"][k].value, "absent"}
    BY DEF C!RecordIsTrue, C!Nothing
  <2>1. c \in C!Request /\ C!OperationOf(c) = "create" /\ "event" \in C!Operation
    BY DEF C!Request, C!OperationOf, C!Operation
  <2>2. idem'["event"][k] = idem["event"][k]
    BY <1>2, <2>1, SaveIs
  <2>3. idem["event"][k].target \in Creator \ {c}
    BY <1>2, <2>1, <2>2 DEF Answers, C!RecordsAreWrites
  <2> QED BY <1>4, <2>2, <2>3 DEF C!RecordIsTrue
<1> QED BY <1>5, <1>6, <1>7

\* Retention takes an attempt with its events, and a record on its own.
LEMMA TablesPurged ==
  ASSUME C!TypeOK, Answers, Reads, Tables, C!SweepPurges \/ C!PurgeKeys
  PROVE  Tables'
<1> USE DEF Tables
<1>1. Result \cap {"absent", "PENDING", "EXPIRED"} = {}
  BY ChallengeAssumption DEF C!NameAssumption
<1>2. CASE C!SweepPurges
  <2>1. PICK old \in SUBSET Creator :
          /\ attempts' = [a \in Creator |-> IF a \in old THEN C!Absent ELSE attempts[a]]
          /\ events' = {e \in events : e.attempt \notin old}
          /\ idem' = idem
    BY <1>2 DEF C!SweepPurges
  <2>2. /\ \A a \in old : attempts'[a].status = "absent"
        /\ \A a \in Creator \ old : attempts'[a] = attempts[a]
    BY <2>1 DEF C!Absent
  <2>3. C!OneResult'
    <3> SUFFICES ASSUME NEW a \in Creator
                 PROVE  IF attempts'[a].status \in Result
                        THEN {e \in events' : e.attempt = a} =
                               {[attempt |-> a, result |-> attempts'[a].status,
                                 reportedAt |-> attempts'[a].terminalAt]}
                        ELSE {e \in events' : e.attempt = a} = {}
      BY DEF C!OneResult
    <3>1. CASE a \in old
      BY <1>1, <2>1, <2>2, <3>1
    <3>2. CASE a \notin old
      <4>1. {e \in events' : e.attempt = a} = {e \in events : e.attempt = a}
        BY <2>1, <3>2
      <4> QED BY <2>2, <3>2, <4>1 DEF C!OneResult
    <3> QED BY <3>1, <3>2
  <2>4. C!NoLateResult'
    BY <1>1, <2>2 DEF C!NoLateResult
  <2>5. C!RecordIsTrue'
    <3> SUFFICES ASSUME NEW k \in Key, idem["event"][k] # C!Nothing
                 PROVE  attempts'[idem["event"][k].target].status
                          \in {idem["event"][k].value, "absent"}
      BY <2>1 DEF C!RecordIsTrue, C!Nothing
    <3>1. idem["event"][k].target \in Creator
      BY DEF Answers, C!RecordsAreWrites, C!Operation
    <3> QED BY <2>2, <3>1 DEF C!RecordIsTrue
  <2> QED BY <2>3, <2>4, <2>5
<1>3. CASE C!PurgeKeys
  <2>1. /\ \A k \in Key : idem'["event"][k] \in {idem["event"][k], C!Nothing}
        /\ UNCHANGED <<attempts, events>>
    BY <1>3 DEF C!PurgeKeys, C!Operation
  <2> QED BY <2>1 DEF C!OneResult, C!NoLateResult, C!RecordIsTrue, C!Nothing
<1> QED BY <1>2, <1>3

(* The steps *)

LEMMA ChallengeTypeStep == C!TypeOK /\ C!IInv /\ [C!Next]_(C!vars) => C!TypeOK'
<1> SUFFICES ASSUME C!TypeOK, C!IInv, [C!Next]_(C!vars) PROVE C!TypeOK'
  OBVIOUS
<1> USE ChallengeAssumption DEF C!NumberAssumption, C!NameAssumption
<1> DEFINE Places == {"idle", "lookup", "read", "expire", "write", "reread", "over"}
           Told == [kind : C!AnswerKind, by : C!Request \cup {None}]
\* Keys, places and answers, as a request moves on.
<1>g. ASSUME NEW r \in C!Request, NEW place \in Places, C!Go(r, place)
      PROVE  pc' \in [C!Request -> Places]
  BY <1>g DEF C!Go, C!TypeOK
<1>a. ASSUME NEW r \in C!Request, NEW kind \in C!AnswerKind, NEW by \in C!Request \cup {None},
             C!Tell(r, kind, by)
      PROVE  /\ pc' \in [C!Request -> Places] /\ answer' \in [C!Request -> Told]
             /\ at' \in [C!Request -> Nat]
  BY <1>a DEF C!Tell, C!Go, C!TypeOK
<1>k. {"ok", "key_reused", "not_found", "not_pending", "error"} \subseteq C!AnswerKind
  BY DEF C!AnswerKind
<1>b. ASSUME NEW r \in C!Request, pc[r] # "idle"
      PROVE  C!SavedFor(r) \in C!Saved
  BY <1>b, ChallengeTypes DEF C!SavedFor, C!TypeOK
<1>r. ASSUME NEW r \in C!Request, pc[r] # "idle", C!AnswerSaved(r)
      PROVE  /\ pc' \in [C!Request -> Places] /\ answer' \in [C!Request -> Told]
             /\ at' \in [C!Request -> Nat]
  BY <1>r, <1>a, <1>b, <1>k DEF C!AnswerSaved, C!Saved
<1>s. ASSUME NEW r \in C!Request, pc[r] = "write", C!SaveAnswer(r)
      PROVE  /\ pc' \in [C!Request -> Places] /\ answer' \in [C!Request -> Told]
             /\ idem' \in [C!Operation -> [Key -> C!Saved]]
             /\ wroteAt' \in [C!Request -> Nat] /\ at' \in [C!Request -> Nat]
  <2>1. [by |-> r, target |-> ctx[r].target, value |-> ctx[r].value, at |-> challengeNow]
          \in C!Saved
    BY ChallengeTypes DEF C!Saved
  <2>2. ctx[r].key \in Key /\ C!OperationOf(r) \in C!Operation /\ challengeNow \in Nat
    BY <1>s, ChallengeTypes
  <2> QED BY <1>a, <1>k, <1>s, <2>1, <2>2 DEF C!SaveAnswer, C!TypeOK
\* What a request carries stays bound once it has arrived.
<1>c. ASSUME UNCHANGED ctx, \A r \in C!Request : pc[r] = "idle" => pc'[r] = "idle"
      PROVE  \A r \in C!Request : pc'[r] # "idle" => ctx'[r].key \in Key /\ ctx'[r].value \in C!Value
  BY <1>c DEF C!TypeOK
<1>m. ASSUME NEW r \in C!Request, pc[r] # "idle", UNCHANGED ctx,
             \/ \E place \in Places : C!Go(r, place)
             \/ \E kind \in C!AnswerKind, by \in C!Request \cup {None} : C!Tell(r, kind, by)
             \/ C!AnswerSaved(r)
             \/ C!SaveAnswer(r)
      PROVE  \A q \in C!Request : pc'[q] # "idle" => ctx'[q].key \in Key /\ ctx'[q].value \in C!Value
  <2>1. \A q \in C!Request \ {r} : pc'[q] = pc[q]
    BY <1>m DEF C!Go, C!Tell, C!AnswerSaved, C!SaveAnswer, C!TypeOK
  <2> QED BY <1>c, <1>m, <2>1
<1>1. ASSUME NEW r \in C!Request, C!Arrive(r) PROVE C!TypeOK'
  <2>1. pc' \in [C!Request -> Places]
    BY <1>1, <1>g DEF C!Arrive
  <2>2. PICK ask \in C!CreateAsk \cup C!ReportAsk : ctx' = [ctx EXCEPT ![r] = ask]
    BY <1>1, ArriveIs
  <2>3. /\ ask \in [key : Key \cup {None}, target : Creator \cup {None},
                    value : C!Value \cup {None}]
        /\ ask.key \in Key /\ ask.value \in C!Value
    BY DEF C!CreateAsk, C!ReportAsk, C!Value
  <2>4. ctx' \in [C!Request -> [key : Key \cup {None}, target : Creator \cup {None},
                                value : C!Value \cup {None}]]
    BY <2>2, <2>3 DEF C!TypeOK
  <2>5. \A q \in C!Request : pc'[q] # "idle" => ctx'[q].key \in Key /\ ctx'[q].value \in C!Value
    BY <1>1, <2>2, <2>3 DEF C!Arrive, C!Go, C!TypeOK
  <2> QED BY <1>1, <2>1, <2>4, <2>5 DEF C!Arrive, C!TypeOK, C!tables
<1>2. ASSUME NEW r \in C!Request, C!Lookup(r) PROVE C!TypeOK'
  <2>1. pc[r] # "idle" /\ UNCHANGED ctx
    BY <1>2 DEF C!Lookup
  <2>2. CASE C!SavedFor(r) # C!Nothing
    BY <1>2, <1>m, <1>r, <2>1, <2>2 DEF C!Lookup, C!TypeOK, C!tables
  <2>3. CASE C!SavedFor(r) = C!Nothing
    <3>1. \E place \in Places : C!Go(r, place)
      BY <1>2, <2>3 DEF C!Lookup
    <3>2. at' \in [C!Request -> Nat]
      BY <1>2, <2>3 DEF C!Lookup, C!TypeOK
    <3> QED BY <1>2, <1>g, <1>m, <2>1, <2>3, <3>1, <3>2 DEF C!Lookup, C!TypeOK, C!tables
  <2> QED BY <2>2, <2>3
<1>3. ASSUME NEW r \in C!Request, C!Reread(r) PROVE C!TypeOK'
  BY <1>3, <1>a, <1>k, <1>m, <1>r DEF C!Reread, C!TypeOK, C!tables
<1>4. ASSUME NEW r \in C!Request, C!Abort(r) PROVE C!TypeOK'
  BY <1>4, <1>a, <1>k, <1>m DEF C!Abort, C!TypeOK, C!tables
<1>5. ASSUME NEW r \in C!Request, C!LosesKey(r) PROVE C!TypeOK'
  <2>1. at' \in [C!Request -> Nat]
    BY <1>5 DEF C!LosesKey, C!TypeOK
  <2> QED BY <2>1, <1>5, <1>g, <1>m DEF C!LosesKey, C!TypeOK, C!tables
<1>6. ASSUME NEW c \in Creator, C!CreateCommits(c) PROVE C!TypeOK'
  <2>1. c \in C!Request /\ pc[c] = "write" /\ C!SaveAnswer(c) /\ UNCHANGED ctx
    BY <1>6 DEF C!CreateCommits, C!Request
  <2>2. [status |-> "PENDING", expiresAt |-> at[c] + AttemptTTL, terminalAt |-> 0] \in C!Attempt
    <3>1. at[c] \in Nat
      BY <2>1, ChallengeTypes
    <3> QED BY <3>1 DEF C!Attempt, C!Status
  <2>3. attempts' \in [Creator -> C!Attempt]
    BY <1>6, <2>2 DEF C!CreateCommits, C!TypeOK
  <2> QED BY <1>6, <1>m, <1>s, <2>1, <2>3 DEF C!CreateCommits, C!TypeOK
<1>7. ASSUME NEW r \in Reporter, C!ReportReads(r) PROVE C!TypeOK'
  <2>1. r \in C!Request /\ pc[r] # "idle" /\ UNCHANGED ctx
    BY <1>7 DEF C!ReportReads, C!Request
  <2>2. CASE C!Tell(r, "not_found", None) \/ C!Tell(r, "not_pending", None)
    <3>1. \E kind \in C!AnswerKind, by \in C!Request \cup {None} : C!Tell(r, kind, by)
      BY <1>k, <2>2
    <3> QED BY <1>7, <1>a, <1>m, <2>1, <3>1 DEF C!ReportReads, C!TypeOK, C!tables
  <2>3. CASE /\ at' = [at EXCEPT ![r] = challengeNow]
             /\ C!Go(r, IF C!Due(ctx[r].target, challengeNow) THEN "expire" ELSE "write")
             /\ UNCHANGED answer
    <3>1. \E place \in Places : C!Go(r, place)
      BY <2>3
    <3>2. at' \in [C!Request -> Nat]
      BY <2>3 DEF C!TypeOK
    <3> QED BY <1>7, <1>g, <1>m, <2>1, <2>3, <3>1, <3>2 DEF C!ReportReads, C!TypeOK, C!tables
  <2> QED BY <1>7, <2>2, <2>3 DEF C!ReportReads
<1>8. ASSUME NEW r \in Reporter, C!ReportExpires(r) PROVE C!TypeOK'
  <2>1. r \in C!Request /\ pc[r] = "expire" /\ UNCHANGED ctx
    BY <1>8 DEF C!ReportExpires, C!Request
  <2>2. CASE attempts[ctx[r].target].status = "PENDING"
    <3>1. ctx[r].target \in Creator
      BY <2>1 DEF C!IInv, C!ReportersHaveRead
    <3>2. C!Resolved(ctx[r].target, "EXPIRED", at[r]) \in C!Attempt
      BY <2>1, <3>1, ChallengeTypes DEF C!Resolved, C!Attempt, C!Status
    <3>3. attempts' \in [Creator -> C!Attempt]
      BY <1>8, <2>2, <3>2 DEF C!ReportExpires, C!TypeOK
    <3> QED BY <1>8, <1>a, <1>k, <1>m, <2>1, <2>2, <3>3 DEF C!ReportExpires, C!TypeOK
  <2>3. CASE attempts[ctx[r].target].status # "PENDING"
    BY <1>8, <1>g, <1>m, <2>1, <2>3 DEF C!ReportExpires, C!TypeOK
  <2> QED BY <2>2, <2>3
<1>9. ASSUME NEW r \in Reporter, C!ReportCommits(r) PROVE C!TypeOK'
  <2>1. r \in C!Request /\ pc[r] = "write" /\ C!SaveAnswer(r) /\ UNCHANGED ctx
    BY <1>9 DEF C!ReportCommits, C!Request
  <2>2. ctx[r].target \in Creator /\ ctx[r].value \in Result /\ at[r] \in Nat
    BY <2>1, ChallengeTypes DEF C!IInv, C!ReportersHaveRead
  <2>3. C!Resolved(ctx[r].target, ctx[r].value, at[r]) \in C!Attempt
    BY <2>2, ChallengeTypes DEF C!Resolved, C!Attempt, C!Status
  <2>4. attempts' \in [Creator -> C!Attempt]
    BY <1>9, <2>3 DEF C!ReportCommits, C!TypeOK
  <2>5. events' \subseteq C!Event
    BY <1>9, <2>2 DEF C!ReportCommits, C!TypeOK, C!Event
  <2> QED BY <1>9, <1>m, <1>s, <2>1, <2>4, <2>5 DEF C!ReportCommits, C!TypeOK
<1>10. ASSUME NEW r \in Reporter, C!ReportLoses(r) PROVE C!TypeOK'
  <2>1. r \in C!Request /\ pc[r] # "idle" /\ UNCHANGED ctx
    BY <1>10 DEF C!ReportLoses, C!Request
  <2> QED BY <1>10, <1>a, <1>k, <1>m, <2>1 DEF C!ReportLoses, C!TypeOK, C!tables
<1>11. ASSUME NEW s \in C!Scanner, C!ScanReads(s) PROVE C!TypeOK'
  <2>1. [phase |-> "expire", due |-> {a \in Creator : C!Due(a, challengeNow)},
         at |-> challengeNow]
          \in [phase : {"idle", "expire", "purge"}, due : SUBSET Creator, at : Nat]
    BY DEF C!TypeOK
  <2>2. scan' \in [C!Scanner -> [phase : {"idle", "expire", "purge"}, due : SUBSET Creator,
                                 at : Nat]]
    BY <1>11, <2>1 DEF C!ScanReads, C!TypeOK
  <2> QED BY <1>11, <2>2 DEF C!ScanReads, C!TypeOK, C!tables
<1>12. ASSUME NEW s \in C!Scanner, C!ScanExpires(s) PROVE C!TypeOK'
  <2>1. scan[s].at \in Nat
    BY DEF C!TypeOK
  <2>2. scan' \in [C!Scanner -> [phase : {"idle", "expire", "purge"}, due : SUBSET Creator,
                                 at : Nat]]
    <3>1. scan[s] \in [phase : {"idle", "expire", "purge"}, due : SUBSET Creator, at : Nat]
      BY DEF C!TypeOK
    <3>2. /\ [scan[s] EXCEPT !.phase = "purge", !.due = {}]
               \in [phase : {"idle", "expire", "purge"}, due : SUBSET Creator, at : Nat]
          /\ C!AtRest \in [phase : {"idle", "expire", "purge"}, due : SUBSET Creator, at : Nat]
      BY <3>1 DEF C!AtRest
    <3> QED BY <1>12, <3>2 DEF C!ScanExpires, C!ScanMovesOn, C!TypeOK
  <2>3. \A a \in Creator : C!Resolved(a, "EXPIRED", scan[s].at) \in C!Attempt
    BY <2>1, ChallengeTypes DEF C!Resolved, C!Attempt, C!Status
  <2>4. attempts' \in [Creator -> C!Attempt]
    BY <1>12, <2>3, ChallengeTypes DEF C!ScanExpires
  <2> QED BY <1>12, <2>2, <2>4 DEF C!ScanExpires, C!TypeOK
<1>13. CASE C!SweepPurges
  <2>1. scan' \in [C!Scanner -> [phase : {"idle", "expire", "purge"}, due : SUBSET Creator,
                                 at : Nat]]
    BY <1>13 DEF C!SweepPurges, C!AtRest, C!TypeOK
  <2>2. C!Absent \in C!Attempt
    BY DEF C!Absent, C!Attempt, C!Status
  <2>3. attempts' \in [Creator -> C!Attempt]
    BY <1>13, <2>2, ChallengeTypes DEF C!SweepPurges
  <2> QED BY <1>13, <2>1, <2>3 DEF C!SweepPurges, C!TypeOK
<1>14. CASE C!PurgeKeys
  <2>1. C!Nothing \in C!Saved
    BY DEF C!Nothing, C!Saved
  <2>2. idem' \in [C!Operation -> [Key -> C!Saved]]
    BY <1>14, <2>1 DEF C!PurgeKeys, C!TypeOK
  <2> QED BY <1>14, <2>2 DEF C!PurgeKeys, C!TypeOK
<1>15. CASE C!Tick
  BY <1>15 DEF C!Tick, C!TypeOK, C!tables
<1>16. CASE UNCHANGED C!vars
  BY <1>16 DEF C!vars, C!TypeOK
<1>n. Creator \subseteq C!Request /\ Reporter \subseteq C!Request /\ Method \subseteq C!Value
      /\ Result \subseteq C!Value /\ {"timeline", "sweeper"} \subseteq C!Scanner
  BY DEF C!Request, C!Value, C!Scanner
<1> QED
  BY <1>1, <1>2, <1>3, <1>4, <1>5, <1>6, <1>7, <1>8, <1>9, <1>10, <1>11, <1>12, <1>13, <1>14,
     <1>15, <1>16, <1>n
     DEF C!Next, C!Sweeper

\* The three groups of the invariant.
LEMMA GroupsAreIInv == C!IInv <=> Answers /\ Reads /\ Tables
BY DEF C!IInv, Answers, Reads, Tables

\* A request that leaves the tables alone.
LEMMA RequestMoves ==
  ASSUME C!TypeOK, C!IInv, NEW r \in C!Request, pc[r] # "over", ToldWhat(r),
         \A q \in C!Request \ {r} :
           answer'[q] = answer[q] /\ ctx'[q] = ctx[q] /\ pc'[q] = pc[q] /\ at'[q] = at[q],
         r \in Reporter => ReporterHasRead(r)',
         UNCHANGED <<attempts, events, idem, wroteAt, scan, challengeNow>>
  PROVE  C!IInv'
<1>1. Answers'
  BY AnswersKept, GroupsAreIInv
<1>2. Reads'
  <2>1. \A a \in Creator : pc[a] = "over" => pc'[a] = "over"
    BY DEF C!Request
  <2>2. \A q \in Reporter : \/ pc'[q] = pc[q] /\ at'[q] = at[q] /\ ctx'[q] = ctx[q]
                            \/ ReporterHasRead(q)'
    BY DEF C!Request
  <2> QED BY <2>1, <2>2, ReadsKept, GroupsAreIInv
<1>3. Tables'
  BY GroupsAreIInv DEF Tables, C!OneResult, C!NoLateResult, C!RecordIsTrue, C!Nothing
<1> QED BY <1>1, <1>2, <1>3 DEF C!IInv, Answers, Reads, Tables

LEMMA ChallengeInvStep == C!TypeOK /\ C!IInv /\ [C!Next]_(C!vars) => C!IInv'
<1> SUFFICES ASSUME C!TypeOK, C!IInv, [C!Next]_(C!vars) PROVE C!IInv'
  OBVIOUS
<1> USE ChallengeAssumption DEF C!NumberAssumption, C!NameAssumption
<1>i. Answers /\ Reads /\ Tables
  BY GroupsAreIInv
<1>j. Answers' /\ Reads' /\ Tables' => C!IInv'
  BY DEF C!IInv, Answers, Reads, Tables
<1>n. Creator \subseteq C!Request /\ Reporter \subseteq C!Request /\ Method \subseteq C!Value
      /\ Result \subseteq C!Value /\ {"timeline", "sweeper"} \subseteq C!Scanner
  BY DEF C!Request, C!Value, C!Scanner
<1>t. /\ pc \in [C!Request -> {"idle", "lookup", "read", "expire", "write", "reread", "over"}]
      /\ at \in [C!Request -> Nat] /\ challengeNow \in Nat
      /\ \A a \in Creator : attempts[a].expiresAt \in Nat
  BY ChallengeTypes DEF C!TypeOK
\* Who is told an answer other than its own write is over, and its reads with it.
<1>a. ASSUME NEW r \in C!Request, pc[r] \notin {"idle", "over"}, UNCHANGED ctx,
             \/ \E kind \in {"key_reused", "not_found", "not_pending", "error"} :
                  C!Tell(r, kind, None)
             \/ C!SavedFor(r) # C!Nothing /\ C!AnswerSaved(r)
      PROVE  /\ ToldWhat(r) /\ pc'[r] = "over"
             /\ \A q \in C!Request \ {r} :
                  answer'[q] = answer[q] /\ pc'[q] = pc[q] /\ at'[q] = at[q]
             /\ r \in Reporter => ReporterHasRead(r)'
  <2> DEFINE Ends == /\ ToldWhat(r) /\ pc'[r] = "over"
                     /\ \A q \in C!Request \ {r} :
                          answer'[q] = answer[q] /\ pc'[q] = pc[q] /\ at'[q] = at[q]
  <2>1. Ends
    <3>1. ASSUME NEW kind \in {"key_reused", "not_found", "not_pending", "error"},
                 C!Tell(r, kind, None)
          PROVE  Ends
      <4>1. /\ answer'[r] = [kind |-> kind, by |-> None] /\ pc'[r] = "over"
            /\ \A q \in C!Request \ {r} :
                 answer'[q] = answer[q] /\ pc'[q] = pc[q] /\ at'[q] = at[q]
        BY <3>1, TellIs
      <4>2. answer'[r].kind \notin {"none", "ok"} /\ answer'[r].by = None
        BY <4>1
      <4> QED BY <1>a, <4>1, <4>2 DEF ToldWhat
    <3>2. CASE C!SavedFor(r) # C!Nothing /\ C!AnswerSaved(r) /\ C!SameRequest(r)
      BY <1>a, <3>2, TellIs DEF ToldWhat, C!AnswerSaved
    <3>3. CASE C!AnswerSaved(r) /\ ~C!SameRequest(r)
      BY <3>1, <3>3 DEF C!AnswerSaved
    <3> QED BY <1>a, <3>1, <3>2, <3>3
  <2>2. r \in Reporter => ReporterHasRead(r)'
    BY <1>a, <1>i, <2>1 DEF ReporterHasRead, Reads, C!ReportersHaveRead
  <2> QED BY <2>1, <2>2
\* Who moves on is told nothing.
<1>g. ASSUME NEW r \in C!Request, NEW place, C!Go(r, place), UNCHANGED answer
      PROVE  /\ ToldWhat(r) /\ pc'[r] = place
             /\ \A q \in C!Request \ {r} : answer'[q] = answer[q] /\ pc'[q] = pc[q]
  BY <1>g, GoIs DEF ToldWhat
<1>1. ASSUME NEW r \in C!Request, C!Arrive(r) PROVE C!IInv'
  <2>1. PICK ask \in C!CreateAsk \cup C!ReportAsk :
          /\ r \in Reporter => ask \in C!ReportAsk
          /\ ctx' = [ctx EXCEPT ![r] = ask]
    BY <1>1, ArriveIs
  <2>2. /\ pc[r] = "idle" /\ pc'[r] = "lookup" /\ ToldWhat(r)
        /\ \A q \in C!Request \ {r} :
             answer'[q] = answer[q] /\ ctx'[q] = ctx[q] /\ pc'[q] = pc[q] /\ at'[q] = at[q]
        /\ UNCHANGED <<attempts, events, idem, wroteAt, scan, challengeNow>>
    BY <1>1, <1>g, <2>1 DEF C!Arrive, C!tables, C!TypeOK
  <2>3. r \in Reporter => ReporterHasRead(r)'
    BY <2>1, <2>2 DEF ReporterHasRead, C!ReportAsk, C!TypeOK
  <2> QED BY <2>2, <2>3, RequestMoves
<1>2. ASSUME NEW r \in C!Request, C!Lookup(r) PROVE C!IInv'
  <2>1. /\ pc[r] = "lookup"
        /\ UNCHANGED <<attempts, events, idem, wroteAt, scan, challengeNow, ctx>>
    BY <1>2 DEF C!Lookup, C!tables
  <2>2. CASE C!SavedFor(r) # C!Nothing
    <3>1. C!AnswerSaved(r)
      BY <1>2, <2>2 DEF C!Lookup
    <3> QED BY <1>a, <2>1, <2>2, <3>1, RequestMoves
  <2>3. CASE C!SavedFor(r) = C!Nothing
    <3>1. C!Go(r, IF r \in Creator THEN "write" ELSE "read") /\ UNCHANGED answer
      BY <1>2, <2>3 DEF C!Lookup
    <3>2. \A q \in C!Request \ {r} : at'[q] = at[q]
      BY <1>2, <1>t, <2>3 DEF C!Lookup
    <3>3. r \in Reporter => ReporterHasRead(r)'
      BY <1>g, <1>i, <2>1, <3>1 DEF ReporterHasRead, Reads, C!ReportersHaveRead
    <3> QED BY <1>g, <2>1, <3>1, <3>3, <3>2, RequestMoves
  <2> QED BY <2>2, <2>3
<1>3. ASSUME NEW r \in C!Request, C!Reread(r) \/ C!Abort(r) \/ C!ReportLoses(r) PROVE C!IInv'
  <2>1. /\ pc[r] \notin {"idle", "over"}
        /\ UNCHANGED <<attempts, events, idem, wroteAt, scan, challengeNow, ctx>>
        /\ \/ \E kind \in {"key_reused", "not_found", "not_pending", "error"} :
                C!Tell(r, kind, None)
           \/ C!SavedFor(r) # C!Nothing /\ C!AnswerSaved(r)
    BY <1>3 DEF C!Reread, C!Abort, C!ReportLoses, C!tables
  <2> QED BY <1>a, <2>1, RequestMoves
<1>4. ASSUME NEW r \in C!Request, C!LosesKey(r) PROVE C!IInv'
  <2>1. /\ pc[r] = "write" /\ C!Go(r, "reread")
        /\ \A q \in C!Request \ {r} : at'[q] = at[q]
        /\ UNCHANGED <<attempts, events, idem, wroteAt, scan, challengeNow, ctx, answer>>
    BY <1>4, <1>t DEF C!LosesKey, C!tables
  <2>2. r \in Reporter => ReporterHasRead(r)'
    BY <1>g, <1>i, <2>1 DEF ReporterHasRead, Reads, C!ReportersHaveRead
  <2> QED BY <1>g, <2>1, <2>2, RequestMoves
<1>5. ASSUME NEW r \in Reporter, C!ReportReads(r) PROVE C!IInv'
  <2> DEFINE a == ctx[r].target
  <2>1. /\ pc[r] = "read" /\ r \in C!Request
        /\ UNCHANGED <<attempts, events, idem, wroteAt, scan, challengeNow, ctx>>
    BY <1>5, <1>n DEF C!ReportReads, C!tables
  <2>2. CASE C!Tell(r, "not_found", None) \/ C!Tell(r, "not_pending", None)
    <3>1. \E kind \in {"key_reused", "not_found", "not_pending", "error"} :
            C!Tell(r, kind, None)
      BY <2>2
    <3> QED BY <1>a, <2>1, <3>1, RequestMoves
  <2>3. CASE /\ attempts[a].status = "PENDING"
             /\ at' = [at EXCEPT ![r] = challengeNow]
             /\ C!Go(r, IF C!Due(a, challengeNow) THEN "expire" ELSE "write")
             /\ UNCHANGED answer
    <3>1. a \in Creator /\ ctx[r].value \in Result
      BY <1>i, <2>1 DEF Reads, C!ReportersHaveRead
    <3>2. pc[a] = "over" /\ pc'[a] = "over"
      <4>1. pc[a] = "over"
        BY <1>i, <2>3, <3>1 DEF Reads, C!AttemptsAreOpenedOnce
      <4> QED BY <1>g, <1>n, <2>1, <2>3, <3>1, <4>1
    <3>3. pc'[r] = IF challengeNow > attempts[a].expiresAt THEN "expire" ELSE "write"
      BY <1>g, <2>1, <2>3 DEF C!Due
    <3>4. at'[r] = challengeNow /\ \A q \in C!Request \ {r} : at'[q] = at[q]
      BY <1>t, <2>1, <2>3
    <3>5. ReporterHasRead(r)'
      BY <1>t, <2>1, <3>1, <3>2, <3>3, <3>4 DEF ReporterHasRead
    <3> QED BY <1>g, <2>1, <2>3, <3>4, <3>5, RequestMoves
  <2> QED BY <1>5, <2>2, <2>3 DEF C!ReportReads
\* The steps that write: the attempts that are open, and the answers.
<1>6. ASSUME NEW c \in Creator, C!CreateCommits(c) PROVE C!IInv'
  <2>1. /\ c \in C!Request /\ pc[c] = "write" /\ C!SaveAnswer(c)
        /\ attempts' = [attempts EXCEPT ![c] = [status |-> "PENDING",
                          expiresAt |-> at[c] + AttemptTTL, terminalAt |-> 0]]
        /\ UNCHANGED <<ctx, scan, challengeNow>>
    BY <1>6, <1>n DEF C!CreateCommits
  <2>2. /\ pc'[c] = "over" /\ \A q \in C!Request \ {c} : pc'[q] = pc[q] /\ at'[q] = at[q]
    <3>1. C!Tell(c, "ok", c)
      BY <2>1, SaveIs
    <3> QED BY <2>1, <3>1, TellIs
  <2>3. \A b \in Creator \ {c} : attempts'[b] = attempts[b]
    BY <2>1 DEF C!TypeOK
  <2>4. Answers'
    BY <1>i, <2>1, AnswersSaved
  <2>5. \A a \in Creator :
          /\ pc[a] = "over" => pc'[a] = "over"
          /\ attempts'[a].status # "absent" => attempts[a].status # "absent" \/ pc'[a] = "over"
          /\ attempts'[a].status = "PENDING" => attempts'[a] = attempts[a] \/ pc[a] # "over"
    BY <1>n, <2>1, <2>2, <2>3
  <2>6. \A r \in Reporter : r # c
    BY <1>6
  <2>7. Reads'
    BY <1>i, <1>n, <2>1, <2>2, <2>5, <2>6, ReadsKept
  <2>8. Tables'
    BY <1>6, <1>i, TablesOpened
  <2> QED BY <1>j, <2>4, <2>7, <2>8
\* Only pending attempts change, and none becomes pending.
<1>w. ASSUME \A a \in Creator :
               \/ attempts'[a] = attempts[a]
               \/ attempts[a].status = "PENDING" /\ attempts'[a].status # "PENDING"
               \/ attempts'[a].status = "absent",
             \A a \in Creator : pc[a] = "over" => pc'[a] = "over"
      PROVE  \A a \in Creator :
               /\ pc[a] = "over" => pc'[a] = "over"
               /\ attempts'[a].status # "absent" =>
                    attempts[a].status # "absent" \/ pc'[a] = "over"
               /\ attempts'[a].status = "PENDING" => attempts'[a] = attempts[a] \/ pc[a] # "over"
  BY <1>w
<1>7. ASSUME NEW r \in Reporter, C!ReportCommits(r) PROVE C!IInv'
  <2> DEFINE a == ctx[r].target
  <2>1. /\ r \in C!Request /\ pc[r] = "write" /\ C!SaveAnswer(r)
        /\ attempts[a].status = "PENDING"
        /\ attempts' = [attempts EXCEPT ![a] = C!Resolved(a, ctx[r].value, at[r])]
        /\ UNCHANGED <<ctx, scan, challengeNow>>
    BY <1>7, <1>n DEF C!ReportCommits
  <2>2. a \in Creator /\ ctx[r].value \in Result /\ pc[a] = "over"
    BY <1>i, <2>1 DEF Reads, C!ReportersHaveRead
  <2>3. pc'[r] = "over" /\ \A q \in C!Request \ {r} : pc'[q] = pc[q] /\ at'[q] = at[q]
    <3>1. C!Tell(r, "ok", r)
      BY <2>1, SaveIs
    <3> QED BY <2>1, <3>1, TellIs
  <2>4. attempts'[a].status = ctx[r].value /\ \A b \in Creator \ {a} : attempts'[b] = attempts[b]
    BY <2>1, <2>2 DEF C!TypeOK, C!Resolved
  <2>5. Answers'
    BY <1>i, <2>1, <2>2, AnswersSaved
  <2>6. ReporterHasRead(r)'
    BY <2>1, <2>2, <2>3 DEF ReporterHasRead
  <2>7. Reads'
    BY <1>i, <1>n, <1>w, <2>1, <2>2, <2>3, <2>4, <2>6, ReadsKept
  <2>8. Tables'
    BY <1>7, <1>i, TablesReported
  <2> QED BY <1>j, <2>5, <2>7, <2>8
<1>8. ASSUME NEW r \in Reporter, C!ReportExpires(r) PROVE C!IInv'
  <2> DEFINE a == ctx[r].target
  <2>1. /\ r \in C!Request /\ pc[r] = "expire"
        /\ UNCHANGED <<events, idem, ctx, scan, challengeNow, wroteAt>>
    BY <1>8, <1>n DEF C!ReportExpires
  <2>2. a \in Creator /\ pc[a] = "over"
    BY <1>i, <2>1 DEF Reads, C!ReportersHaveRead
  <2>3. CASE attempts[a].status = "PENDING"
    <3>1. /\ attempts' = [attempts EXCEPT ![a] = C!Resolved(a, "EXPIRED", at[r])]
          /\ C!Tell(r, "not_pending", None)
      BY <1>8, <2>3 DEF C!ReportExpires
    <3>2. at[r] > attempts[a].expiresAt /\ at[r] \in Nat
      BY <1>i, <1>t, <2>1, <2>3 DEF Reads, C!ReportersHaveRead
    <3>3. /\ attempts'[a] = C!Resolved(a, "EXPIRED", at[r])
          /\ attempts'[a].status = "EXPIRED"
          /\ \A b \in Creator \ {a} : attempts'[b] = attempts[b]
      BY <2>2, <3>1 DEF C!TypeOK, C!Resolved
    <3>4. /\ ToldWhat(r) /\ pc'[r] = "over"
          /\ \A q \in C!Request \ {r} :
               answer'[q] = answer[q] /\ pc'[q] = pc[q] /\ at'[q] = at[q]
      BY <1>a, <2>1, <3>1
    <3>5. Answers'
      BY <1>i, <2>1, <3>4, AnswersKept
    <3>6. ReporterHasRead(r)'
      BY <1>i, <2>1, <3>4 DEF ReporterHasRead, Reads, C!ReportersHaveRead
    <3>7. \A b \in Creator : pc[b] = "over" => pc'[b] = "over"
      BY <1>n, <3>4
    <3>8. Reads'
      BY <1>i, <1>n, <1>w, <2>1, <2>3, <3>3, <3>4, <3>6, <3>7, ReadsKept
    <3>9. Tables'
      BY <1>i, <2>1, <2>3, <3>2, <3>3, TablesExpired
    <3> QED BY <1>j, <3>5, <3>8, <3>9
  <2>4. CASE attempts[a].status # "PENDING"
    <3>1. C!Go(r, "write") /\ UNCHANGED <<attempts, at, answer>>
      BY <1>8, <2>4 DEF C!ReportExpires
    <3>2. pc'[a] = "over" /\ ctx[r].value \in Result
      BY <1>g, <1>i, <1>n, <2>1, <2>2, <3>1 DEF Reads, C!ReportersHaveRead
    <3>3. ReporterHasRead(r)'
      BY <1>g, <2>1, <2>2, <2>4, <3>1, <3>2 DEF ReporterHasRead
    <3> QED BY <1>g, <2>1, <3>1, <3>3, RequestMoves
  <2> QED BY <2>3, <2>4
\* The scanners and retention: nobody's place or answer changes.
<1>s. ASSUME UNCHANGED <<idem, ctx, pc, answer, wroteAt, challengeNow>> PROVE Answers'
  BY <1>i, <1>s DEF Answers, C!RecordsAreWrites, C!AnswersAreFinal, C!AnswersAgree, C!SavedFor,
     C!OperationOf, C!Nothing
<1>9. ASSUME NEW s \in C!Scanner, C!ScanReads(s) PROVE C!IInv'
  <2>1. /\ scan'[s].due = {a \in Creator : C!Due(a, challengeNow)}
        /\ scan'[s].at = challengeNow
        /\ \A o \in C!Scanner \ {s} : scan'[o] = scan[o]
        /\ UNCHANGED <<attempts, events, idem, ctx, pc, at, answer, wroteAt, challengeNow>>
    BY <1>9 DEF C!ScanReads, C!tables, C!TypeOK
  <2>2. ScannerHasRead(s)'
    BY <1>i, <1>t, <2>1 DEF ScannerHasRead, C!Due, Reads, C!AttemptsAreOpenedOnce
  <2>3. Reads'
    BY <1>i, <2>1, <2>2, ReadsKept
  <2>4. Tables'
    BY <1>i, <2>1 DEF Tables, C!OneResult, C!NoLateResult, C!RecordIsTrue, C!Nothing
  <2> QED BY <1>j, <1>s, <2>1, <2>3, <2>4
<1>10. ASSUME NEW s \in C!Scanner, C!ScanExpires(s) PROVE C!IInv'
  <2>1. /\ scan'[s].due = {} /\ scan'[s].at \in {0, scan[s].at}
        /\ \A o \in C!Scanner \ {s} : scan'[o] = scan[o]
        /\ UNCHANGED <<events, idem, ctx, pc, at, answer, wroteAt, challengeNow>>
    BY <1>10 DEF C!ScanExpires, C!ScanMovesOn, C!AtRest, C!TypeOK
  <2>2. \A a \in Creator :
          attempts'[a] = IF a \in scan[s].due /\ attempts[a].status = "PENDING"
                         THEN C!Resolved(a, "EXPIRED", scan[s].at) ELSE attempts[a]
    BY <1>10 DEF C!ScanExpires
  <2>3. /\ scan[s].at <= challengeNow /\ scan[s].at \in Nat
        /\ \A a \in scan[s].due : attempts[a].status = "PENDING" =>
             scan[s].at > attempts[a].expiresAt
    BY <1>i DEF Reads, C!ScannersHaveRead, C!TypeOK
  <2>4. \A a \in Creator :
          \/ attempts'[a] = attempts[a]
          \/ attempts[a].status = "PENDING" /\ attempts'[a].status # "PENDING"
    <3>1. \A a \in Creator : C!Resolved(a, "EXPIRED", scan[s].at).status = "EXPIRED"
      BY DEF C!Resolved
    <3> QED BY <2>2, <3>1
  <2>5. ScannerHasRead(s)'
    BY <1>t, <2>1, <2>3 DEF ScannerHasRead
  <2>6. Reads'
    BY <1>i, <1>w, <2>1, <2>4, <2>5, ReadsKept
  <2>7. Tables'
    <3>1. \A a \in Creator :
            \/ attempts'[a] = attempts[a]
            \/ /\ attempts[a].status = "PENDING"
               /\ \E t \in Nat : /\ t > attempts[a].expiresAt
                                 /\ attempts'[a] = C!Resolved(a, "EXPIRED", t)
      BY <2>2, <2>3
    <3> QED BY <1>i, <2>1, <3>1, TablesExpired
  <2> QED BY <1>j, <1>s, <2>1, <2>6, <2>7
<1>11. CASE C!SweepPurges
  <2>1. /\ scan'["sweeper"].due = {} /\ scan'["sweeper"].at = 0
        /\ scan'["timeline"] = scan["timeline"]
        /\ UNCHANGED <<idem, ctx, pc, at, answer, wroteAt, challengeNow>>
    BY <1>11 DEF C!SweepPurges, C!AtRest, C!TypeOK, C!Scanner
  <2>2. \A a \in Creator : attempts'[a] = attempts[a] \/ attempts'[a].status = "absent"
    BY <1>11 DEF C!SweepPurges, C!Absent
  <2>3. ScannerHasRead("sweeper")'
    BY <1>t, <2>1 DEF ScannerHasRead
  <2>4. \A s \in C!Scanner : scan'[s] = scan[s] \/ ScannerHasRead(s)'
    BY <2>1, <2>3 DEF C!Scanner
  <2>5. Reads'
    BY <1>i, <1>w, <2>1, <2>2, <2>4, ReadsKept
  <2>6. Tables'
    BY <1>11, <1>i, TablesPurged
  <2> QED BY <1>j, <1>s, <2>1, <2>5, <2>6
<1>12. CASE C!PurgeKeys
  <2>1. UNCHANGED <<attempts, events, ctx, pc, at, scan, challengeNow>>
    BY <1>12 DEF C!PurgeKeys
  <2>2. Reads'
    BY <1>i, <2>1, ReadsKept
  <2> QED BY <1>12, <1>i, <1>j, <2>2, AnswersPurged, TablesPurged
<1>13. CASE C!Tick
  <2>1. UNCHANGED <<attempts, events, idem, ctx, pc, at, scan>> /\ challengeNow' = challengeNow + 1
    BY <1>13 DEF C!Tick, C!tables
  <2>2. Reads'
    BY <1>i, <2>1, ReadsKept
  <2>3. Tables'
    BY <1>i, <2>1 DEF Tables, C!OneResult, C!NoLateResult, C!RecordIsTrue, C!Nothing
  <2> QED BY <1>13, <1>i, <1>j, <2>2, <2>3, AnswersPurged
<1>14. CASE UNCHANGED C!vars
  <2>1. UNCHANGED <<attempts, events, idem, ctx, pc, at, scan, challengeNow, answer, wroteAt>>
    BY <1>14 DEF C!vars
  <2>2. Reads'
    BY <1>i, <2>1, ReadsKept
  <2>3. Tables'
    BY <1>i, <2>1 DEF Tables, C!OneResult, C!NoLateResult, C!RecordIsTrue, C!Nothing
  <2> QED BY <1>j, <1>s, <2>1, <2>2, <2>3
<1> QED
  BY <1>1, <1>2, <1>3, <1>4, <1>5, <1>6, <1>7, <1>8, <1>9, <1>10, <1>11, <1>12, <1>13, <1>14, <1>n
     DEF C!Next, C!Sweeper

\* The challenges' variables have their types, and IInv of Challenges is inductive.
THEOREM ChallengeInvariance == Spec => [](C!TypeOK /\ C!IInv)
<1>1. Init => C!TypeOK
  BY ChallengeAssumption DEF Init, C!Init, C!TypeOK, C!Attempt, C!Status, C!Absent, C!Saved,
     C!Nothing, C!AtRest, C!AnswerKind, C!NumberAssumption
<1>2. Init => C!IInv
  <2> SUFFICES ASSUME C!Init PROVE C!IInv
    BY DEF Init
  <2> USE ChallengeAssumption DEF C!Init, C!AtRest, C!NameAssumption
  <2>1. /\ \A a \in Creator : attempts[a].status = "absent" /\ attempts[a] = C!Absent
        /\ \A r \in C!Request : pc[r] = "idle" /\ answer[r] = [kind |-> "none", by |-> None]
        /\ \A s \in C!Scanner : scan[s].due = {} /\ scan[s].at = 0 /\ challengeNow = 0
        /\ \A o \in C!Operation, k \in Key : idem[o][k] = C!Nothing
        /\ events = {} /\ None \notin C!Request
    BY DEF C!Absent
  <2>2. Reads
    BY <2>1 DEF Reads, C!AttemptsAreOpenedOnce, C!ReportersHaveRead, C!ScannersHaveRead, C!Request
  <2>3. Tables
    BY <2>1 DEF Tables, C!OneResult, C!NoLateResult, C!RecordIsTrue, C!Operation
  <2>4. Answers
    BY <2>1 DEF Answers, C!RecordsAreWrites, C!AnswersAreFinal, C!AnswersAgree
  <2> QED BY <2>2, <2>3, <2>4, GroupsAreIInv
<1>3. [Next]_vars => [C!Next]_(C!vars)
  BY DEF Next, vars, challengeVars, C!vars
<1> QED BY <1>1, <1>2, <1>3, ChallengeTypeStep, ChallengeInvStep, PTL DEF Spec

\* An attempt has one event exactly when a report resolved it, inside its window,
\* however reports, expiries and purges race (report_event, _expire_if_due).
THEOREM OneResult == Spec => []OneResultInTime
<1>1. C!IInv => OneResultInTime
  BY DEF C!IInv, OneResultInTime
<1> QED BY ChallengeInvariance, <1>1, PTL

\* A key answers with the write of a request just like it, and two writes under
\* one key are its lifetime apart (_reserve_idempotency, _finalize_or_replay).
THEOREM KeysAgree == Spec => []AnswersAgree
<1>1. C!IInv => AnswersAgree
  BY DEF C!IInv, AnswersAgree
<1> QED BY ChallengeInvariance, <1>1, PTL

\* A resolved attempt only goes, once retention has passed (purge_followups).
THEOREM ResolutionsStand == Spec => ResolvedOnce
<1> DEFINE Stands == \A a \in Creator :
             attempts[a].status \in C!Terminal /\ attempts'[a] # attempts[a] =>
               attempts'[a] = C!Absent /\ attempts[a].terminalAt + EventRetention <= challengeNow
<1>1. C!TypeOK /\ C!IInv /\ [Next]_vars => [Stands]_(C!vars)
  <2> SUFFICES ASSUME C!TypeOK, C!IInv, C!Next, NEW a \in Creator,
                      attempts[a].status \in C!Terminal, attempts'[a] # attempts[a]
               PROVE  /\ attempts'[a] = C!Absent
                      /\ attempts[a].terminalAt + EventRetention <= challengeNow
    BY DEF Next, vars, challengeVars, C!vars
  <2>1. attempts[a].status \notin {"absent", "PENDING"}
    BY ChallengeAssumption DEF C!NameAssumption, C!Terminal
  <2>2. pc[a] = "over"
    BY <2>1 DEF C!IInv, C!AttemptsAreOpenedOnce
  <2>3. CASE C!SweepPurges
    <3>1. /\ attempts[a].terminalAt + EventRetention <= scan["sweeper"].at
          /\ attempts'[a] = C!Absent
      BY <2>3 DEF C!SweepPurges
    <3>2. /\ scan["sweeper"].at <= challengeNow /\ scan["sweeper"].at \in Nat
          /\ attempts[a].terminalAt \in Nat /\ challengeNow \in Nat /\ EventRetention \in Nat
      BY ChallengeTypes, ChallengeAssumption
         DEF C!TypeOK, C!IInv, C!ScannersHaveRead, C!Scanner, C!NumberAssumption
    <3> QED BY <3>1, <3>2
  <2>4. ASSUME NEW c \in Creator, C!CreateCommits(c) PROVE FALSE
    BY <2>2, <2>4 DEF C!CreateCommits, C!TypeOK
  <2>5. ASSUME NEW r \in Reporter, C!ReportExpires(r) \/ C!ReportCommits(r) PROVE FALSE
    BY <2>1, <2>5 DEF C!ReportExpires, C!ReportCommits, C!TypeOK
  <2>6. ASSUME NEW s \in C!Scanner, C!ScanExpires(s) PROVE FALSE
    BY <2>1, <2>6 DEF C!ScanExpires
  <2> QED
    BY <2>3, <2>4, <2>5, <2>6
       DEF C!Next, C!Sweeper, C!Scanner, C!Arrive, C!Lookup, C!Reread,
           C!Abort, C!LosesKey, C!ReportReads, C!ReportLoses, C!ScanReads, C!PurgeKeys,
           C!Tick, C!tables
<1> QED BY ChallengeInvariance, <1>1, PTL DEF Spec, ResolvedOnce, C!ResolvedOnce
=============================================================================
