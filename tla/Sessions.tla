------------------------------- MODULE Sessions -------------------------------
(***************************************************************************)
(* Trust sessions (app/session/manager.py): trust with a deadline, watched *)
(* by a monitor task that re-asks the operator about SIM and device.       *)
(*                                                                         *)
(* Everything but retention runs on one event loop and interleaves only    *)
(* where it awaits: the monitor's sleep and its two operator calls.        *)
(* Session events carry no run id, so emitting one does not suspend, and   *)
(* a transition, its event and the forgetting of the number are one step.  *)
(* The retention thread shares the dict without a lock.                    *)
(***************************************************************************)
EXTENDS Naturals, FiniteSets, Sequences

CONSTANTS
  Session,      \* session ids that may be created
  Owner,        \* merchants (owner_hash)
  None,
  MaxTTL,       \* settings.session_max_ttl_seconds
  Poll,         \* seconds between two checks
  Retention,    \* settings.session_terminal_retention_seconds
  MaxPerOwner,  \* settings.session_max_per_owner
  MaxCall,      \* longest one operator call lasts (nac_timeout_seconds)
  SweepEvery,   \* settings.purge_interval_seconds, between two retention sweeps
  LastCreate,   \* no session is created later, for model checking
  MaxTime       \* bound on the clock, for model checking

NoneAssumption == None \notin Owner
NumberAssumption ==
  {MaxTTL, Poll, Retention, MaxPerOwner, MaxCall, SweepEvery, LastCreate, MaxTime} \subseteq Nat

VARIABLES
  sess,       \* every SessionRecord
  kept,       \* sessions in SessionManager._sessions
  monitor,    \* where each monitor task is
  wake,       \* when its sleep ends, or its operator call began
  flagged,    \* whether its SIM answer was a FLAG
  sweep,      \* records the retention thread has listed and not yet looked at
  sweepDue,   \* when the retention thread runs again
  now,
  \* Observed; no action is guarded by these.
  log,        \* events emitted for each session
  calls       \* operator calls begun for each session

vars == <<sess, kept, monitor, wake, flagged, sweep, sweepDue, now, log, calls>>

-----------------------------------------------------------------------------
Ending == {"EXPIRED", "REVOKED", "ENDED"}
Record == [status : {"none", "ACTIVE"} \cup Ending, owner : Owner \cup {None},
           phone : BOOLEAN, expiresAt : Nat, terminalAt : Nat]
Place == {"none", "ready", "sleeping", "sim", "device", "cancelled", "done"}
Event == {"started", "expired", "revoked", "ended"}

TypeOK ==
  /\ sess \in [Session -> Record]
  /\ kept \subseteq Session
  /\ monitor \in [Session -> Place]
  /\ wake \in [Session -> Nat]
  /\ flagged \in [Session -> BOOLEAN]
  /\ sweep \subseteq Session
  /\ sweepDue \in Nat
  /\ now \in Nat
  /\ log \in [Session -> Seq(Event)]
  /\ calls \in [Session -> Nat]

Init ==
  /\ sess = [s \in Session |-> [status |-> "none", owner |-> None, phone |-> FALSE,
                                expiresAt |-> 0, terminalAt |-> 0]]
  /\ kept = {}
  /\ monitor = [s \in Session |-> "none"]
  /\ wake = [s \in Session |-> 0]
  /\ flagged = [s \in Session |-> FALSE]
  /\ sweep = {}
  /\ sweepDue \in 0..SweepEvery
  /\ now = 0
  /\ log = [s \in Session |-> <<>>]
  /\ calls = [s \in Session |-> 0]

-----------------------------------------------------------------------------
Active(s) == sess[s].status = "ACTIVE"

\* SessionRecord.is_expired
Due(s) == now >= sess[s].expiresAt

EventOf(status) == CASE status = "EXPIRED" -> "expired"
                     [] status = "REVOKED" -> "revoked"
                     [] status = "ENDED" -> "ended"

\* _terminal, _emit and _forget_subject: only the first transition counts, its
\* event is emitted, and the number is forgotten.
Terminate(s, status) ==
  IF Active(s)
  THEN /\ sess' = [sess EXCEPT ![s] =
                     [status |-> status, owner |-> @.owner, phone |-> FALSE,
                      expiresAt |-> @.expiresAt, terminalAt |-> now]]
       /\ log' = [log EXCEPT ![s] = Append(@, EventOf(status))]
  ELSE UNCHANGED <<sess, log>>

\* Mutant: whoever finds the deadline passed announces it.
ExpireNoisily(s) ==
  IF Due(s) /\ ~Active(s)
  THEN log' = [log EXCEPT ![s] = Append(@, "expired")] /\ UNCHANGED sess
  ELSE IF Due(s) THEN Terminate(s, "EXPIRED") ELSE UNCHANGED <<sess, log>>

\* _expire_if_due and _flush
ExpireIfDue(s) ==
  IF Due(s) THEN Terminate(s, "EXPIRED") ELSE UNCHANGED <<sess, log>>

\* What _prune deletes: terminal, its task over, seen for long enough.
Prunable(s) ==
  /\ sess[s].status \in Ending
  /\ monitor[s] \in {"none", "done"}
  /\ sess[s].terminalAt + Retention <= now

Goes(s, place) == monitor' = [monitor EXCEPT ![s] = place]

\* asyncio.sleep(min(poll, remaining))
Sleeps(s) ==
  /\ Goes(s, "sleeping")
  /\ wake' = [wake EXCEPT ![s] = IF now + Poll < sess[s].expiresAt THEN now + Poll
                                 ELSE sess[s].expiresAt]

\* An operator call begins.
Calls(s, place) ==
  /\ Goes(s, place)
  /\ wake' = [wake EXCEPT ![s] = now]
  /\ calls' = [calls EXCEPT ![s] = @ + 1]

-----------------------------------------------------------------------------
(* create, current and end *)

Live(o) == {s \in kept : Active(s) /\ sess[s].owner = o}

\* _prune, the quota, the record, "started" and the monitor task.
Create(s, o, ttl) ==
  LET left == {k \in kept : ~Prunable(k)} IN
  /\ sess[s].status = "none"
  /\ now <= LastCreate
  /\ Cardinality(Live(o)) < MaxPerOwner
  /\ sess' = [sess EXCEPT ![s] =
                [status |-> "ACTIVE", owner |-> o, phone |-> TRUE,
                 expiresAt |-> now + ttl, terminalAt |-> 0]]
  /\ kept' = left \cup {s}
  /\ log' = [log EXCEPT ![s] = <<"started">>]
  /\ Goes(s, "ready")
  /\ UNCHANGED <<wake, flagged, sweep, sweepDue, now, calls>>

\* A refused create has pruned all the same.
CreateRefused(o) ==
  /\ Cardinality(Live(o)) >= MaxPerOwner
  /\ kept' = {k \in kept : ~Prunable(k)}
  /\ UNCHANGED <<sess, monitor, wake, flagged, sweep, sweepDue, now, log, calls>>

\* _prune or the quota count runs into the retention thread's own deletions:
\* the request fails, part of the pruning done.
CreateCollides ==
  /\ sweep # {}
  /\ \E gone \in SUBSET {k \in kept : Prunable(k)} : kept' = kept \ gone
  /\ UNCHANGED <<sess, monitor, wake, flagged, sweep, sweepDue, now, log, calls>>

\* current(): the clock decides before anyone sees the status.
Read(s) ==
  /\ s \in kept
  /\ ExpireIfDue(s)
  /\ UNCHANGED <<kept, monitor, wake, flagged, sweep, sweepDue, now, calls>>

\* end(): an expiry found on the way stands; otherwise the task is cancelled.
End(s) ==
  /\ s \in kept
  /\ IF Active(s) /\ ~Due(s)
     THEN /\ Terminate(s, "ENDED")
          /\ IF monitor[s] = "done" THEN UNCHANGED monitor ELSE Goes(s, "cancelled")
     ELSE ExpireIfDue(s) /\ UNCHANGED monitor
  /\ UNCHANGED <<kept, wake, flagged, sweep, sweepDue, now, calls>>

-----------------------------------------------------------------------------
(* _monitor *)

\* The head of the loop: stop if trust is over, else sleep.
LoopHead(s) ==
  /\ ExpireIfDue(s)
  /\ IF Active(s) /\ ~Due(s) THEN Sleeps(s) ELSE Goes(s, "done") /\ UNCHANGED wake

MonitorStarts(s) ==
  /\ monitor[s] = "ready"
  /\ LoopHead(s)
  /\ UNCHANGED <<kept, flagged, sweep, sweepDue, now, calls>>

\* Checked again after waking, before anything is spent.
MonitorWakes(s) ==
  /\ monitor[s] = "sleeping"
  /\ now >= wake[s]
  /\ ExpireIfDue(s)
  /\ IF Active(s) /\ ~Due(s) THEN Calls(s, "sim")
     ELSE Goes(s, "done") /\ UNCHANGED <<wake, calls>>
  /\ UNCHANGED <<kept, flagged, sweep, sweepDue, now>>

\* Mutant: the second call follows the first.
SimAnswersUnchecked(s, flag) ==
  /\ monitor[s] = "sim"
  /\ flagged' = [flagged EXCEPT ![s] = flag]
  /\ Calls(s, "device")
  /\ UNCHANGED <<sess, kept, sweep, sweepDue, now, log>>

\* And again between the two calls.
SimAnswers(s, flag) ==
  /\ monitor[s] = "sim"
  /\ ExpireIfDue(s)
  /\ flagged' = [flagged EXCEPT ![s] = flag]
  /\ IF Active(s) /\ ~Due(s) THEN Calls(s, "device")
     ELSE Goes(s, "done") /\ UNCHANGED <<wake, calls>>
  /\ UNCHANGED <<kept, sweep, sweepDue, now>>

\* A signal asked for while trust was live revokes it, whatever the clock says.
DeviceAnswers(s, flag) ==
  /\ monitor[s] = "device"
  /\ IF flagged[s] \/ flag
     THEN Terminate(s, "REVOKED") /\ Goes(s, "done") /\ UNCHANGED wake
     ELSE LoopHead(s)
  /\ UNCHANGED <<kept, flagged, sweep, sweepDue, now, calls>>

\* Mutant: the task just dies.
MonitorDies(s) ==
  /\ monitor[s] \in {"sim", "device"}
  /\ Goes(s, "done")
  /\ UNCHANGED <<sess, kept, wake, flagged, sweep, sweepDue, now, log, calls>>

\* Any exception fails closed.
MonitorFails(s) ==
  /\ monitor[s] \in {"sim", "device"}
  /\ Terminate(s, "REVOKED")
  /\ Goes(s, "done")
  /\ UNCHANGED <<kept, wake, flagged, sweep, sweepDue, now, calls>>

MonitorCancelled(s) ==
  /\ monitor[s] = "cancelled"
  /\ Goes(s, "done")
  /\ UNCHANGED <<sess, kept, wake, flagged, sweep, sweepDue, now, log, calls>>

-----------------------------------------------------------------------------
(* purge_terminal, on the retention thread *)

SweepLists ==
  /\ now >= sweepDue /\ sweep = {}
  /\ sweep' = kept
  /\ sweepDue' = now + SweepEvery
  /\ UNCHANGED <<sess, kept, monitor, wake, flagged, now, log, calls>>

\* Mutant: the exception ends the retention loop.
SweepLooksOnce(s) ==
  /\ s \in sweep
  /\ IF Prunable(s) /\ s \notin kept
     THEN sweep' = {} /\ sweepDue' = MaxTime + 1 /\ UNCHANGED kept
     ELSE /\ sweep' = sweep \ {s}
          /\ kept' = IF Prunable(s) THEN kept \ {s} ELSE kept
          /\ UNCHANGED sweepDue
  /\ UNCHANGED <<sess, monitor, wake, flagged, now, log, calls>>

\* A record that a create has pruned since it was listed raises KeyError, and
\* the sweep is over until its next turn.
SweepLooks(s) ==
  /\ s \in sweep
  /\ IF Prunable(s) /\ s \notin kept
     THEN sweep' = {} /\ UNCHANGED kept
     ELSE /\ sweep' = sweep \ {s}
          /\ kept' = IF Prunable(s) THEN kept \ {s} ELSE kept
  /\ UNCHANGED <<sess, monitor, wake, flagged, sweepDue, now, log, calls>>

\* Timers fire when they are due, and a task that can run does before time passes.
Tick ==
  /\ now < MaxTime
  /\ now < sweepDue /\ sweep = {}
  /\ \A s \in Session :
       /\ monitor[s] \notin {"ready", "cancelled"}
       /\ monitor[s] = "sleeping" => now < wake[s]
       /\ monitor[s] \in {"sim", "device"} => now < wake[s] + MaxCall
  /\ now' = now + 1
  /\ UNCHANGED <<sess, kept, monitor, wake, flagged, sweep, sweepDue, log, calls>>

Monitor(s) ==
  \/ MonitorStarts(s) \/ MonitorWakes(s) \/ MonitorFails(s) \/ MonitorCancelled(s)
  \/ \E flag \in BOOLEAN : SimAnswers(s, flag) \/ DeviceAnswers(s, flag)
Sweeper == SweepLists \/ \E s \in Session : SweepLooks(s)

Next ==
  \/ \E s \in Session, o \in Owner, ttl \in 1..MaxTTL : Create(s, o, ttl)
  \/ \E o \in Owner : CreateRefused(o)
  \/ CreateCollides
  \/ \E s \in Session : Read(s) \/ End(s) \/ Monitor(s)
  \/ Sweeper \/ Tick

Spec == Init /\ [][Next]_vars

\* Operator calls time out, the event loop runs what is ready, the retention
\* loop comes round again, and time passes.
FairSpec ==
  /\ Spec
  /\ \A s \in Session : WF_vars(Monitor(s))
  /\ WF_vars(Sweeper)
  /\ WF_vars(Tick)

-----------------------------------------------------------------------------
(* Properties *)

\* Trust is never shown past its deadline by more than the one operator call
\* that was in flight when it passed, even if nobody reads the session.
TrustEndsOnTime ==
  \A s \in Session : Active(s) => now <= sess[s].expiresAt + MaxCall

\* The operator is asked about a number only while its session is trusted: not
\* after the deadline, an end, a revocation, or between the two calls of a check
\* when one of those fell in between.
NoCallAfterTrust ==
  [][\A s \in Session : calls'[s] # calls[s] => Active(s) /\ ~Due(s)]_vars

\* However many paths discover an ending, its subscriber sees `started` and then
\* one event, the one that matches the status the session has for good.
OneTerminalEvent ==
  \A s \in Session :
    /\ Active(s) => log[s] = <<"started">>
    /\ sess[s].status \in Ending => log[s] = <<"started", EventOf(sess[s].status)>>

\* The number is held exactly as long as the session is trusted.
NumberIsForgotten ==
  \A s \in Session : sess[s].phone <=> Active(s)

\* A client that polls can see how its session ended: a record is dropped only
\* when it has been terminal for the retention and no task is left on it, by
\* whichever of the two prunes comes first.
EndingIsObservable ==
  \A s \in Session :
    sess[s].status # "none" /\ s \notin kept =>
      /\ sess[s].status \in Ending
      /\ sess[s].terminalAt + Retention <= now
      /\ monitor[s] = "done"

\* A session nobody reads or ends is ended and reclaimed all the same, also when
\* a sweep was abandoned half way.
EverySessionIsReclaimed ==
  \A s \in Session : s \in kept ~> s \notin kept

-----------------------------------------------------------------------------
(* The inductive invariant the proofs use *)

\* Trust is watched for as long as it lasts, by a task whose next look is set
\* before the deadline; one that has yet to start does not let time pass.
TrustIsWatched ==
  \A s \in Session : Active(s) =>
    \/ monitor[s] = "ready" /\ now <= sess[s].expiresAt
    \/ monitor[s] = "sleeping" /\ wake[s] <= sess[s].expiresAt
    \/ monitor[s] \in {"sim", "device"} /\ wake[s] <= sess[s].expiresAt

\* A session has had a task from its creation on.
SessionsHaveTasks == \A s \in Session : sess[s].status = "none" <=> monitor[s] = "none"

IInv ==
  /\ TrustIsWatched
  /\ SessionsHaveTasks
  /\ TrustEndsOnTime
  /\ OneTerminalEvent
  /\ NumberIsForgotten
  /\ EndingIsObservable
=============================================================================
