-------------------------------- MODULE Consent --------------------------------
(***************************************************************************)
(* Number Verification consent: the in-process ConsentStore                *)
(* (app/consent.py) and the handlers that move a record through it         *)
(* (app/api/routes_consent.py).                                            *)
(*                                                                         *)
(* Every store method holds one lock, so it is atomic; the handlers run on *)
(* one event loop and interleave at their awaits, with the retention       *)
(* thread and with the clock.  A handler keeps its reference to a record   *)
(* that the store has dropped, so `rec` outlives `records`.  The access    *)
(* token is only ever present or absent.  Nothing is persisted: a restart   *)
(* is Init again, with other consent ids.                                  *)
(***************************************************************************)
EXTENDS Naturals, FiniteSets

CONSTANTS
  Consent,           \* consent ids that may be created
  Owner,             \* merchants (owner_hash)
  Request,           \* callback and verify requests
  None,
  TTL,               \* settings.nac_consent_ttl_seconds
  Retention,         \* terminal_retention_seconds
  MaxPerOwner,       \* max_records_per_owner
  MaxRecords,        \* max_records
  MaxFlight,         \* longest one awaited operator call lasts
  SweepEvery,        \* longest time between two retention sweeps
  MaxTime            \* bound on the clock, for model checking

ASSUME NoneAssumption == None \notin Owner \cup Consent
ASSUME NumberAssumption ==
  /\ {TTL, Retention, MaxPerOwner, MaxRecords, MaxFlight, SweepEvery, MaxTime} \subseteq Nat
\* Operator calls and database writes time out well inside the 300 s retention.
ASSUME FlightAssumption == MaxFlight < Retention

VARIABLES
  rec,        \* every ConsentRecord object, dropped from the store or not
  records,    \* consents in ConsentStore._records
  states,     \* consents whose state still resolves (ConsentStore._states)
  start,      \* the create request of each consent
  pc,         \* where each callback or verify request is
  on,         \* the record each of those requests holds
  since,      \* when each awaited call began
  startedAt,  \* when each create request began waiting
  sweepDue,   \* by when the retention thread has swept again
  now,
  \* Observed; no action is guarded by these.
  exchanged,  \* requests that sent an authorization code to the operator
  charged,    \* requests whose investigation began
  saved       \* consents whose chain was stored

stores == <<rec, records, states>>
vars == <<rec, records, states, start, pc, on, since, startedAt, sweepDue, now,
          exchanged, charged, saved>>

-----------------------------------------------------------------------------
Live == {"PENDING", "EXCHANGING", "AUTHORIZED", "VERIFYING"}
Terminal == {"COMPLETED", "DENIED", "FAILED", "EXPIRED"}
Status == {"unborn"} \cup Live \cup Terminal

Record == [status : Status, owner : Owner \cup {None}, url : BOOLEAN, token : BOOLEAN,
           chain : BOOLEAN, expiresAt : Nat, terminalAt : Nat]
Unborn == [status |-> "unborn", owner |-> None, url |-> FALSE, token |-> FALSE,
           chain |-> FALSE, expiresAt |-> 0, terminalAt |-> 0]

Awaiting == {"exchanging", "investigating", "saving", "saved"}

TypeOK ==
  /\ rec \in [Consent -> Record]
  /\ records \subseteq Consent
  /\ states \subseteq records
  /\ start \in [Consent -> {"none", "begin", "over"}]
  /\ pc \in [Request -> {"idle", "over"} \cup Awaiting]
  /\ on \in [Request -> Consent \cup {None}]
  /\ \A r \in Request : pc[r] \in Awaiting => on[r] \in Consent
  /\ since \in [Request -> Nat]
  /\ startedAt \in [Consent -> Nat]
  /\ sweepDue \in Nat
  /\ now \in Nat
  /\ exchanged \subseteq Request
  /\ charged \subseteq Request
  /\ saved \subseteq Consent

Init ==
  /\ rec = [c \in Consent |-> Unborn]
  /\ records = {}
  /\ states = {}
  /\ start = [c \in Consent |-> "none"]
  /\ pc = [r \in Request |-> "idle"]
  /\ on = [r \in Request |-> None]
  /\ since = [r \in Request |-> 0]
  /\ startedAt = [c \in Consent |-> 0]
  /\ sweepDue = SweepEvery
  /\ now = 0
  /\ exchanged = {}
  /\ charged = {}
  /\ saved = {}

-----------------------------------------------------------------------------
(* The record *)

Ended(r, status) ==
  [status |-> status, owner |-> r.owner, url |-> r.url, token |-> FALSE,
   chain |-> r.chain, expiresAt |-> r.expiresAt, terminalAt |-> now]
Moved(r, status, token) ==
  [status |-> status, owner |-> r.owner, url |-> r.url, token |-> token,
   chain |-> r.chain, expiresAt |-> r.expiresAt, terminalAt |-> r.terminalAt]

\* _expire
Expired(r) == IF r.expiresAt <= now /\ r.status \in Live THEN Ended(r, "EXPIRED") ELSE r

\* Mutant: sweep a record as soon as it is terminal.
PastTerminal(r) == r.status \in Terminal

\* _past_terminal_retention, asked of a record that was just offered to _expire
PastRetention(r) == r.status \in Terminal /\ now >= r.terminalAt + Retention

Put(c, r) == rec' = [rec EXCEPT ![c] = r]

\* _drop: the record and its state go together.
Drop(K) ==
  /\ records' = records \ K
  /\ states' = states \ K

Stale == {c \in records : PastRetention(Expired(rec[c]))}
Swept == [c \in Consent |-> IF c \in records THEN Expired(rec[c]) ELSE rec[c]]

\* owned() and by_state() of a record that is past its retention
Vanishes(c) ==
  /\ PastRetention(Expired(rec[c]))
  /\ Put(c, Expired(rec[c]))
  /\ Drop({c})

\* How late a record can turn terminal, and how long it can then stay.
Lateness == IF SweepEvery > MaxFlight THEN SweepEvery ELSE MaxFlight
Horizon == TTL + Lateness + Retention + SweepEvery

-----------------------------------------------------------------------------
(* POST /consents/number-verification *)

\* create(): sweep, the two caps, insert.
Create(c, o) ==
  LET kept == records \ Stale IN
  /\ rec[c].status = "unborn"
  /\ Cardinality({k \in kept : rec[k].owner = o}) < MaxPerOwner
  /\ Cardinality(kept) < MaxRecords
  /\ now + Horizon <= MaxTime
  /\ rec' = [Swept EXCEPT ![c] =
               [status |-> "PENDING", owner |-> o, url |-> FALSE, token |-> FALSE,
                chain |-> FALSE, expiresAt |-> now + TTL, terminalAt |-> 0]]
  /\ records' = kept \cup {c}
  /\ states' = (states \ Stale) \cup {c}
  /\ start' = [start EXCEPT ![c] = "begin"]
  /\ startedAt' = [startedAt EXCEPT ![c] = now]
  /\ UNCHANGED <<pc, on, since, sweepDue, now, exchanged, charged, saved>>

\* The provider's URL, set while PENDING; then public(), which expires.
StartSucceeds(c) ==
  LET r == rec[c]
      withUrl == [status |-> r.status, owner |-> r.owner, url |-> TRUE, token |-> r.token,
                  chain |-> r.chain, expiresAt |-> r.expiresAt, terminalAt |-> r.terminalAt]
  IN
  /\ start[c] = "begin"
  /\ Put(c, Expired(IF r.status = "PENDING" THEN withUrl ELSE r))
  /\ start' = [start EXCEPT ![c] = "over"]
  /\ UNCHANGED <<records, states, pc, on, since, startedAt, sweepDue, now,
                 exchanged, charged, saved>>

\* fail() asks nothing of the record's status.
StartFails(c) ==
  /\ start[c] = "begin"
  /\ Put(c, Ended(rec[c], "FAILED"))
  /\ start' = [start EXCEPT ![c] = "over"]
  /\ UNCHANGED <<records, states, pc, on, since, startedAt, sweepDue, now,
                 exchanged, charged, saved>>

StartCancelled(c) ==
  /\ start[c] = "begin"
  /\ start' = [start EXCEPT ![c] = "over"]
  /\ UNCHANGED <<stores, pc, on, since, startedAt, sweepDue, now, exchanged, charged, saved>>

-----------------------------------------------------------------------------
(* GET /consents/number-verification/callback *)

Wait(r, c, place) ==
  /\ pc' = [pc EXCEPT ![r] = place]
  /\ on' = [on EXCEPT ![r] = c]
  /\ since' = [since EXCEPT ![r] = now]
Leave(r) ==
  /\ pc' = [pc EXCEPT ![r] = "over"]
  /\ UNCHANGED <<on, since>>

\* A callback arrives with a state it can only know from the authorization URL.
Resolves(r, c) == pc[r] = "idle" /\ c \in states /\ rec[c].url

CallbackTooLate(r, c) ==
  /\ Resolves(r, c)
  /\ Vanishes(c)
  /\ Leave(r)
  /\ UNCHANGED <<start, startedAt, sweepDue, now, exchanged, charged, saved>>

\* The operator redirected with an error: deny().
CallbackDenied(r, c) ==
  LET e == Expired(rec[c]) IN
  /\ Resolves(r, c)
  /\ ~PastRetention(e)
  /\ Put(c, IF e.status \in {"PENDING", "EXCHANGING"} THEN Ended(e, "DENIED") ELSE e)
  /\ states' = states \ {c}
  /\ Leave(r)
  /\ UNCHANGED <<records, start, startedAt, sweepDue, now, exchanged, charged, saved>>

\* begin_callback() found a record that is no longer PENDING.
CallbackRefused(r, c) ==
  LET e == Expired(rec[c]) IN
  /\ Resolves(r, c)
  /\ ~PastRetention(e)
  /\ e.status # "PENDING"
  /\ Put(c, e)
  /\ Leave(r)
  /\ UNCHANGED <<records, states, start, startedAt, sweepDue, now, exchanged, charged, saved>>

\* Mutant: claim a record that is already being exchanged.
CallbackClaimsAgain(r, c, withCode) ==
  LET e == Expired(rec[c]) IN
  /\ Resolves(r, c)
  /\ e.status \in {"PENDING", "EXCHANGING"}
  /\ Put(c, Moved(e, "EXCHANGING", e.token))
  /\ Wait(r, c, "exchanging")
  /\ exchanged' = exchanged \cup {r}
  /\ UNCHANGED <<records, states, start, startedAt, sweepDue, now, charged, saved>>

\* begin_callback() claims the record for this request.  Without a code the
\* request ends here and the record waits in EXCHANGING for its expiry.
CallbackBegins(r, c, withCode) ==
  LET e == Expired(rec[c]) IN
  /\ Resolves(r, c)
  /\ e.status = "PENDING"
  /\ Put(c, Moved(e, "EXCHANGING", e.token))
  /\ states' = states \ {c}
  /\ IF withCode
     THEN Wait(r, c, "exchanging") /\ exchanged' = exchanged \cup {r}
     ELSE Wait(r, c, "over") /\ UNCHANGED exchanged
  /\ UNCHANGED <<records, start, startedAt, sweepDue, now, charged, saved>>

\* Mutant: authorize whatever the record has become.
ExchangeAlwaysAuthorizes(r) ==
  /\ pc[r] = "exchanging"
  /\ Put(on[r], Moved(rec[on[r]], "AUTHORIZED", TRUE))
  /\ Leave(r)
  /\ UNCHANGED <<records, states, start, startedAt, sweepDue, now, exchanged, charged, saved>>

\* authorize(), then public()
ExchangeSucceeds(r) ==
  LET e == Expired(rec[on[r]]) IN
  /\ pc[r] = "exchanging"
  /\ Put(on[r], IF e.status = "EXCHANGING" THEN Moved(e, "AUTHORIZED", TRUE) ELSE e)
  /\ Leave(r)
  /\ UNCHANGED <<records, states, start, startedAt, sweepDue, now, exchanged, charged, saved>>

ExchangeFails(r) ==
  /\ pc[r] = "exchanging"
  /\ Put(on[r], Ended(rec[on[r]], "FAILED"))
  /\ Leave(r)
  /\ UNCHANGED <<records, states, start, startedAt, sweepDue, now, exchanged, charged, saved>>

-----------------------------------------------------------------------------
(* POST /consents/{id}/verify, and GET /consents/{id} *)

\* owned() finds the record, claim_verification() takes its token.
Verify(r, c) ==
  LET e == Expired(rec[c]) IN
  /\ pc[r] = "idle"
  /\ c \in records
  /\ ~PastRetention(e)
  /\ e.status = "AUTHORIZED" /\ e.token
  /\ Put(c, Moved(e, "VERIFYING", e.token))
  /\ Wait(r, c, "investigating")
  /\ charged' = charged \cup {r}
  /\ UNCHANGED <<records, states, start, startedAt, sweepDue, now, exchanged, saved>>

\* A poll, a verify that is not ready or already answered, anyone else's id.
Read(c) ==
  /\ c \in records
  /\ \/ Vanishes(c)
     \/ /\ ~PastRetention(Expired(rec[c]))
        /\ Put(c, Expired(rec[c]))
        /\ UNCHANGED <<records, states>>
  /\ UNCHANGED <<start, pc, on, since, startedAt, sweepDue, now, exchanged, charged, saved>>

Investigated(r) ==
  /\ pc[r] = "investigating"
  /\ pc' = [pc EXCEPT ![r] = "saving"]
  /\ UNCHANGED <<stores, start, on, since, startedAt, sweepDue, now, exchanged, charged, saved>>

\* store.save_async: the chain is committed on its own thread.
Save(r) ==
  /\ pc[r] = "saving"
  /\ pc' = [pc EXCEPT ![r] = "saved"]
  /\ saved' = saved \cup {on[r]}
  /\ UNCHANGED <<stores, start, on, since, startedAt, sweepDue, now, exchanged, charged>>

Completed(r) ==
  [status |-> "COMPLETED", owner |-> r.owner, url |-> r.url, token |-> FALSE,
   chain |-> TRUE, expiresAt |-> r.expiresAt, terminalAt |-> now]

\* complete() asks nothing of the record's status either.
Complete(r) ==
  /\ pc[r] = "saved"
  /\ Put(on[r], Completed(rec[on[r]]))
  /\ Leave(r)
  /\ UNCHANGED <<records, states, start, startedAt, sweepDue, now, exchanged, charged, saved>>

\* `except Exception`: the investigation, the save or the response failed.
VerificationFails(r) ==
  /\ pc[r] \in {"investigating", "saving", "saved"}
  /\ Put(on[r], Ended(rec[on[r]], "FAILED"))
  /\ Leave(r)
  /\ UNCHANGED <<records, states, start, startedAt, sweepDue, now, exchanged, charged, saved>>

\* CancelledError is not an Exception: the record keeps the status it had.  A
\* save already on its thread may still commit.
Cancel(r) ==
  /\ pc[r] \in Awaiting
  /\ Leave(r)
  /\ \/ pc[r] = "saving" /\ saved' = saved \cup {on[r]}
     \/ UNCHANGED saved
  /\ UNCHANGED <<stores, start, startedAt, sweepDue, now, exchanged, charged>>

-----------------------------------------------------------------------------
(* Retention and time *)

\* purge_expired() from the retention thread.
Sweep ==
  /\ rec' = Swept
  /\ Drop(Stale)
  /\ sweepDue' = now + SweepEvery
  /\ UNCHANGED <<start, pc, on, since, startedAt, now, exchanged, charged, saved>>

Tick ==
  /\ now < MaxTime
  /\ now < sweepDue
  /\ \A r \in Request : pc[r] \in Awaiting => now < since[r] + MaxFlight
  /\ \A c \in Consent : start[c] = "begin" => now < startedAt[c] + MaxFlight
  /\ now' = now + 1
  /\ UNCHANGED <<stores, start, pc, on, since, startedAt, sweepDue, exchanged, charged, saved>>

StartRequest(c) == StartSucceeds(c) \/ StartFails(c) \/ StartCancelled(c)
Callback(r, c) ==
  \/ CallbackTooLate(r, c) \/ CallbackDenied(r, c) \/ CallbackRefused(r, c)
  \/ \E withCode \in BOOLEAN : CallbackBegins(r, c, withCode)
Resume(r) ==
  \/ ExchangeSucceeds(r) \/ ExchangeFails(r)
  \/ Investigated(r) \/ Save(r) \/ Complete(r) \/ VerificationFails(r)
  \/ Cancel(r)

Next ==
  \/ \E c \in Consent, o \in Owner : Create(c, o)
  \/ \E c \in Consent : StartRequest(c) \/ Read(c)
  \/ \E r \in Request, c \in Consent : Callback(r, c) \/ Verify(r, c)
  \/ \E r \in Request : Resume(r)
  \/ Sweep \/ Tick

Spec == Init /\ [][Next]_vars

-----------------------------------------------------------------------------
(* Properties *)

\* However callbacks and verify calls race, one consent sends one authorization
\* code to the operator and drives one investigation, and only an exchanged
\* consent is investigated.
OneCodeOneInvestigation ==
  /\ \A r, s \in exchanged : on[r] = on[s] => r = s
  /\ \A r, s \in charged : on[r] = on[s] => r = s
  /\ \A r \in charged : \E s \in exchanged : on[s] = on[r]

\* The access token is held exactly while it can be used: no transition out of
\* AUTHORIZED or VERIFYING, however late or by whom, leaves it behind, and no
\* late exchange puts it into a record that has ended.
TokenOnlyWhileUsable ==
  \A c \in Consent : rec[c].token <=> rec[c].status \in {"AUTHORIZED", "VERIFYING"}

\* No record is displaced: it leaves the store only once it has been terminal for
\* the retention, also when its verification finished after its expiry, and a
\* COMPLETED one names a stored chain.
ResultIsKept ==
  \A c \in Consent :
    /\ rec[c].status # "unborn" /\ c \notin records
         => rec[c].status \in Terminal /\ now >= rec[c].terminalAt + Retention
    /\ rec[c].status = "COMPLETED" => rec[c].chain /\ c \in saved

\* A record that nobody reads and nobody creates beside is still reclaimed.
NoRecordOutstays ==
  \A c \in records : now <= rec[c].expiresAt + Lateness + Retention + SweepEvery

\* A consent has one code and one investigation, and its token no longer than it
\* may be used, however callbacks, verifies and expiry interleave.
OneCodeOneToken == OneCodeOneInvestigation /\ TokenOnlyWhileUsable

\* A record stays for its retention and no longer, whoever ends it and when.
RecordsStandTheirTime == ResultIsKept /\ NoRecordOutstays

\* An ended consent is never live again, and only an EXPIRED one is revised, by
\* the call that was still in flight when it expired.
OnlyExpiryIsRevised ==
  [][\A c \in Consent :
       rec[c].status \in Terminal /\ rec'[c] # rec[c] =>
         rec[c].status = "EXPIRED" /\ rec'[c].status \in {"COMPLETED", "FAILED"}]_vars

\* consent.py: the terminal statuses are those "that no longer accept a
\* transition".
TerminalIsFinal ==
  [][\A c \in Consent :
       rec[c].status \in Terminal => rec'[c].status = rec[c].status]_vars
-----------------------------------------------------------------------------
(* The inductive invariant the proofs use *)

Waiting == {r \in Request : pc[r] \in Awaiting}

\* A request that waits is alone with its record, which is out of the callback's
\* reach and still in the store: at worst it has expired under the request.
WaitingHoldsRecord ==
  \A r \in Waiting :
    LET c == on[r] IN
    /\ c \in records \ states
    /\ start[c] # "begin"
    /\ rec[c].status \in Terminal => since[r] <= rec[c].terminalAt
    /\ pc[r] = "exchanging" => r \in exchanged /\ rec[c].status \in {"EXCHANGING", "EXPIRED"}
    /\ pc[r] # "exchanging" => r \in charged /\ rec[c].status \in {"VERIFYING", "EXPIRED"}
    /\ pc[r] = "saved" => c \in saved

\* A callback finds a record by its state only until one has claimed it.
StatesAreOpen ==
  \A c \in states : rec[c].status \notin {"EXCHANGING", "AUTHORIZED", "VERIFYING"}
OneWaits == \A r, s \in Waiting : on[r] = on[s] => r = s

\* No wait outlasts MaxFlight, and none began after its record's expiry.
WaitIsShort ==
  \A r \in Waiting :
    /\ since[r] <= now /\ now <= since[r] + MaxFlight
    /\ since[r] <= rec[on[r]].expiresAt

\* Until its create request has its answer, a record has no URL to be called by.
StartHoldsRecord ==
  \A c \in Consent : start[c] = "begin" =>
    /\ c \in records
    /\ ~rec[c].url
    /\ rec[c].status \in {"PENDING", "EXPIRED"}
    /\ startedAt[c] <= now /\ now <= startedAt[c] + MaxFlight
    /\ startedAt[c] <= rec[c].expiresAt
    /\ rec[c].status = "EXPIRED" => startedAt[c] <= rec[c].terminalAt

\* The status of a record says which requests it has had.
StatusTells ==
  /\ \A r \in exchanged :
       pc[r] # "idle" /\ on[r] \in Consent /\ rec[on[r]].status \notin {"unborn", "PENDING"}
  /\ \A r \in charged :
       pc[r] # "idle" /\ on[r] \in Consent
       /\ rec[on[r]].status \in {"VERIFYING"} \cup Terminal
  /\ \A c \in Consent : rec[c].status = "AUTHORIZED" => \E s \in exchanged : on[s] = c

\* Each sweep leaves nothing for the one before the next.
SweptInTime ==
  /\ now <= sweepDue /\ sweepDue <= now + SweepEvery
  /\ \A c \in records :
       /\ rec[c].status # "unborn"
       /\ rec[c].status \in Live => sweepDue <= rec[c].expiresAt + SweepEvery
       /\ rec[c].status \in Terminal =>
            /\ sweepDue <= rec[c].terminalAt + Retention + SweepEvery
            /\ rec[c].terminalAt <= rec[c].expiresAt + Lateness

IInv ==
  /\ WaitingHoldsRecord
  /\ OneWaits
  /\ StatesAreOpen
  /\ WaitIsShort
  /\ StartHoldsRecord
  /\ StatusTells
  /\ SweptInTime
  /\ OneCodeOneInvestigation
  /\ TokenOnlyWhileUsable
  /\ ResultIsKept
=============================================================================
