------------------------------- MODULE Screening -------------------------------
(***************************************************************************)
(* Inbound calls: an institution announces a call it is about to place     *)
(* (app/api/routes_verified_caller.py, app/announce.py), and a callee's    *)
(* client asks about the number that rings, by Tier 1's screen             *)
(* (app/screening.py) or Tier 2's local evidence                           *)
(* (app/registry/evidence.py).  Both record the caller's velocity          *)
(* (app/velocity.py), look the number up in the registry                   *)
(* (app/registry/directory.py) and spend one use of an announcement.       *)
(*                                                                         *)
(* Every store call runs on a thread of its own, so checks of one tenant   *)
(* interleave between the read of an announcement and its commit.  A       *)
(* number is the sequence of its digits; an entry's value is a number or   *)
(* the prefix of a block.  A tenant stands for its key.                    *)
(***************************************************************************)
EXTENDS Naturals, Sequences, FiniteSets, FiniteSetsExt, SequencesExt

CONSTANTS
  Tenant, Institution, Check, Callee,
  Files,                 \* the registry files an operator may configure
  InstitutionOf,         \* settings.institution_keys
  Asks, Announces,       \* what clients send: [tier, tenant, caller, callee] and [tenant, caller, callee, ttl]
  Claims,                \* the institutions a claimed identity may name
  Stage,                 \* the tenants whose credential reaches the stage console
  MaxAnnouncements,      \* bounds the announcements of a behaviour
  DefaultTtl, MaxTtl, VelocityWindow, Threshold,
  DemoMode, Act7Institution, Switchboard, Hotline, Customer, Stranger,
  MaxTime, None

Number == Seq(0..9)
Entry == [value : Number, prefix : BOOLEAN, institution : Institution, outbound : BOOLEAN]
Ask == [tier : {1, 2}, tenant : Tenant, caller : Number, callee : Callee \cup {None}]
Announce == [tenant : Tenant, caller : Number, callee : Callee, ttl : Int \cup {None}]

ASSUME ScreeningAssumption ==
  /\ InstitutionOf \in [Tenant -> Institution \cup {None}] /\ Stage \subseteq Tenant
  /\ {DefaultTtl, MaxTtl, VelocityWindow} \subseteq Nat \ {0} /\ Threshold \in Nat
  /\ Asks \subseteq Ask /\ \A req \in Asks : req.tier = 1 => req.callee # None
  /\ Announces \subseteq Announce /\ \A file \in Files : file \subseteq Entry
  /\ {Switchboard, Hotline} \subseteq Number /\ {Customer, Stranger} \subseteq Callee
  /\ Act7Institution \notin Institution /\ DemoMode \in BOOLEAN
  /\ IsFiniteSet(Check) /\ None \notin Institution \cup Callee

VARIABLES
  registry,       \* the loaded file
  now,
  announcements,  \* CallAnnouncementRow
  made,           \* how many were ever recorded: ids are not used again
  uses,           \* AnnouncementUseRow: <<announcement, tenant>>
  screens,        \* ScreenEventRow
  check           \* how far each request has come, and its answer

vars == <<registry, now, announcements, made, uses, screens, check>>

Announcement == [id : Nat \ {0}, institution : Institution \cup {Act7Institution}, caller : Number,
                 callee : Callee, expires : Nat]

-----------------------------------------------------------------------------
(* The registry: Directory's load and lookup *)

BlocksContaining(file, value) == {b \in file : b.prefix /\ IsStrictPrefix(b.value, value)}

\* _reject_conflicts: one number, one owner, whichever index would answer first.
Loads(file) ==
  /\ \A e, f \in file : e # f => e.value # f.value
  /\ \A e \in file : \A b \in BlocksContaining(file, e.value) : b.institution = e.institution

\* Directory.lookup: an exact entry, else the longest block; the empty set is "not listed".
Lookup(number) ==
  LET exact == {e \in registry : ~e.prefix /\ e.value = number}
      blocks == {e \in registry : e.prefix /\ IsPrefix(e.value, number)}
  IN  IF exact # {} THEN exact
      ELSE {e \in blocks : \A f \in blocks : Len(f.value) <= Len(e.value)}

\* check_claim is False: the claim names other institutions and not the owner.
\* A claim is the set of institutions whose whole name its words contain.
Mismatch(claim, e) == e.institution \notin claim /\ claim # {}

-----------------------------------------------------------------------------
(* Announcements and velocity *)

Ttl(requested) ==
  IF requested = None THEN Min({DefaultTtl, MaxTtl}) ELSE Max({1, Min({requested, MaxTtl})})

Live(caller, callee) ==
  {a \in announcements : a.caller = caller /\ a.callee = callee /\ a.expires > now}

Newest(rows) == {a \in rows : \A b \in rows : b.expires <= a.expires}

Spent(a, tenant) == <<a.id, tenant>> \in uses

Record(institution, caller, callee, ttl) ==
  /\ made < MaxAnnouncements /\ made' = made + 1
  /\ announcements' = announcements \cup {[id |-> made', institution |-> institution, caller |-> caller,
                                           callee |-> callee, expires |-> now + Ttl(ttl)]}
  /\ UNCHANGED <<registry, now, uses, screens, check>>

\* institution_for_key; the request body never names the institution.
SpeaksFor(tenant, institution) == institution # None /\ InstitutionOf[tenant] = institution

\* POST /v1/verified-caller/pre-announce: the key is bound to an institution, the
\* number is registered to that institution, and it calls from it.
PreAnnounce(req) ==
  \E e \in Lookup(req.caller) : /\ SpeaksFor(req.tenant, e.institution) /\ e.outbound
                                 /\ Record(e.institution, req.caller, req.callee, req.ttl)

\* POST /console/act7/announce: constants only, under an institution of its own.
Act7Announce == DemoMode /\ Record(Act7Institution, Switchboard, Customer, None)

\* announce.purge_expired: the uses of the expired rows, then the rows.
PurgeExpired ==
  LET expired == {a \in announcements : a.expires <= now}
  IN  /\ expired # {}
      /\ uses' = {u \in uses : \A a \in expired : a.id # u[1]}
      /\ announcements' = announcements \ expired
      /\ UNCHANGED <<registry, now, made, screens, check>>

\* Mutant: every tenant's screens are counted.
SeenByAnyone(tenant, caller) ==
  {s.callee : s \in {s \in screens : s.caller = caller /\ s.at + VelocityWindow > now}}

DistinctCallees(tenant, caller) ==
  {s.callee : s \in {s \in screens : /\ s.caller = caller /\ s.tenant = tenant
                                     /\ s.at + VelocityWindow > now}}

HighVelocity(tenant, caller) ==
  Threshold > 0 /\ Cardinality(DistinctCallees(tenant, caller)) >= Threshold

\* POST /console/reset-stage: velocity.purge_older_than(0), every tenant's rows.
\* (The sweeper's purge keeps rows for longer than any window counts them, so
\* nothing sees it.)
ResetStage ==
  /\ DemoMode /\ screens # {}
  /\ screens' = {}
  /\ UNCHANGED <<registry, now, announcements, made, uses, check>>

-----------------------------------------------------------------------------
(* A check: record, count, find, spend, answer *)

Asked(pc, tier, tenant, caller, callee) ==
  [pc |-> pc, tier |-> tier, tenant |-> tenant, caller |-> caller, callee |-> callee,
   fast |-> FALSE, row |-> {}, live |-> {}, credit |-> {}, stood |-> FALSE, answer |-> {}]

Unasked == Asked("unasked", 0, None, <<>>, None)

Set(c, r) == check' = [check EXCEPT ![c] = r]

\* velocity.record, before the answer is computed; without a callee nothing is recorded.
Begin(c, tier, tenant, caller, callee) ==
  /\ check[c].pc = "unasked"
  /\ Set(c, Asked("recorded", tier, tenant, caller, callee))
  /\ screens' = IF callee = None THEN screens
                ELSE screens \cup {[tenant |-> tenant, caller |-> caller, callee |-> callee, at |-> now]}
  /\ UNCHANGED <<registry, now, announcements, made, uses>>

Screen(c, req) == req.tier = 1 /\ Begin(c, 1, req.tenant, req.caller, req.callee)

ReverseVerify(c, req) == req.tier = 2 /\ Begin(c, 2, req.tenant, req.caller, req.callee)

\* The announced and the spoofed call present one number; only the callee differs.
Act7Screen(c, tenant) ==
  /\ DemoMode
  /\ \/ Begin(c, 1, tenant, Switchboard, Customer)
     \/ Begin(c, 1, tenant, Switchboard, Stranger)
     \/ Begin(c, 1, tenant, Hotline, Customer)

Count(c) ==
  /\ check[c].pc = "recorded"
  /\ Set(c, [check[c] EXCEPT !.pc = "counted", !.fast = HighVelocity(check[c].tenant, check[c].caller)])
  /\ UNCHANGED <<registry, now, announcements, made, uses, screens>>

\* screen_call's basis, in its order: an announcement beats the velocity, the
\* velocity beats the registry.
Basis(fast, credit, entry, claim) ==
  CASE credit # {} -> "pre_announcement"
    [] credit = {} /\ fast -> "caller_velocity"
    [] credit = {} /\ ~fast /\ entry = {} -> "no_local_evidence"
    [] OTHER -> LET e == CHOOSE e \in entry : TRUE
                IN  IF ~e.outbound THEN "registry_inbound_only"
                    ELSE IF Mismatch(claim, e) THEN "registry_claim_mismatch"
                    ELSE "registry_match_unannounced"

\* gather's links, which do not exclude one another.
Signals(fast, credit, entry, claim) ==
     {s \in {"CALLER_HIGH_VELOCITY"} : fast}
  \cup {s \in {"CALL_PRE_ANNOUNCED"} : credit # {}}
  \cup {s \in {"REGISTRY_UNLISTED"} : entry = {}}
  \cup {s \in {"REGISTRY_INBOUND_ONLY"} : \E e \in entry : ~e.outbound}
  \cup {s \in {"REGISTRY_CLAIM_MISMATCH"} : \E e \in entry : e.outbound /\ Mismatch(claim, e)}
  \cup {s \in {"REGISTRY_MATCH_UNANNOUNCED"} :
          credit = {} /\ \E e \in entry : e.outbound /\ ~Mismatch(claim, e)}

Answer(c, r, credit) ==
  \E claim \in Claims :
    LET entry == Lookup(r.caller)
    IN  Set(c, [pc |-> "answered", tier |-> r.tier, tenant |-> r.tenant, caller |-> r.caller,
                callee |-> r.callee, fast |-> FALSE, row |-> {}, credit |-> credit,
                live |-> IF credit = {} THEN r.live ELSE {}, stood |-> r.stood,
                answer |-> IF r.tier = 1 THEN {Basis(r.fast, credit, entry, claim)}
                           ELSE Signals(r.fast, credit, entry, claim)])

\* announce.find reads the newest live row and whether this reader has used it.
Find(c) ==
  LET r == check[c]
      live == IF r.callee = None THEN {} ELSE Live(r.caller, r.callee)
      seen == [r EXCEPT !.live = live]
  IN  /\ r.pc = "counted"
      /\ \/ live = {} /\ Answer(c, seen, {})
         \/ \E a \in Newest(live) : Spent(a, r.tenant) /\ Answer(c, seen, {})
         \/ \E a \in Newest(live) : /\ ~Spent(a, r.tenant)
                                    /\ Set(c, [seen EXCEPT !.pc = "spending", !.row = {a}])
      /\ UNCHANGED <<registry, now, announcements, made, uses, screens>>

\* Mutant: the losing commit overwrites the winner's row.
NoConflict(a, tenant) == FALSE

\* The primary key decides between two finds of one reader.
Conflicts(a, tenant) == <<a.id, tenant>> \in uses

Spend(c) ==
  LET r == check[c]
  IN  /\ r.pc = "spending"
      /\ \E a \in r.row :
           /\ uses' = uses \cup {<<a.id, r.tenant>>}
           /\ Answer(c, [r EXCEPT !.stood = a \in announcements],
                     IF Conflicts(a, r.tenant) THEN {} ELSE {a})
      /\ UNCHANGED <<registry, now, announcements, made, screens>>

-----------------------------------------------------------------------------
Tick == now < MaxTime /\ now' = now + 1 /\ UNCHANGED <<registry, announcements, made, uses, screens, check>>

\* get_directory: a file with a conflict stops the service at its start.
Init ==
  /\ registry \in {f \in Files : Loads(f)}
  /\ now = 0 /\ made = 0 /\ announcements = {} /\ uses = {} /\ screens = {}
  /\ check = [c \in Check |-> Unasked]

Next ==
  \/ Tick \/ PurgeExpired \/ ResetStage \/ Act7Announce
  \/ \E req \in Announces : PreAnnounce(req)
  \/ \E c \in Check : Count(c) \/ Find(c) \/ Spend(c)
  \/ \E c \in Check, req \in Asks : Screen(c, req) \/ ReverseVerify(c, req)
  \/ \E c \in Check, t \in Stage : Act7Screen(c, t)

Spec == Init /\ [][Next]_vars

-----------------------------------------------------------------------------
Answered == {c \in Check : check[c].pc = "answered"}

\* One announcement is worth one verification to one tenant, whichever tier asks
\* and however its checks interleave; and it is for the call that was announced.
\* (A commit that lands after the sweep has dropped the expired row and its uses
\* finds no conflict: the property is about the commits the row still stood for.)
VerifiesOnce ==
  \A c \in Answered : \A a \in check[c].credit :
    /\ a.caller = check[c].caller /\ a.callee = check[c].callee
    /\ check[c].stood =>
         \A d \in Answered \ {c} :
           check[d].stood /\ check[d].tenant = check[c].tenant => a \notin check[d].credit

\* What one tenant screens costs no other tenant its answer: an announcement that
\* stood for a call is refused only to a tenant that was credited with it or with
\* another that stood beside it.
OwnUseRefuses ==
  \A c \in Answered :
    check[c].live # {} /\ check[c].credit = {} =>
      \E d \in Check \ {c} : /\ check[d].tenant = check[c].tenant
                             /\ check[d].credit \cap check[c].live # {}

\* The callees a check's tenant itself named to this caller's number.
OwnCallees(c) ==
  {check[d].callee : d \in {d \in Check : /\ check[d].tenant = check[c].tenant
                                         /\ check[d].caller = check[c].caller}} \ {None}

\* A caller is called a campaign only to a tenant that asked about enough calls
\* of this caller itself: nobody marks a number for others.
CampaignIsTheTenantsOwn ==
  \A c \in Answered :
    check[c].answer \cap {"caller_velocity", "CALLER_HIGH_VELOCITY"} # {} =>
      Cardinality(OwnCallees(c)) >= Threshold

\* An entry is about a number when it is the number or a block the number is in.
About(e, number) == IF e.prefix THEN IsPrefix(e.value, number) ELSE e.value = number

\* A call verifies only by the institution that every entry about the number names,
\* as one it calls from; the console's own fixture speaks under no institution.
VerifiedIsTheOwners ==
  \A c \in Answered : \A a \in check[c].credit :
    a.institution \in Institution =>
      \A e \in registry : About(e, check[c].caller) =>
        /\ e.institution = a.institution
        /\ e.value = check[c].caller => e.outbound

\* An announcement is used up once by each tenant it verified a call for, and by
\* nobody else (find, AnnouncementUseRow's key).
AnnouncementsAreUsedOnce == VerifiesOnce /\ OwnUseRefuses

\* Nobody speaks for another: not for a number of another institution, nor for
\* another tenant's view of a caller (Directory, record_and_count).
NobodySpeaksForAnother == VerifiedIsTheOwners /\ CampaignIsTheTenantsOwn

\* tests/test_verified_caller.py:529-531: a bank that really is calling twice
\* announces twice.  A tenant is refused only when it was credited with every
\* announcement that stood.
SecondCallIsVerified ==
  \A c \in Answered :
    check[c].credit = {} =>
      \A a \in check[c].live :
        \E d \in Check \ {c} : check[d].tenant = check[c].tenant /\ a \in check[d].credit

-----------------------------------------------------------------------------
(* What every reachable state satisfies, whichever way the checks interleave *)

Bases == {"pre_announcement", "caller_velocity", "no_local_evidence", "registry_inbound_only",
          "registry_claim_mismatch", "registry_match_unannounced"}
Links == {"CALLER_HIGH_VELOCITY", "CALL_PRE_ANNOUNCED", "REGISTRY_UNLISTED", "REGISTRY_INBOUND_ONLY",
          "REGISTRY_CLAIM_MISMATCH", "REGISTRY_MATCH_UNANNOUNCED"}

Verdict ==
  [pc : {"unasked", "recorded", "counted", "spending", "answered"}, tier : 0..2,
   tenant : Tenant \cup {None}, caller : Number, callee : Callee \cup {None}, fast : BOOLEAN,
   row : SUBSET Announcement, live : SUBSET Announcement, credit : SUBSET Announcement,
   stood : BOOLEAN, answer : SUBSET (Bases \cup Links)]

\* The variables keep their types: the announcements, uses and screens of the
\* tables, and how far a check has come.
TypeOK ==
  /\ registry \subseteq Entry /\ Loads(registry) /\ now \in Nat /\ made \in Nat
  /\ announcements \subseteq Announcement
  /\ uses \subseteq (Nat \X (Tenant \cup {None}))
  /\ screens \subseteq [tenant : Tenant \cup {None}, caller : Number, callee : Callee, at : Nat]
  /\ check \in [Check -> Verdict]

\* The announcements a check has read; those anybody still knows of.
Met(c) == check[c].row \cup check[c].live \cup check[c].credit
Known == announcements \cup UNION {Met(c) : c \in Check}

\* Ids are not used again, not even the ids of rows the sweep has dropped.
IdsAreUnique ==
  \A a \in Known : a.id <= made /\ \A b \in Known : a.id = b.id => a = b

\* An announcement under an institution is for a number that only it speaks for.
OwnersAnnounce ==
  \A a \in Known : a.institution \in Institution =>
    \A e \in registry : About(e, a.caller) =>
      e.institution = a.institution /\ (e.value = a.caller => e.outbound)

\* What a check holds at each point on its way.
StepsInOrder ==
  \A c \in Check :
    /\ check[c].pc = "unasked" => check[c] = Unasked
    /\ check[c].pc # "answered" =>
         check[c].credit = {} /\ ~check[c].stood /\ check[c].answer = {}
    /\ check[c].pc \notin {"spending", "answered"} => check[c].live = {}
    /\ check[c].pc # "spending" => check[c].row = {}
    /\ check[c].row \subseteq check[c].live
    /\ check[c].credit # {} => check[c].live = {}
    /\ \A a \in Met(c) : a.caller = check[c].caller /\ a.callee = check[c].callee

\* A use is on record only for a reader that was credited, and a credit whose
\* announcement still stands has its use on record.
UsesAreCredits ==
  /\ \A u \in uses : \E d \in Check : check[d].tenant = u[2] /\ \E a \in check[d].credit : a.id = u[1]
  /\ \A c \in Check : \A a \in check[c].credit \cap announcements :
       check[c].stood => Spent(a, check[c].tenant)

\* What is counted was asked, and a check that found a campaign has its tenant's
\* own questions to show for it.
ScreensWereAsked ==
  \A s \in screens : \E d \in Check : /\ check[d].tenant = s.tenant /\ check[d].caller = s.caller
                                       /\ check[d].callee = s.callee

Campaign == {"caller_velocity", "CALLER_HIGH_VELOCITY"}

CampaignsAreOwn ==
  \A c \in Check :
    check[c].fast \/ check[c].answer \cap Campaign # {} => Cardinality(OwnCallees(c)) >= Threshold

IInv ==
  /\ TypeOK /\ IdsAreUnique /\ OwnersAnnounce /\ StepsInOrder /\ UsesAreCredits
  /\ ScreensWereAsked /\ CampaignsAreOwn /\ AnnouncementsAreUsedOnce
=============================================================================
