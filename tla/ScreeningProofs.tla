---------------------------- MODULE ScreeningProofs ----------------------------
(***************************************************************************)
(* Proofs about Screening, for every registry file that loads, every set   *)
(* of tenants, calls and concurrent checks, and every window.              *)
(***************************************************************************)
EXTENDS Screening, FiniteSetTheorems, SequenceTheorems, TLAPS

-----------------------------------------------------------------------------
(* The registry *)

\* A prefix, element by element.
LEMMA PrefixElements ==
  ASSUME NEW s \in Number, NEW t \in Number
  PROVE  IsPrefix(s, t) <=> Len(s) <= Len(t) /\ \A i \in 1..Len(s) : s[i] = t[i]
<1>1. Len(s) \in Nat /\ Len(t) \in Nat
  BY DEF Number
<1>2. ASSUME Len(s) <= Len(t)
      PROVE  SubSeq(s, 1, Len(s)) = SubSeq(t, 1, Len(s)) <=> \A i \in 1..Len(s) : s[i] = t[i]
  <2>1. /\ SubSeq(s, 1, Len(s)) \in Seq(0..9) /\ Len(SubSeq(s, 1, Len(s))) = Len(s)
        /\ \A i \in 1..Len(s) : SubSeq(s, 1, Len(s))[i] = s[i]
    BY <1>1, SubSeqProperties DEF Number
  <2>2. /\ SubSeq(t, 1, Len(s)) \in Seq(0..9) /\ Len(SubSeq(t, 1, Len(s))) = Len(s)
        /\ \A i \in 1..Len(s) : SubSeq(t, 1, Len(s))[i] = t[i]
    BY <1>1, <1>2, SubSeqProperties DEF Number
  <2> QED BY <1>1, <2>1, <2>2, SeqEqual
<1> QED BY <1>2 DEF IsPrefix

\* Of two prefixes of a number, the shorter is a prefix of the longer.
LEMMA PrefixesNest ==
  ASSUME NEW s \in Number, NEW t \in Number, NEW u \in Number,
         IsPrefix(s, u), IsPrefix(t, u), Len(s) <= Len(t)
  PROVE  IsPrefix(s, t)
<1>1. Len(s) \in Nat /\ Len(t) \in Nat /\ Len(u) \in Nat
  BY DEF Number
<1>2. /\ \A i \in 1..Len(s) : s[i] = u[i]
      /\ \A i \in 1..Len(t) : t[i] = u[i]
  BY PrefixElements
<1>3. \A i \in 1..Len(s) : s[i] = t[i]
  BY <1>1, <1>2
<1> QED BY <1>3, PrefixElements

\* A prefix as long as the number is the number.
LEMMA WholePrefix ==
  ASSUME NEW s \in Number, NEW t \in Number, IsPrefix(s, t), Len(t) <= Len(s)
  PROVE  s = t
<1>1. Len(s) \in Nat /\ Len(t) \in Nat /\ Len(s) <= Len(t) /\ \A i \in 1..Len(s) : s[i] = t[i]
  BY PrefixElements DEF Number
<1>2. Len(s) = Len(t)
  BY <1>1
<1> QED BY <1>1, <1>2, SeqEqual DEF Number

\* The entry a lookup answers with and every other entry about the number agree:
\* one number, one owner (_reject_conflicts, lookup).
LEMMA OneNumberOneOwner ==
  ASSUME registry \subseteq Entry, Loads(registry),
         NEW number \in Number, NEW e \in Lookup(number), NEW f \in registry, About(f, number)
  PROVE  f.institution = e.institution /\ (f.value = number => f = e)
<1>1. e \in registry
  BY DEF Lookup
<1>2. /\ e.value \in Number /\ f.value \in Number /\ e.prefix \in BOOLEAN /\ f.prefix \in BOOLEAN
      /\ Len(e.value) \in Nat /\ Len(f.value) \in Nat /\ Len(number) \in Nat
  BY <1>1 DEF Entry, Number
<1>3. \A x, y \in registry : x # y => x.value # y.value
  BY DEF Loads
<1>4. ASSUME NEW x \in registry, NEW b \in registry, b.prefix, IsPrefix(b.value, x.value), b # x
      PROVE  b.institution = x.institution
  <2>1. b.value # x.value
    BY <1>3, <1>4
  <2>2. b \in BlocksContaining(registry, x.value)
    BY <1>4, <2>1 DEF BlocksContaining, IsStrictPrefix
  <2> QED BY <2>2 DEF Loads
<1>5. CASE \E x \in registry : ~x.prefix /\ x.value = number
  <2>1. ~e.prefix /\ e.value = number
    BY <1>5 DEF Lookup
  <2>2. CASE f.prefix
    <3>1. IsPrefix(f.value, e.value) /\ f # e
      BY <2>1, <2>2 DEF About
    <3> QED BY <1>1, <1>3, <1>4, <2>1, <2>2, <3>1
  <2>3. CASE ~f.prefix
    BY <1>1, <1>3, <2>1, <2>3 DEF About
  <2> QED BY <2>2, <2>3
<1>6. CASE ~\E x \in registry : ~x.prefix /\ x.value = number
  <2>1. f.prefix /\ IsPrefix(f.value, number)
    BY <1>6 DEF About
  <2>2. /\ e.prefix /\ IsPrefix(e.value, number)
        /\ \A x \in registry : x.prefix /\ IsPrefix(x.value, number) => Len(x.value) <= Len(e.value)
    BY <1>6 DEF Lookup
  <2>3. IsPrefix(f.value, e.value)
    BY <1>2, <2>1, <2>2, PrefixesNest
  <2>4. f.institution = e.institution
    BY <1>1, <1>4, <2>1, <2>3
  <2>5. ASSUME f.value = number
        PROVE  f = e
    <3>1. Len(number) <= Len(e.value)
      BY <2>1, <2>2, <2>5
    <3>2. e.value = number
      BY <1>2, <2>2, <3>1, WholePrefix
    <3> QED BY <1>1, <1>3, <2>5, <3>2
  <2> QED BY <2>4, <2>5
<1> QED BY <1>5, <1>6

\* An announcement stands for a time, and never longer than the limit.
LEMMA TtlIsBounded ==
  ASSUME NEW requested \in Int \cup {None}
  PROVE  Ttl(requested) \in 1..MaxTtl
<1>1. DefaultTtl \in Nat /\ DefaultTtl > 0 /\ MaxTtl \in Nat /\ MaxTtl > 0
  BY ScreeningAssumption
<1>2. \A x, y \in Int : Min({x, y}) = (IF x <= y THEN x ELSE y)
  BY DEF Min
<1>3. \A x, y \in Int : Max({x, y}) = (IF x >= y THEN x ELSE y)
  BY DEF Max
<1>4. CASE requested = None
  BY <1>1, <1>2, <1>4 DEF Ttl
<1>5. CASE requested # None
  <2>1. requested \in Int
    BY <1>5
  <2>2. Min({requested, MaxTtl}) \in Int /\ Min({requested, MaxTtl}) <= MaxTtl
    BY <1>1, <1>2, <2>1
  <2>3. Ttl(requested) = Max({1, Min({requested, MaxTtl})})
    BY <1>5 DEF Ttl
  <2> HIDE DEF Ttl
  <2> QED BY <1>1, <1>3, <2>2, <2>3
<1> QED BY <1>4, <1>5

-----------------------------------------------------------------------------
(* The steps of a check *)

\* A check keeps its question on its way to its answer.
SameAsker(v, r) ==
  v.tier = r.tier /\ v.tenant = r.tenant /\ v.caller = r.caller /\ v.callee = r.callee

\* A request's question is recorded before anything is computed.
LEMMA BeginIs ==
  ASSUME TypeOK, NEW c \in Check, NEW tier \in 1..2, NEW tenant \in Tenant, NEW caller \in Number,
         NEW callee \in Callee \cup {None}, Begin(c, tier, tenant, caller, callee)
  PROVE  /\ check[c].pc = "unasked"
         /\ \E v \in Verdict :
              /\ check' = [check EXCEPT ![c] = v] /\ v.pc = "recorded"
              /\ v.tenant = tenant /\ v.caller = caller /\ v.callee = callee
              /\ v.row = {} /\ v.live = {} /\ v.credit = {} /\ v.answer = {} /\ ~v.stood /\ ~v.fast
         /\ screens' = IF callee = None THEN screens
                       ELSE screens \cup {[tenant |-> tenant, caller |-> caller, callee |-> callee, at |-> now]}
         /\ UNCHANGED <<registry, now, announcements, made, uses>>
<1> DEFINE v == Asked("recorded", tier, tenant, caller, callee)
<1>1. v \in Verdict
  BY DEF Verdict, Asked
<1>2. check' = [check EXCEPT ![c] = v]
  BY DEF Begin, Set
<1> QED BY <1>1, <1>2 DEF Begin, Asked

\* Counting notes whether this caller is fast, and nothing else.
LEMMA CountIs ==
  ASSUME TypeOK, NEW c \in Check, Count(c)
  PROVE  /\ check[c].pc = "recorded"
         /\ \E v \in Verdict :
              /\ check' = [check EXCEPT ![c] = v] /\ v.pc = "counted" /\ SameAsker(v, check[c])
              /\ v.row = check[c].row /\ v.live = check[c].live /\ v.credit = check[c].credit
              /\ v.answer = check[c].answer /\ v.stood = check[c].stood
              /\ v.fast => HighVelocity(check[c].tenant, check[c].caller)
         /\ UNCHANGED <<registry, now, announcements, made, uses, screens>>
<1> DEFINE v == [check[c] EXCEPT !.pc = "counted",
                                 !.fast = HighVelocity(check[c].tenant, check[c].caller)]
<1>1. check[c] \in Verdict
  BY DEF TypeOK
<1>2. HighVelocity(check[c].tenant, check[c].caller) \in BOOLEAN
  BY DEF HighVelocity
<1>3. v = [pc |-> "counted", tier |-> check[c].tier, tenant |-> check[c].tenant,
           caller |-> check[c].caller, callee |-> check[c].callee,
           fast |-> HighVelocity(check[c].tenant, check[c].caller), row |-> check[c].row,
           live |-> check[c].live, credit |-> check[c].credit, stood |-> check[c].stood,
           answer |-> check[c].answer]
  <2> DEFINE d == [check[c] EXCEPT !.pc = "counted"]
             fast == HighVelocity(check[c].tenant, check[c].caller)
  <2>1. /\ DOMAIN d = {"pc", "tier", "tenant", "caller", "callee", "fast", "row", "live", "credit",
                       "stood", "answer"}
        /\ d = [pc |-> "counted", tier |-> check[c].tier, tenant |-> check[c].tenant,
                caller |-> check[c].caller, callee |-> check[c].callee, fast |-> check[c].fast,
                row |-> check[c].row, live |-> check[c].live, credit |-> check[c].credit,
                stood |-> check[c].stood, answer |-> check[c].answer]
    BY <1>1 DEF Verdict
  <2>2. v = [d EXCEPT !.fast = fast]
    OBVIOUS
  <2> HIDE DEF v, d, fast
  <2>3. [d EXCEPT !.fast = fast] =
          [pc |-> "counted", tier |-> check[c].tier, tenant |-> check[c].tenant,
           caller |-> check[c].caller, callee |-> check[c].callee, fast |-> fast, row |-> check[c].row,
           live |-> check[c].live, credit |-> check[c].credit, stood |-> check[c].stood,
           answer |-> check[c].answer]
    BY <2>1
  <2> QED BY <2>2, <2>3 DEF fast
<1>4. v \in Verdict
  BY <1>1, <1>2, <1>3 DEF Verdict
<1>5. check' = [check EXCEPT ![c] = v]
  BY DEF Count, Set
<1> HIDE DEF v
<1> QED BY <1>3, <1>4, <1>5 DEF Count, SameAsker

\* The words of an answer; it says campaign only for a check that found one.
LEMMA AnswersAreWords ==
  ASSUME NEW fast \in BOOLEAN, NEW credit, NEW entry, NEW claim
  PROVE  /\ Basis(fast, credit, entry, claim) \in Bases
         /\ Signals(fast, credit, entry, claim) \subseteq Links
         /\ {Basis(fast, credit, entry, claim)} \cap Campaign # {} => fast
         /\ Signals(fast, credit, entry, claim) \cap Campaign # {} => fast
<1>1. /\ Basis(fast, credit, entry, claim) \in Bases
      /\ Basis(fast, credit, entry, claim) = "caller_velocity" => fast
  <2> DEFINE e == CHOOSE e \in entry : TRUE
  <2>1. CASE credit # {}
    BY <2>1 DEF Basis, Bases
  <2>2. CASE credit = {} /\ fast
    BY <2>2 DEF Basis, Bases
  <2>3. CASE credit = {} /\ ~fast /\ entry = {}
    BY <2>3 DEF Basis, Bases
  <2>4. CASE credit = {} /\ ~fast /\ entry # {}
    <3>1. Basis(fast, credit, entry, claim) =
            IF ~e.outbound THEN "registry_inbound_only"
            ELSE IF Mismatch(claim, e) THEN "registry_claim_mismatch"
            ELSE "registry_match_unannounced"
      BY <2>4 DEF Basis
    <3> QED BY <3>1 DEF Bases
  <2> QED BY <2>1, <2>2, <2>3, <2>4
<1>2. /\ Signals(fast, credit, entry, claim) \subseteq Links
      /\ "CALLER_HIGH_VELOCITY" \in Signals(fast, credit, entry, claim) => fast
  BY DEF Signals, Links
<1> DEFINE basis == Basis(fast, credit, entry, claim)
           signals == Signals(fast, credit, entry, claim)
<1> HIDE DEF basis, signals
<1>3. basis \in Bases /\ (basis = "caller_velocity" => fast)
  BY <1>1 DEF basis
<1>4. signals \subseteq Links /\ ("CALLER_HIGH_VELOCITY" \in signals => fast)
  BY <1>2 DEF signals
<1>5. ({basis} \cap Campaign # {} => fast) /\ (signals \cap Campaign # {} => fast)
  BY <1>3, <1>4 DEF Campaign, Bases, Links
<1> QED BY <1>3, <1>4, <1>5 DEF basis, signals

\* An answer closes the check: what it held is let go, its credit is written down.
LEMMA AnswerIs ==
  ASSUME NEW c \in Check, NEW r \in Verdict, NEW credit \in SUBSET Announcement,
         check \in [Check -> Verdict], Answer(c, r, credit)
  PROVE  \E v \in Verdict :
           /\ check' = [check EXCEPT ![c] = v] /\ v.pc = "answered" /\ SameAsker(v, r)
           /\ v.row = {} /\ v.live = (IF credit = {} THEN r.live ELSE {}) /\ v.credit = credit
           /\ v.stood = r.stood /\ ~v.fast /\ (v.answer \cap Campaign # {} => r.fast)
<1>1. PICK claim \in Claims :
        check' = [check EXCEPT ![c] =
          [pc |-> "answered", tier |-> r.tier, tenant |-> r.tenant, caller |-> r.caller,
           callee |-> r.callee, fast |-> FALSE, row |-> {}, credit |-> credit,
           live |-> IF credit = {} THEN r.live ELSE {}, stood |-> r.stood,
           answer |-> IF r.tier = 1 THEN {Basis(r.fast, credit, Lookup(r.caller), claim)}
                      ELSE Signals(r.fast, credit, Lookup(r.caller), claim)]]
  BY DEF Answer, Set
<1> DEFINE answer == IF r.tier = 1 THEN {Basis(r.fast, credit, Lookup(r.caller), claim)}
                     ELSE Signals(r.fast, credit, Lookup(r.caller), claim)
           v == [pc |-> "answered", tier |-> r.tier, tenant |-> r.tenant, caller |-> r.caller,
                 callee |-> r.callee, fast |-> FALSE, row |-> {}, credit |-> credit,
                 live |-> IF credit = {} THEN r.live ELSE {}, stood |-> r.stood,
                 answer |-> answer]
<1>2. answer \in SUBSET (Bases \cup Links) /\ (answer \cap Campaign # {} => r.fast)
  <2>1. r.fast \in BOOLEAN
    BY DEF Verdict
  <2> QED BY <2>1, AnswersAreWords
<1>3. check' = [check EXCEPT ![c] = v]
  BY <1>1
<1> HIDE DEF answer
<1>4. v \in Verdict
  BY <1>2 DEF Verdict
<1> QED BY <1>2, <1>3, <1>4 DEF SameAsker

\* Finding ends the check when nothing stands or its reader has used the newest,
\* and otherwise holds the newest to be spent.
LEMMA FindIs ==
  ASSUME TypeOK, StepsInOrder, NEW c \in Check, Find(c)
  PROVE  /\ check[c].pc = "counted"
         /\ UNCHANGED <<registry, now, announcements, made, uses, screens>>
         /\ \E v \in Verdict :
              /\ check' = [check EXCEPT ![c] = v] /\ SameAsker(v, check[c])
              /\ v.live \subseteq announcements
              /\ \A a \in v.live : a.caller = v.caller /\ a.callee = v.callee
              /\ v.credit = {} /\ ~v.stood /\ (v.fast => check[c].fast)
              /\ (v.answer \cap Campaign # {} => check[c].fast)
              /\ \/ v.pc = "answered" /\ v.row = {}
                    /\ (v.live # {} => \E a \in v.live : Spent(a, v.tenant))
                 \/ v.pc = "spending" /\ v.answer = {} /\ v.row \subseteq v.live
<1> DEFINE r == check[c]
           live == IF r.callee = None THEN {} ELSE Live(r.caller, r.callee)
           seen == [r EXCEPT !.live = live]
<1>1. r \in Verdict /\ r.pc = "counted" /\ r.credit = {} /\ ~r.stood /\ r.answer = {} /\ r.row = {}
  BY DEF TypeOK, StepsInOrder, Find
<1>2. /\ live \subseteq announcements /\ live \in SUBSET Announcement
      /\ \A a \in live : a.caller = r.caller /\ a.callee = r.callee
  BY DEF Live, TypeOK
<1>3. /\ seen \in Verdict /\ SameAsker(seen, r)
      /\ seen = [pc |-> "counted", tier |-> r.tier, tenant |-> r.tenant, caller |-> r.caller,
                 callee |-> r.callee, fast |-> r.fast, row |-> {}, live |-> live, credit |-> {},
                 stood |-> r.stood, answer |-> {}]
  <2> HIDE DEF live
  <2>1. seen = [pc |-> "counted", tier |-> r.tier, tenant |-> r.tenant, caller |-> r.caller,
                callee |-> r.callee, fast |-> r.fast, row |-> {}, live |-> live, credit |-> {},
                stood |-> r.stood, answer |-> {}]
    BY <1>1 DEF Verdict
  <2> HIDE DEF seen, r
  <2> QED BY <1>1, <1>2, <2>1 DEF Verdict, SameAsker
<1>4. /\ UNCHANGED <<registry, now, announcements, made, uses, screens>>
      /\ \/ live = {} /\ Answer(c, seen, {})
         \/ \E a \in Newest(live) : Spent(a, r.tenant) /\ Answer(c, seen, {})
         \/ \E a \in Newest(live) : Set(c, [seen EXCEPT !.pc = "spending", !.row = {a}])
  BY DEF Find
<1> HIDE DEF r, live, seen
<1>5. ASSUME Answer(c, seen, {}), live # {} => \E a \in live : Spent(a, r.tenant)
      PROVE  \E v \in Verdict :
               /\ check' = [check EXCEPT ![c] = v] /\ SameAsker(v, r)
               /\ v.live = live /\ v.credit = {} /\ ~v.stood /\ ~v.fast
               /\ (v.answer \cap Campaign # {} => r.fast)
               /\ v.pc = "answered" /\ v.row = {}
               /\ (v.live # {} => \E a \in v.live : Spent(a, v.tenant))
  <2>1. check \in [Check -> Verdict]
    BY DEF TypeOK
  <2>2. PICK v \in Verdict :
          /\ check' = [check EXCEPT ![c] = v] /\ v.pc = "answered" /\ SameAsker(v, seen)
          /\ v.row = {} /\ v.live = seen.live /\ v.credit = {}
          /\ v.stood = seen.stood /\ ~v.fast /\ (v.answer \cap Campaign # {} => seen.fast)
    BY <1>3, <1>5, <2>1, AnswerIs
  <2>3. seen.live = live /\ seen.stood = r.stood /\ seen.fast = r.fast /\ seen.tenant = r.tenant
    BY <1>3
  <2> QED BY <1>1, <1>3, <1>5, <2>2, <2>3 DEF SameAsker
<1>6. ASSUME NEW a \in live, Set(c, [seen EXCEPT !.pc = "spending", !.row = {a}])
      PROVE  \E v \in Verdict :
               /\ check' = [check EXCEPT ![c] = v] /\ SameAsker(v, r)
               /\ v.live = live /\ v.credit = {} /\ ~v.stood /\ v.fast = r.fast
               /\ v.answer = {} /\ v.pc = "spending" /\ v.row = {a}
  <2> DEFINE d == [seen EXCEPT !.pc = "spending"]
             v == [d EXCEPT !.row = {a}]
  <2>1. d = [pc |-> "spending", tier |-> r.tier, tenant |-> r.tenant, caller |-> r.caller,
             callee |-> r.callee, fast |-> r.fast, row |-> {}, live |-> live, credit |-> {},
             stood |-> r.stood, answer |-> {}]
    BY <1>3
  <2>2. check' = [check EXCEPT ![c] = v]
    BY <1>6 DEF Set
  <2> HIDE DEF d
  <2>3. v = [pc |-> "spending", tier |-> r.tier, tenant |-> r.tenant, caller |-> r.caller,
             callee |-> r.callee, fast |-> r.fast, row |-> {a}, live |-> live, credit |-> {},
             stood |-> r.stood, answer |-> {}]
    BY <2>1
  <2> HIDE DEF v
  <2>4. v \in Verdict
    BY <1>1, <1>2, <1>6, <2>3 DEF Verdict
  <2> QED BY <1>1, <2>2, <2>3, <2>4 DEF SameAsker
<1>7. Newest(live) \subseteq live
  BY DEF Newest
<1>8. CASE Answer(c, seen, {}) /\ (live # {} => \E a \in live : Spent(a, r.tenant))
  <2>1. PICK v \in Verdict :
          /\ check' = [check EXCEPT ![c] = v] /\ SameAsker(v, r)
          /\ v.live = live /\ v.credit = {} /\ ~v.stood /\ ~v.fast
          /\ (v.answer \cap Campaign # {} => r.fast)
          /\ v.pc = "answered" /\ v.row = {}
          /\ (v.live # {} => \E a \in v.live : Spent(a, v.tenant))
    BY <1>5, <1>8
  <2> QED BY <1>1, <1>2, <1>4, <2>1 DEF SameAsker, r
<1>9. CASE \E a \in live : Set(c, [seen EXCEPT !.pc = "spending", !.row = {a}])
  <2>1. PICK a \in live : Set(c, [seen EXCEPT !.pc = "spending", !.row = {a}])
    BY <1>9
  <2>2. PICK v \in Verdict :
          /\ check' = [check EXCEPT ![c] = v] /\ SameAsker(v, r)
          /\ v.live = live /\ v.credit = {} /\ ~v.stood /\ v.fast = r.fast
          /\ v.answer = {} /\ v.pc = "spending" /\ v.row = {a}
    BY <1>6, <2>1
  <2> QED BY <1>1, <1>2, <1>4, <2>1, <2>2 DEF SameAsker, r
<1> QED BY <1>4, <1>7, <1>8, <1>9

\* Spending credits the check, unless its reader has used the announcement before.
LEMMA SpendIs ==
  ASSUME TypeOK, NEW c \in Check, Spend(c)
  PROVE  /\ check[c].pc = "spending"
         /\ UNCHANGED <<registry, now, announcements, made, screens>>
         /\ \E a \in check[c].row, v \in Verdict :
              /\ uses' = uses \cup {<<a.id, check[c].tenant>>}
              /\ check' = [check EXCEPT ![c] = v] /\ v.pc = "answered" /\ SameAsker(v, check[c])
              /\ v.row = {} /\ v.credit = (IF Spent(a, check[c].tenant) THEN {} ELSE {a})
              /\ v.live = (IF v.credit = {} THEN check[c].live ELSE {})
              /\ (v.stood <=> a \in announcements) /\ ~v.fast
              /\ (v.answer \cap Campaign # {} => check[c].fast)
<1> DEFINE r == check[c]
<1>1. PICK a \in r.row :
        /\ uses' = uses \cup {<<a.id, r.tenant>>}
        /\ Answer(c, [r EXCEPT !.stood = a \in announcements],
                  IF Conflicts(a, r.tenant) THEN {} ELSE {a})
  BY DEF Spend
<1> DEFINE stood == a \in announcements
           held == [r EXCEPT !.stood = stood]
           credit == IF Spent(a, r.tenant) THEN {} ELSE {a}
<1>2. r \in Verdict /\ check \in [Check -> Verdict]
  BY DEF TypeOK
<1>3. Answer(c, held, credit)
  BY <1>1 DEF Conflicts, Spent
<1>4. stood \in BOOLEAN /\ credit \in SUBSET Announcement
  BY <1>2 DEF Verdict
<1> HIDE DEF stood
<1>5. held = [pc |-> r.pc, tier |-> r.tier, tenant |-> r.tenant, caller |-> r.caller,
              callee |-> r.callee, fast |-> r.fast, row |-> r.row, live |-> r.live,
              credit |-> r.credit, stood |-> stood, answer |-> r.answer]
  BY <1>2 DEF Verdict
<1> HIDE DEF held
<1>6. held \in Verdict /\ SameAsker(held, r)
  BY <1>2, <1>4, <1>5 DEF Verdict, SameAsker
<1> HIDE DEF credit
<1>7. PICK v \in Verdict :
        /\ check' = [check EXCEPT ![c] = v] /\ v.pc = "answered" /\ SameAsker(v, held)
        /\ v.row = {} /\ v.live = (IF credit = {} THEN held.live ELSE {}) /\ v.credit = credit
        /\ v.stood = held.stood /\ ~v.fast /\ (v.answer \cap Campaign # {} => held.fast)
  BY <1>2, <1>3, <1>4, <1>6, AnswerIs
<1>8. held.live = r.live /\ held.stood = stood /\ held.fast = r.fast
  BY <1>5
<1>9. /\ uses' = uses \cup {<<a.id, r.tenant>>} /\ SameAsker(v, r)
      /\ v.live = (IF v.credit = {} THEN r.live ELSE {})
      /\ v.credit = (IF Spent(a, r.tenant) THEN {} ELSE {a})
      /\ (v.stood <=> a \in announcements) /\ (v.answer \cap Campaign # {} => r.fast)
  BY <1>1, <1>6, <1>7, <1>8 DEF SameAsker, credit, stood
<1> QED BY <1>7, <1>9 DEF Spend

-----------------------------------------------------------------------------
(* The steps of the system *)

\* A row is announced: it gets the next id, and nothing else changes.
NewRow(a, institution, caller) ==
  /\ a.id = made + 1 /\ made' = made + 1 /\ announcements' = announcements \cup {a}
  /\ UNCHANGED <<registry, now, uses, screens, check>>
  /\ a.institution = institution /\ a.caller = caller

LEMMA RecordsRow ==
  ASSUME TypeOK, NEW institution \in Institution \cup {Act7Institution}, NEW caller \in Number,
         NEW callee \in Callee, NEW ttl \in Int \cup {None}, Record(institution, caller, callee, ttl)
  PROVE  \E a \in Announcement : NewRow(a, institution, caller)
<1> DEFINE a == [id |-> made', institution |-> institution, caller |-> caller, callee |-> callee,
                 expires |-> now + Ttl(ttl)]
<1>1. made \in Nat /\ now \in Nat /\ MaxTtl \in Nat
  BY ScreeningAssumption DEF TypeOK
<1>2. Ttl(ttl) \in 1..MaxTtl
  BY TtlIsBounded
<1>3. now + Ttl(ttl) \in Nat
  BY <1>1, <1>2
<1>4. /\ made' = made + 1 /\ announcements' = announcements \cup {a}
      /\ UNCHANGED <<registry, now, uses, screens, check>>
  BY DEF Record
<1>5. made' \in Nat \ {0}
  BY <1>1, <1>4
<1>6. a \in Announcement
  BY <1>3, <1>5 DEF Announcement
<1>7. a.id = made + 1 /\ a.institution = institution /\ a.caller = caller
  BY <1>4
<1> HIDE DEF a
<1> QED BY <1>4, <1>6, <1>7 DEF NewRow

\* An announcement is for a number that its institution is looked up for, or is
\* under the console's own institution.
LEMMA RecordIs ==
  ASSUME TypeOK, \/ Act7Announce
                 \/ \E req \in Announces : PreAnnounce(req)
  PROVE  \E a \in Announcement :
           /\ a.id = made + 1 /\ made' = made + 1 /\ announcements' = announcements \cup {a}
           /\ UNCHANGED <<registry, now, uses, screens, check>>
           /\ a.institution \in Institution =>
                \E e \in Lookup(a.caller) : e.institution = a.institution /\ e.outbound
<1>1. CASE Act7Announce
  <2>1. Switchboard \in Number /\ Customer \in Callee /\ Act7Institution \notin Institution
    BY ScreeningAssumption
  <2>2. Record(Act7Institution, Switchboard, Customer, None)
    BY <1>1 DEF Act7Announce
  <2>3. PICK a \in Announcement : NewRow(a, Act7Institution, Switchboard)
    BY <2>1, <2>2, RecordsRow
  <2> QED BY <2>1, <2>3 DEF NewRow
<1>2. ASSUME NEW req \in Announces, PreAnnounce(req)
      PROVE  \E a \in Announcement, e \in Lookup(req.caller) :
               NewRow(a, e.institution, req.caller) /\ e.outbound
  <2>1. PICK e \in Lookup(req.caller) :
          e.outbound /\ Record(e.institution, req.caller, req.callee, req.ttl)
    BY <1>2 DEF PreAnnounce
  <2>2. req.caller \in Number /\ req.callee \in Callee /\ req.ttl \in Int \cup {None}
    BY ScreeningAssumption DEF Announce
  <2>3. e.institution \in Institution
    BY DEF Lookup, TypeOK, Entry
  <2>4. PICK a \in Announcement : NewRow(a, e.institution, req.caller)
    BY <2>1, <2>2, <2>3, RecordsRow
  <2> QED BY <2>1, <2>4
<1>3. CASE \E req \in Announces : PreAnnounce(req)
  <2>1. PICK req \in Announces : PreAnnounce(req)
    BY <1>3
  <2>2. PICK a \in Announcement, e \in Lookup(req.caller) :
          NewRow(a, e.institution, req.caller) /\ e.outbound
    BY <1>2, <2>1
  <2> QED BY <2>2 DEF NewRow
<1> QED BY <1>1, <1>3

\* The steps, each request's reduced to the question it asks.
LEMMA NextIs ==
  ASSUME TypeOK, Next
  PROVE  \/ Tick \/ PurgeExpired \/ ResetStage
         \/ Act7Announce \/ \E req \in Announces : PreAnnounce(req)
         \/ \E c \in Check : Count(c) \/ Find(c) \/ Spend(c)
         \/ \E c \in Check, tier \in 1..2, tenant \in Tenant, caller \in Number,
               callee \in Callee \cup {None} : Begin(c, tier, tenant, caller, callee)
<1>1. ASSUME NEW c \in Check, NEW req \in Asks, Screen(c, req) \/ ReverseVerify(c, req)
      PROVE  \E tier \in 1..2, tenant \in Tenant, caller \in Number, callee \in Callee \cup {None} :
               Begin(c, tier, tenant, caller, callee)
  <2>1. req.tenant \in Tenant /\ req.caller \in Number /\ req.callee \in Callee \cup {None}
    BY ScreeningAssumption DEF Ask
  <2> QED BY <1>1, <2>1 DEF Screen, ReverseVerify
<1>2. ASSUME NEW c \in Check, NEW t \in Stage, Act7Screen(c, t)
      PROVE  \E tier \in 1..2, tenant \in Tenant, caller \in Number, callee \in Callee \cup {None} :
               Begin(c, tier, tenant, caller, callee)
  <2>1. t \in Tenant /\ {Switchboard, Hotline} \subseteq Number /\ {Customer, Stranger} \subseteq Callee
    BY ScreeningAssumption
  <2> QED BY <1>2, <2>1 DEF Act7Screen
<1> QED BY <1>1, <1>2 DEF Next

-----------------------------------------------------------------------------
(* Types *)

LEMMA InitTypes == Init => TypeOK
<1> SUFFICES ASSUME Init PROVE TypeOK
  OBVIOUS
<1>1. registry \subseteq Entry /\ Loads(registry)
  BY ScreeningAssumption DEF Init
<1>2. Unasked \in Verdict
  BY DEF Unasked, Asked, Verdict, Number
<1> QED BY <1>1, <1>2 DEF Init, TypeOK

LEMMA InitSteps == Init => StepsInOrder
BY DEF Init, StepsInOrder, Unasked, Asked, Met

\* Every step keeps the variables in their types.
LEMMA NextTypes ==
  ASSUME TypeOK, StepsInOrder, Next
  PROVE  TypeOK'
<1> USE DEF TypeOK
<1>1. CASE Tick
  BY <1>1 DEF Tick, Loads, BlocksContaining
<1>2. CASE PurgeExpired
  BY <1>2 DEF PurgeExpired, Loads, BlocksContaining
<1>3. CASE ResetStage
  BY <1>3 DEF ResetStage, Loads, BlocksContaining
<1>4. CASE Act7Announce \/ \E req \in Announces : PreAnnounce(req)
  <2>1. PICK a \in Announcement :
          /\ made' = made + 1 /\ announcements' = announcements \cup {a}
          /\ UNCHANGED <<registry, now, uses, screens, check>>
    BY <1>4, RecordIs
  <2> QED BY <2>1 DEF Loads, BlocksContaining
<1>5. ASSUME NEW c \in Check, NEW v \in Verdict, check' = [check EXCEPT ![c] = v]
      PROVE  check' \in [Check -> Verdict]
  BY <1>5
<1>6. ASSUME UNCHANGED <<registry, now, made, announcements>>
      PROVE  (registry \subseteq Entry /\ Loads(registry) /\ now \in Nat /\ made \in Nat
              /\ announcements \subseteq Announcement)'
  BY <1>6 DEF Loads, BlocksContaining
<1>7. ASSUME NEW c \in Check, Count(c) \/ Find(c)
      PROVE  TypeOK'
  <2>1. /\ \E v \in Verdict : check' = [check EXCEPT ![c] = v]
        /\ UNCHANGED <<registry, now, announcements, made, uses, screens>>
    BY <1>7, CountIs, FindIs
  <2> QED BY <1>5, <1>6, <2>1
<1>8. ASSUME NEW c \in Check, Spend(c)
      PROVE  TypeOK'
  <2>1. PICK a \in check[c].row, v \in Verdict :
          /\ uses' = uses \cup {<<a.id, check[c].tenant>>}
          /\ check' = [check EXCEPT ![c] = v] /\ v.pc = "answered" /\ SameAsker(v, check[c])
          /\ v.row = {} /\ v.credit = (IF Spent(a, check[c].tenant) THEN {} ELSE {a})
          /\ v.live = (IF v.credit = {} THEN check[c].live ELSE {})
          /\ (v.stood <=> a \in announcements) /\ ~v.fast
          /\ (v.answer \cap Campaign # {} => check[c].fast)
    <3>1. TypeOK
      OBVIOUS
    <3> HIDE DEF TypeOK
    <3> QED BY <1>8, <3>1, SpendIs
  <2>2. a.id \in Nat /\ check[c].tenant \in Tenant \cup {None}
    BY DEF Verdict, Announcement
  <2>3. UNCHANGED <<registry, now, announcements, made, screens>>
    BY <1>8 DEF Spend
  <2> QED BY <1>5, <1>6, <2>1, <2>2, <2>3
<1>9. ASSUME NEW c \in Check, NEW tier \in 1..2, NEW tenant \in Tenant, NEW caller \in Number,
             NEW callee \in Callee \cup {None}, Begin(c, tier, tenant, caller, callee)
      PROVE  TypeOK'
  <2>1. /\ \E v \in Verdict : check' = [check EXCEPT ![c] = v]
        /\ screens' = IF callee = None THEN screens
                      ELSE screens \cup {[tenant |-> tenant, caller |-> caller, callee |-> callee, at |-> now]}
        /\ UNCHANGED <<registry, now, announcements, made, uses>>
    BY <1>9, BeginIs
  <2> QED BY <1>5, <1>6, <2>1
<1> QED BY <1>1, <1>2, <1>3, <1>4, <1>7, <1>8, <1>9, NextIs

-----------------------------------------------------------------------------
(* What a check holds, and what is known *)

\* A check holds what its step has reached, in the order of the steps.
LEMMA StepsPreserved ==
  ASSUME TypeOK, StepsInOrder, Next
  PROVE  StepsInOrder'
<1>1. CASE UNCHANGED check
  BY <1>1 DEF StepsInOrder, Met
<1>2. ASSUME NEW c \in Check, NEW v \in Verdict, check' = [check EXCEPT ![c] = v],
             v.pc # "unasked",
             v.pc # "answered" => v.credit = {} /\ ~v.stood /\ v.answer = {},
             v.pc \notin {"spending", "answered"} => v.live = {},
             v.pc # "spending" => v.row = {},
             v.row \subseteq v.live, v.credit # {} => v.live = {},
             \A a \in v.row \cup v.live \cup v.credit : a.caller = v.caller /\ a.callee = v.callee
      PROVE  StepsInOrder'
  <2>1. \A d \in Check : check'[d] = IF d = c THEN v ELSE check[d]
    BY <1>2 DEF TypeOK
  <2> QED BY <1>2, <2>1 DEF StepsInOrder, Met
<1>3. ASSUME NEW c \in Check, Count(c)
      PROVE  StepsInOrder'
  <2>1. PICK v \in Verdict :
          /\ check' = [check EXCEPT ![c] = v] /\ v.pc = "counted" /\ SameAsker(v, check[c])
          /\ v.row = check[c].row /\ v.live = check[c].live /\ v.credit = check[c].credit
          /\ v.answer = check[c].answer /\ v.stood = check[c].stood
    BY <1>3, CountIs
  <2>2. /\ check[c].credit = {} /\ ~check[c].stood /\ check[c].answer = {}
        /\ check[c].live = {} /\ check[c].row = {}
    BY <1>3 DEF Count, StepsInOrder
  <2> QED BY <1>2, <2>1, <2>2
<1>4. ASSUME NEW c \in Check, Find(c)
      PROVE  StepsInOrder'
  <2>1. PICK v \in Verdict :
          /\ check' = [check EXCEPT ![c] = v]
          /\ \A a \in v.live : a.caller = v.caller /\ a.callee = v.callee
          /\ v.credit = {} /\ ~v.stood
          /\ \/ v.pc = "answered" /\ v.row = {}
             \/ v.pc = "spending" /\ v.answer = {} /\ v.row \subseteq v.live
    BY <1>4, FindIs
  <2> QED BY <1>2, <2>1
<1>5. ASSUME NEW c \in Check, Spend(c)
      PROVE  StepsInOrder'
  <2>1. PICK a \in check[c].row, v \in Verdict :
          /\ uses' = uses \cup {<<a.id, check[c].tenant>>}
          /\ check' = [check EXCEPT ![c] = v] /\ v.pc = "answered" /\ SameAsker(v, check[c])
          /\ v.row = {} /\ v.credit = (IF Spent(a, check[c].tenant) THEN {} ELSE {a})
          /\ v.live = (IF v.credit = {} THEN check[c].live ELSE {})
          /\ (v.stood <=> a \in announcements) /\ ~v.fast
          /\ (v.answer \cap Campaign # {} => check[c].fast)
    BY <1>5, SpendIs
  <2>2. \A b \in check[c].row \cup check[c].live :
          b.caller = check[c].caller /\ b.callee = check[c].callee
    BY DEF StepsInOrder, Met
  <2>3. v.caller = check[c].caller /\ v.callee = check[c].callee
    BY <2>1 DEF SameAsker
  <2>4. v.credit \subseteq check[c].row /\ v.live \subseteq check[c].live
        /\ (v.credit # {} => v.live = {})
    BY <2>1
  <2>5. /\ v.pc # "unasked" /\ v.pc = "answered" /\ v.row \subseteq v.live
        /\ \A b \in v.row \cup v.live \cup v.credit : b.caller = v.caller /\ b.callee = v.callee
    BY <2>1, <2>2, <2>3, <2>4
  <2> QED BY <1>2, <2>1, <2>4, <2>5
<1>6. ASSUME NEW c \in Check, NEW tier \in 1..2, NEW tenant \in Tenant, NEW caller \in Number,
             NEW callee \in Callee \cup {None}, Begin(c, tier, tenant, caller, callee)
      PROVE  StepsInOrder'
  <2>1. PICK v \in Verdict :
          /\ check' = [check EXCEPT ![c] = v] /\ v.pc = "recorded"
          /\ v.row = {} /\ v.live = {} /\ v.credit = {} /\ v.answer = {} /\ ~v.stood
    BY <1>6, BeginIs
  <2> QED BY <1>2, <2>1
<1>7. CASE Tick \/ PurgeExpired \/ ResetStage
  BY <1>1, <1>7 DEF Tick, PurgeExpired, ResetStage
<1>8. CASE Act7Announce \/ \E req \in Announces : PreAnnounce(req)
  BY <1>1, <1>8, RecordIs
<1> QED BY <1>3, <1>4, <1>5, <1>6, <1>7, <1>8, NextIs

\* A check's step lets nobody know of an announcement that nobody knew of.
LEMMA KnownAfter ==
  ASSUME check \in [Check -> Verdict], NEW c \in Check, NEW v \in Verdict,
         check' = [check EXCEPT ![c] = v], announcements' \subseteq announcements,
         v.row \cup v.live \cup v.credit \subseteq Known
  PROVE  Known' \subseteq Known
<1>1. \A d \in Check : check'[d] = IF d = c THEN v ELSE check[d]
  OBVIOUS
<1>2. \A d \in Check : Met(d)' = IF d = c THEN v.row \cup v.live \cup v.credit ELSE Met(d)
  BY <1>1 DEF Met
<1>3. \A d \in Check : Met(d)' \subseteq Known
  BY <1>2 DEF Known
<1>4. announcements \subseteq Known
  BY DEF Known
<1> QED BY <1>3, <1>4 DEF Known

\* Only an announcement adds to what is known.
LEMMA KnownGrows ==
  ASSUME TypeOK, StepsInOrder, Next
  PROVE  \/ Known' \subseteq Known /\ UNCHANGED <<registry, made>>
         \/ \E a \in Announcement :
              /\ Known' = Known \cup {a} /\ a.id = made + 1 /\ made' = made + 1
              /\ announcements' = announcements \cup {a}
              /\ UNCHANGED <<registry, uses, check>>
              /\ a.institution \in Institution =>
                   \E e \in Lookup(a.caller) : e.institution = a.institution /\ e.outbound
<1>1. CASE Tick \/ PurgeExpired \/ ResetStage
  <2>1. UNCHANGED <<check, registry, made>> /\ announcements' \subseteq announcements
    BY <1>1 DEF Tick, PurgeExpired, ResetStage
  <2> QED BY <2>1 DEF Known, Met
<1>2. CASE Act7Announce \/ \E req \in Announces : PreAnnounce(req)
  <2>1. PICK a \in Announcement :
          /\ a.id = made + 1 /\ made' = made + 1 /\ announcements' = announcements \cup {a}
          /\ UNCHANGED <<registry, now, uses, screens, check>>
          /\ a.institution \in Institution =>
               \E e \in Lookup(a.caller) : e.institution = a.institution /\ e.outbound
    BY <1>2, RecordIs
  <2>2. Known' = Known \cup {a}
    BY <2>1 DEF Known, Met
  <2> QED BY <2>1, <2>2
<1>3. ASSUME NEW c \in Check, Count(c)
      PROVE  Known' \subseteq Known /\ UNCHANGED <<registry, made>>
  <2>1. PICK v \in Verdict :
          /\ check' = [check EXCEPT ![c] = v]
          /\ v.row = check[c].row /\ v.live = check[c].live /\ v.credit = check[c].credit
    BY <1>3, CountIs
  <2>2. v.row \cup v.live \cup v.credit \subseteq Known
    BY <2>1 DEF Known, Met
  <2>3. UNCHANGED <<registry, made, announcements>>
    BY <1>3 DEF Count
  <2> QED BY <2>1, <2>2, <2>3, KnownAfter DEF TypeOK
<1>4. ASSUME NEW c \in Check, Find(c)
      PROVE  Known' \subseteq Known /\ UNCHANGED <<registry, made>>
  <2>1. PICK v \in Verdict :
          /\ check' = [check EXCEPT ![c] = v] /\ v.live \subseteq announcements /\ v.credit = {}
          /\ v.row = {} \/ v.row \subseteq v.live
    BY <1>4, FindIs
  <2>2. v.row \cup v.live \cup v.credit \subseteq Known
    BY <2>1 DEF Known
  <2>3. UNCHANGED <<registry, made, announcements>>
    BY <1>4 DEF Find
  <2> QED BY <2>1, <2>2, <2>3, KnownAfter DEF TypeOK
<1>5. ASSUME NEW c \in Check, Spend(c)
      PROVE  Known' \subseteq Known /\ UNCHANGED <<registry, made>>
  <2>1. PICK a \in check[c].row, v \in Verdict :
          /\ uses' = uses \cup {<<a.id, check[c].tenant>>}
          /\ check' = [check EXCEPT ![c] = v] /\ v.pc = "answered" /\ SameAsker(v, check[c])
          /\ v.row = {} /\ v.credit = (IF Spent(a, check[c].tenant) THEN {} ELSE {a})
          /\ v.live = (IF v.credit = {} THEN check[c].live ELSE {})
          /\ (v.stood <=> a \in announcements) /\ ~v.fast
          /\ (v.answer \cap Campaign # {} => check[c].fast)
    BY <1>5, SpendIs
  <2>2. v.row \cup v.live \cup v.credit \subseteq Known
    BY <2>1 DEF Known, Met
  <2>3. UNCHANGED <<registry, made, announcements>>
    BY <1>5 DEF Spend
  <2> QED BY <2>1, <2>2, <2>3, KnownAfter DEF TypeOK
<1>6. ASSUME NEW c \in Check, NEW tier \in 1..2, NEW tenant \in Tenant, NEW caller \in Number,
             NEW callee \in Callee \cup {None}, Begin(c, tier, tenant, caller, callee)
      PROVE  Known' \subseteq Known /\ UNCHANGED <<registry, made>>
  <2>1. PICK v \in Verdict :
          /\ check' = [check EXCEPT ![c] = v] /\ v.pc = "recorded"
          /\ v.row = {} /\ v.live = {} /\ v.credit = {} /\ v.answer = {} /\ ~v.stood
    BY <1>6, BeginIs
  <2>2. UNCHANGED <<registry, made, announcements>>
    BY <1>6 DEF Begin
  <2> QED BY <2>1, <2>2, KnownAfter DEF TypeOK
<1> QED BY <1>1, <1>2, <1>3, <1>4, <1>5, <1>6, NextIs

LEMMA IdsPreserved ==
  ASSUME TypeOK, StepsInOrder, IdsAreUnique, Next
  PROVE  IdsAreUnique'
<1>1. CASE Known' \subseteq Known /\ UNCHANGED <<registry, made>>
  BY <1>1 DEF IdsAreUnique
<1>2. ASSUME NEW a \in Announcement, Known' = Known \cup {a}, a.id = made + 1, made' = made + 1
      PROVE  IdsAreUnique'
  <2>1. made \in Nat /\ Known \subseteq Announcement
    BY DEF TypeOK, Known, Met, Verdict
  <2>2. \A b \in Known : b.id \in Nat /\ b.id <= made
    BY <2>1 DEF IdsAreUnique, Announcement
  <2>3. \A b \in Known' : b.id <= made'
    BY <1>2, <2>1, <2>2
  <2>4. ASSUME NEW b \in Known', NEW d \in Known', b.id = d.id
        PROVE  b = d
    BY <1>2, <2>1, <2>2, <2>4 DEF IdsAreUnique
  <2> QED BY <2>3, <2>4 DEF IdsAreUnique
<1> QED BY <1>1, <1>2, KnownGrows

LEMMA OwnersPreserved ==
  ASSUME TypeOK, StepsInOrder, OwnersAnnounce, Next
  PROVE  OwnersAnnounce'
<1>1. CASE Known' \subseteq Known /\ UNCHANGED <<registry, made>>
  BY <1>1 DEF OwnersAnnounce, About
<1>2. ASSUME NEW a \in Announcement, Known' = Known \cup {a}, UNCHANGED registry,
             a.institution \in Institution =>
               \E e \in Lookup(a.caller) : e.institution = a.institution /\ e.outbound
      PROVE  OwnersAnnounce'
  <2>1. ASSUME a.institution \in Institution, NEW f \in registry, About(f, a.caller)
        PROVE  f.institution = a.institution /\ (f.value = a.caller => f.outbound)
    <3>1. PICK e \in Lookup(a.caller) : e.institution = a.institution /\ e.outbound
      BY <1>2, <2>1
    <3>2. a.caller \in Number
      BY DEF Announcement
    <3> QED BY <2>1, <3>1, <3>2, OneNumberOneOwner DEF TypeOK
  <2> QED BY <1>2, <2>1 DEF OwnersAnnounce, About
<1> QED BY <1>1, <1>2, KnownGrows

-----------------------------------------------------------------------------
(* Uses and credits *)

\* A credited check stays as it is: its answer is final.
LEMMA CreditsStay ==
  ASSUME TypeOK, StepsInOrder, Next, NEW d \in Check, check[d].pc = "answered"
  PROVE  check'[d] = check[d]
<1>1. CASE UNCHANGED check
  BY <1>1
<1>2. ASSUME NEW c \in Check, check[c].pc # "answered", NEW v, check' = [check EXCEPT ![c] = v]
      PROVE  check'[d] = check[d]
  <2>1. c # d
    BY <1>2
  <2> QED BY <1>2, <2>1 DEF TypeOK
<1>3. ASSUME NEW c \in Check, Count(c) \/ Find(c) \/ Spend(c)
      PROVE  check'[d] = check[d]
  <2>1. check[c].pc # "answered"
    BY <1>3 DEF Count, Find, Spend
  <2>2. \E v : check' = [check EXCEPT ![c] = v]
    <3>1. CASE Count(c)
      BY <3>1, CountIs
    <3>2. CASE Find(c)
      BY <3>2, FindIs
    <3>3. CASE Spend(c)
      BY <3>3, SpendIs
    <3> QED BY <1>3, <3>1, <3>2, <3>3
  <2> QED BY <1>2, <2>1, <2>2
<1>4. ASSUME NEW c \in Check, NEW tier \in 1..2, NEW tenant \in Tenant, NEW caller \in Number,
             NEW callee \in Callee \cup {None}, Begin(c, tier, tenant, caller, callee)
      PROVE  check'[d] = check[d]
  BY <1>2, <1>4 DEF Begin, Set
<1>5. CASE Tick \/ PurgeExpired \/ ResetStage
  BY <1>1, <1>5 DEF Tick, PurgeExpired, ResetStage
<1>6. CASE Act7Announce \/ \E req \in Announces : PreAnnounce(req)
  BY <1>1, <1>6, RecordIs
<1> QED BY <1>3, <1>4, <1>5, <1>6, NextIs

\* Only a check that spends is credited, and only its own step credits it.
LEMMA CreditIsNew ==
  ASSUME TypeOK, StepsInOrder, Next, NEW d \in Check, check'[d].credit # {}
  PROVE  \/ check[d].pc = "answered" /\ check'[d] = check[d]
         \/ Spend(d)
<1>1. CASE check[d].pc = "answered"
  BY <1>1, CreditsStay
<1>2. CASE check[d].pc # "answered"
  <2>1. check[d].credit = {}
    BY <1>2 DEF StepsInOrder
  <2>2. ASSUME check'[d] = check[d]
        PROVE  FALSE
    BY <2>1, <2>2
  <2>3. ASSUME NEW c \in Check, NEW v, check' = [check EXCEPT ![c] = v], c # d
        PROVE  FALSE
    BY <2>2, <2>3 DEF TypeOK
  <2>4. ASSUME NEW v, check' = [check EXCEPT ![d] = v], v.credit = {}
        PROVE  FALSE
    BY <2>4 DEF TypeOK
  <2>5. ASSUME NEW c \in Check, Count(c)
        PROVE  FALSE
    <3>1. PICK v \in Verdict : check' = [check EXCEPT ![c] = v] /\ v.credit = check[c].credit
      BY <2>5, CountIs
    <3> QED BY <2>1, <2>3, <2>4, <3>1
  <2>6. ASSUME NEW c \in Check, Find(c)
        PROVE  FALSE
    <3>1. PICK v \in Verdict : check' = [check EXCEPT ![c] = v] /\ v.credit = {}
      BY <2>6, FindIs
    <3> QED BY <2>3, <2>4, <3>1
  <2>7. ASSUME NEW c \in Check, Spend(c)
        PROVE  Spend(d)
    <3>1. PICK v \in Verdict : check' = [check EXCEPT ![c] = v]
      BY <2>7, SpendIs
    <3> QED BY <2>3, <2>7, <3>1
  <2>8. ASSUME NEW c \in Check, NEW tier \in 1..2, NEW tenant \in Tenant, NEW caller \in Number,
               NEW callee \in Callee \cup {None}, Begin(c, tier, tenant, caller, callee)
        PROVE  FALSE
    <3>1. check' = [check EXCEPT ![c] = Asked("recorded", tier, tenant, caller, callee)]
      BY <2>8 DEF Begin, Set
    <3>2. Asked("recorded", tier, tenant, caller, callee).credit = {}
      BY DEF Asked
    <3> QED BY <2>3, <2>4, <3>1, <3>2
  <2>9. CASE Tick \/ PurgeExpired \/ ResetStage
    BY <2>2, <2>9 DEF Tick, PurgeExpired, ResetStage
  <2>10. CASE Act7Announce \/ \E req \in Announces : PreAnnounce(req)
    BY <2>2, <2>10, RecordIs
  <2> QED BY <2>5, <2>6, <2>7, <2>8, <2>9, <2>10, NextIs
<1> QED BY <1>1, <1>2

\* The uses change only by a spend, which adds its own, and by the sweep.
LEMMA UsesChange ==
  ASSUME TypeOK, Next
  PROVE  \/ uses' = uses
         \/ PurgeExpired
         \/ \E c \in Check : Spend(c)
<1>1. ASSUME NEW c \in Check, Count(c) \/ Find(c)
      PROVE  uses' = uses
  BY <1>1 DEF Count, Find
<1>2. CASE Act7Announce \/ \E req \in Announces : PreAnnounce(req)
  BY <1>2, RecordIs
<1> QED BY <1>1, <1>2, NextIs DEF Begin, Tick, ResetStage

\* What a spend does, put together with what its check held.
LEMMA SpendsOne ==
  ASSUME TypeOK, StepsInOrder, NEW c \in Check, Spend(c)
  PROVE  \E a \in check[c].row :
           /\ uses' = uses \cup {<<a.id, check[c].tenant>>}
           /\ check'[c].pc = "answered" /\ SameAsker(check'[c], check[c])
           /\ check'[c].credit = (IF Spent(a, check[c].tenant) THEN {} ELSE {a})
           /\ check'[c].live = (IF check'[c].credit = {} THEN check[c].live ELSE {})
           /\ (check'[c].stood <=> a \in announcements)
           /\ \A d \in Check \ {c} : check'[d] = check[d]
           /\ UNCHANGED announcements
<1>1. PICK a \in check[c].row, v \in Verdict :
          /\ uses' = uses \cup {<<a.id, check[c].tenant>>}
          /\ check' = [check EXCEPT ![c] = v] /\ v.pc = "answered" /\ SameAsker(v, check[c])
          /\ v.row = {} /\ v.credit = (IF Spent(a, check[c].tenant) THEN {} ELSE {a})
          /\ v.live = (IF v.credit = {} THEN check[c].live ELSE {})
          /\ (v.stood <=> a \in announcements) /\ ~v.fast
          /\ (v.answer \cap Campaign # {} => check[c].fast)
  BY SpendIs
<1>2. check'[c] = v /\ \A d \in Check \ {c} : check'[d] = check[d]
  BY <1>1 DEF TypeOK
<1> QED BY <1>1, <1>2 DEF Spend

LEMMA UsesPreserved ==
  ASSUME TypeOK, StepsInOrder, IdsAreUnique, UsesAreCredits, Next
  PROVE  UsesAreCredits'
<1>1. ASSUME NEW u \in uses'
      PROVE  \E d \in Check : check'[d].tenant = u[2] /\ \E a \in check'[d].credit : a.id = u[1]
  <2>1. CASE u \in uses
    <3>1. PICK d \in Check : check[d].tenant = u[2] /\ \E a \in check[d].credit : a.id = u[1]
      BY <2>1 DEF UsesAreCredits
    <3>2. check'[d] = check[d]
      BY <3>1, CreditsStay DEF StepsInOrder
    <3> QED BY <3>1, <3>2
  <2>2. CASE u \notin uses
    <3>1. PICK c \in Check : Spend(c)
      BY <1>1, <2>2, UsesChange DEF PurgeExpired
    <3>2. PICK a \in check[c].row :
            /\ uses' = uses \cup {<<a.id, check[c].tenant>>} /\ SameAsker(check'[c], check[c])
            /\ check'[c].credit = (IF Spent(a, check[c].tenant) THEN {} ELSE {a})
      BY <3>1, SpendsOne
    <3>3. u = <<a.id, check[c].tenant>> /\ ~Spent(a, check[c].tenant)
      BY <1>1, <2>2, <3>2 DEF Spent
    <3> QED BY <3>2, <3>3 DEF SameAsker
  <2> QED BY <2>1, <2>2
<1>2. ASSUME NEW c \in Check, NEW a \in check'[c].credit, a \in announcements', check'[c].stood
      PROVE  <<a.id, check'[c].tenant>> \in uses'
  <2>1. CASE Spend(c)
    <3>1. PICK b \in check[c].row :
            /\ uses' = uses \cup {<<b.id, check[c].tenant>>} /\ SameAsker(check'[c], check[c])
            /\ check'[c].credit = (IF Spent(b, check[c].tenant) THEN {} ELSE {b})
      BY <2>1, SpendsOne
    <3> QED BY <1>2, <3>1 DEF SameAsker
  <2>2. CASE check[c].pc = "answered" /\ check'[c] = check[c]
    <3>1. a \in Known /\ a.id <= made /\ \A b \in Known : a.id = b.id => a = b
      BY <1>2, <2>2 DEF Known, Met, IdsAreUnique
    <3>2. a \in announcements
      <4>1. CASE announcements' \subseteq announcements
        BY <1>2, <4>1
      <4>2. ASSUME NEW n \in Announcement, n.id = made + 1, announcements' = announcements \cup {n}
            PROVE  a \in announcements
        BY <1>2, <3>1, <4>2 DEF TypeOK
      <4>3. ASSUME NEW d \in Check, Count(d) \/ Find(d) \/ Spend(d)
            PROVE  announcements' = announcements
        BY <4>3 DEF Count, Find, Spend
      <4>4. CASE Act7Announce \/ \E req \in Announces : PreAnnounce(req)
        BY <4>2, <4>4, RecordIs
      <4> QED BY <4>1, <4>3, <4>4, NextIs DEF Begin, Tick, ResetStage, PurgeExpired
    <3>3. <<a.id, check[c].tenant>> \in uses
      BY <1>2, <2>2, <3>2 DEF UsesAreCredits, Spent
    <3>4. CASE PurgeExpired
      <4>1. \A b \in announcements : b.expires <= now => b.id # a.id
        BY <1>2, <3>1, <3>4 DEF PurgeExpired, Known
      <4> QED BY <2>2, <3>3, <3>4, <4>1 DEF PurgeExpired
    <3>5. ASSUME NEW d \in Check, Spend(d)
          PROVE  uses \subseteq uses'
      BY <3>5, SpendsOne
    <3> QED BY <2>2, <3>3, <3>4, <3>5, UsesChange
  <2> QED BY <1>2, <2>1, <2>2, CreditIsNew
<1> QED BY <1>1, <1>2 DEF UsesAreCredits, Spent

-----------------------------------------------------------------------------
(* The properties *)

LEMMA OncePreserved ==
  ASSUME TypeOK, StepsInOrder, IdsAreUnique, UsesAreCredits, VerifiesOnce, Next
  PROVE  VerifiesOnce'
<1> SUFFICES ASSUME NEW c \in Check, check'[c].pc = "answered", NEW a \in check'[c].credit
             PROVE  /\ a.caller = check'[c].caller /\ a.callee = check'[c].callee
                    /\ check'[c].stood =>
                         \A d \in Check \ {c} :
                           check'[d].stood /\ check'[d].tenant = check'[c].tenant =>
                             a \notin check'[d].credit
  BY DEF VerifiesOnce, Answered
<1>1. StepsInOrder'
  BY StepsPreserved
<1>2. a.caller = check'[c].caller /\ a.callee = check'[c].callee
  BY <1>1 DEF StepsInOrder, Met
\* Two spends of one announcement by one reader: the later one finds the use.
<1>3. ASSUME NEW x \in Check, NEW y \in Check, x # y, Spend(x), a \in check'[x].credit,
             a \in check'[y].credit, check'[x].stood, check'[y].stood,
             check'[x].tenant = check'[y].tenant
      PROVE  FALSE
  <2>1. PICK b \in check[x].row :
          /\ SameAsker(check'[x], check[x])
          /\ check'[x].credit = (IF Spent(b, check[x].tenant) THEN {} ELSE {b})
          /\ (check'[x].stood <=> b \in announcements)
          /\ \A d \in Check \ {x} : check'[d] = check[d]
    BY <1>3, SpendsOne
  <2>2. a = b /\ ~Spent(a, check[x].tenant) /\ a \in announcements
    BY <1>3, <2>1
  <2>3. check'[y] = check[y] /\ check[y].tenant = check[x].tenant
    BY <1>3, <2>1 DEF SameAsker
  <2> QED BY <1>3, <2>2, <2>3 DEF UsesAreCredits
<1>4. ASSUME NEW d \in Check \ {c}, check'[c].stood, check'[d].stood,
             check'[d].tenant = check'[c].tenant, a \in check'[d].credit
      PROVE  FALSE
  <2>1. CASE Spend(c)
    BY <1>3, <1>4, <2>1
  <2>2. CASE Spend(d)
    BY <1>3, <1>4, <2>2
  <2>3. CASE ~Spend(c) /\ ~Spend(d)
    <3>1. /\ check[c].pc = "answered" /\ check'[c] = check[c]
          /\ check[d].pc = "answered" /\ check'[d] = check[d]
      BY <1>4, <2>3, CreditIsNew
    <3> QED BY <1>4, <3>1 DEF VerifiesOnce, Answered
  <2> QED BY <2>1, <2>2, <2>3
<1> QED BY <1>2, <1>4

LEMMA RefusalsPreserved ==
  ASSUME TypeOK, StepsInOrder, IdsAreUnique, UsesAreCredits, OwnUseRefuses, Next
  PROVE  OwnUseRefuses'
<1> SUFFICES ASSUME NEW c \in Check, check'[c].pc = "answered", check'[c].live # {},
                    check'[c].credit = {}
             PROVE  \E d \in Check \ {c} : /\ check'[d].tenant = check'[c].tenant
                                           /\ check'[d].credit \cap check'[c].live # {}
  BY DEF OwnUseRefuses, Answered
<1>0. check'[c].pc = "answered"
  OBVIOUS
\* A use on record names a check that was credited with the same announcement.
<1>1. ASSUME NEW tenant, NEW a \in Known, <<a.id, tenant>> \in uses
      PROVE  \E d \in Check : /\ check[d].tenant = tenant /\ a \in check[d].credit
                              /\ check[d].pc = "answered" /\ check'[d] = check[d]
  <2>0. PICK d \in Check : check[d].tenant = tenant /\ \E b \in check[d].credit : b.id = a.id
    BY <1>1 DEF UsesAreCredits
  <2>1. PICK b \in check[d].credit : b.id = a.id
    BY <2>0
  <2>2. b \in Known
    BY <2>1 DEF Known, Met
  <2>3. a = b
    BY <2>1, <2>2 DEF IdsAreUnique
  <2>4. check[d].pc = "answered"
    BY DEF StepsInOrder
  <2> QED BY <2>0, <2>3, <2>4, CreditsStay
<1>2. CASE check[c].pc = "answered"
  <2>1. check'[c] = check[c]
    BY <1>2, CreditsStay
  <2>2. PICK d \in Check \ {c} : /\ check[d].tenant = check[c].tenant
                                 /\ check[d].credit \cap check[c].live # {}
    BY <1>2, <2>1 DEF OwnUseRefuses, Answered
  <2>3. check[d].pc = "answered"
    BY <2>2 DEF StepsInOrder
  <2> QED BY <2>1, <2>2, <2>3, CreditsStay
<1>3. CASE check[c].pc # "answered"
  <2>1. check[c].credit = {}
    BY <1>3 DEF StepsInOrder
  <2>2. ASSUME NEW a \in check'[c].live, a \in Known, <<a.id, check'[c].tenant>> \in uses
        PROVE  \E d \in Check \ {c} : /\ check'[d].tenant = check'[c].tenant
                                      /\ check'[d].credit \cap check'[c].live # {}
    <3>1. PICK d \in Check : /\ check[d].tenant = check'[c].tenant /\ a \in check[d].credit
                             /\ check'[d] = check[d]
      BY <1>1, <2>2
    <3> QED BY <2>1, <2>2, <3>1
  <2>3. CASE Spend(c)
    <3>1. PICK a \in check[c].row :
            /\ SameAsker(check'[c], check[c])
            /\ check'[c].credit = (IF Spent(a, check[c].tenant) THEN {} ELSE {a})
            /\ check'[c].live = (IF check'[c].credit = {} THEN check[c].live ELSE {})
      BY <2>3, SpendsOne
    <3>2. a \in Known /\ a \in check'[c].live /\ <<a.id, check'[c].tenant>> \in uses
      BY <3>1 DEF Known, Met, StepsInOrder, Spent, SameAsker
    <3> QED BY <2>2, <3>2
  <2>4. ASSUME Find(c)
        PROVE  \E d \in Check \ {c} : /\ check'[d].tenant = check'[c].tenant
                                      /\ check'[d].credit \cap check'[c].live # {}
    <3>1. PICK v \in Verdict :
            /\ check' = [check EXCEPT ![c] = v] /\ v.live \subseteq announcements
            /\ \/ v.pc = "answered" /\ v.row = {}
                  /\ (v.live # {} => \E a \in v.live : Spent(a, v.tenant))
               \/ v.pc = "spending" /\ v.answer = {} /\ v.row \subseteq v.live
      BY <2>4, FindIs
    <3>2. check'[c] = v
      BY <3>1 DEF TypeOK
    <3>3. PICK a \in v.live : Spent(a, v.tenant)
      BY <3>1, <3>2
    <3>4. a \in Known
      BY <3>1 DEF Known
    <3> QED BY <2>2, <3>2, <3>3, <3>4 DEF Spent
  <2>5. ASSUME check'[c] # check[c]
        PROVE  Find(c) \/ Spend(c)
    <3>1. ASSUME NEW d \in Check, NEW v, check' = [check EXCEPT ![d] = v]
          PROVE  d = c /\ v = check'[c]
      BY <2>5, <3>1 DEF TypeOK
    <3>2. ASSUME NEW d \in Check, Count(d)
          PROVE  FALSE
      <4>1. PICK v \in Verdict : check' = [check EXCEPT ![d] = v] /\ v.pc = "counted"
        BY <3>2, CountIs
      <4> QED BY <3>1, <4>1
    <3>3. ASSUME NEW d \in Check, Find(d)
          PROVE  Find(c)
      <4>1. PICK v \in Verdict : check' = [check EXCEPT ![d] = v]
        BY <3>3, FindIs
      <4> QED BY <3>1, <3>3, <4>1
    <3>4. ASSUME NEW d \in Check, Spend(d)
          PROVE  Spend(c)
      <4>1. PICK v \in Verdict : check' = [check EXCEPT ![d] = v]
        BY <3>4, SpendIs
      <4> QED BY <3>1, <3>4, <4>1
    <3>5. ASSUME NEW d \in Check, NEW tier \in 1..2, NEW tenant \in Tenant, NEW caller \in Number,
                 NEW callee \in Callee \cup {None}, Begin(d, tier, tenant, caller, callee)
          PROVE  FALSE
      <4>1. check' = [check EXCEPT ![d] = Asked("recorded", tier, tenant, caller, callee)]
        BY <3>5 DEF Begin, Set
      <4>2. Asked("recorded", tier, tenant, caller, callee).pc = "recorded"
        BY DEF Asked
      <4> QED BY <1>0, <3>1, <4>1, <4>2
    <3>6. CASE Tick \/ PurgeExpired \/ ResetStage
      BY <2>5, <3>6 DEF Tick, PurgeExpired, ResetStage
    <3>7. CASE Act7Announce \/ \E req \in Announces : PreAnnounce(req)
      BY <2>5, <3>7, RecordIs
    <3> QED BY <3>2, <3>3, <3>4, <3>5, <3>6, <3>7, NextIs
  <2> QED BY <1>3, <2>3, <2>4, <2>5
<1> QED BY <1>2, <1>3

\* A check keeps its question once it has one.
LEMMA AskerStays ==
  ASSUME TypeOK, StepsInOrder, Next, NEW d \in Check
  PROVE  check[d] = Unasked \/ SameAsker(check'[d], check[d])
<1>1. CASE UNCHANGED check
  BY <1>1 DEF SameAsker
<1>2. ASSUME NEW c \in Check, NEW v, check' = [check EXCEPT ![c] = v],
             check[c] = Unasked \/ SameAsker(v, check[c])
      PROVE  check[d] = Unasked \/ SameAsker(check'[d], check[d])
  <2>1. CASE d = c
    BY <1>2, <2>1 DEF TypeOK
  <2>2. CASE d # c
    BY <1>2, <2>2 DEF TypeOK, SameAsker
  <2> QED BY <2>1, <2>2
<1>3. ASSUME NEW c \in Check, Count(c)
      PROVE  check[d] = Unasked \/ SameAsker(check'[d], check[d])
  <2>1. PICK v \in Verdict : check' = [check EXCEPT ![c] = v] /\ SameAsker(v, check[c])
    BY <1>3, CountIs
  <2> QED BY <1>2, <2>1
<1>4. ASSUME NEW c \in Check, Find(c)
      PROVE  check[d] = Unasked \/ SameAsker(check'[d], check[d])
  <2>1. PICK v \in Verdict : check' = [check EXCEPT ![c] = v] /\ SameAsker(v, check[c])
    BY <1>4, FindIs
  <2> QED BY <1>2, <2>1
<1>5. ASSUME NEW c \in Check, Spend(c)
      PROVE  check[d] = Unasked \/ SameAsker(check'[d], check[d])
  <2>1. PICK v \in Verdict : check' = [check EXCEPT ![c] = v] /\ SameAsker(v, check[c])
    BY <1>5, SpendIs
  <2> QED BY <1>2, <2>1
<1>6. ASSUME NEW c \in Check, NEW tier \in 1..2, NEW tenant \in Tenant, NEW caller \in Number,
             NEW callee \in Callee \cup {None}, Begin(c, tier, tenant, caller, callee)
      PROVE  check[d] = Unasked \/ SameAsker(check'[d], check[d])
  <2>1. check[c] = Unasked
    BY <1>6 DEF Begin, StepsInOrder
  <2>2. \E v : check' = [check EXCEPT ![c] = v]
    BY <1>6 DEF Begin, Set
  <2> QED BY <1>2, <2>1, <2>2
<1>7. CASE Tick \/ PurgeExpired \/ ResetStage
  BY <1>1, <1>7 DEF Tick, PurgeExpired, ResetStage
<1>8. CASE Act7Announce \/ \E req \in Announces : PreAnnounce(req)
  BY <1>1, <1>8, RecordIs
<1> QED BY <1>3, <1>4, <1>5, <1>6, <1>7, <1>8, NextIs

\* What finitely many checks name is finite.
LEMMA NamedAreFinite ==
  ASSUME NEW f \in [Check -> Callee \cup {None}]
  PROVE  IsFiniteSet({f[d] : d \in Check})
<1>1. f \in Surjection(Check, {f[d] : d \in Check})
  BY DEF Surjection
<1> QED BY <1>1, ScreeningAssumption, FS_Surjection

\* The callees a tenant named are finitely many.
LEMMA OwnIsFinite ==
  ASSUME TypeOK, NEW c \in Check
  PROVE  IsFiniteSet(OwnCallees(c)) /\ Cardinality(OwnCallees(c)) \in Nat
<1> DEFINE f == [d \in Check |-> check[d].callee]
<1>1. IsFiniteSet({f[d] : d \in Check})
  <2>1. f \in [Check -> Callee \cup {None}]
    BY DEF TypeOK, Verdict
  <2> HIDE DEF f
  <2> QED BY <2>1, NamedAreFinite
<1>2. OwnCallees(c) \subseteq {f[d] : d \in Check}
  BY DEF OwnCallees
<1> QED BY <1>1, <1>2, FS_Subset, FS_CardinalityType

\* A tenant's own questions about a caller only add up.
LEMMA OwnGrows ==
  ASSUME TypeOK, StepsInOrder, Next, NEW c \in Check, check[c].pc # "unasked",
         Cardinality(OwnCallees(c)) >= Threshold
  PROVE  Cardinality(OwnCallees(c))' >= Threshold
<1>1. SameAsker(check'[c], check[c])
  BY AskerStays DEF Unasked, Asked
<1>2. OwnCallees(c) \subseteq OwnCallees(c)'
  <2> SUFFICES ASSUME NEW d \in Check, check[d].tenant = check[c].tenant,
                      check[d].caller = check[c].caller, check[d].callee # None
               PROVE  check[d].callee \in OwnCallees(c)'
    BY DEF OwnCallees
  <2>1. SameAsker(check'[d], check[d])
    BY AskerStays DEF Unasked, Asked
  <2> QED BY <1>1, <2>1 DEF OwnCallees, SameAsker
<1>3. IsFiniteSet(OwnCallees(c)') /\ Cardinality(OwnCallees(c)') \in Nat
  <2> DEFINE f == [d \in Check |-> check'[d].callee]
  <2>1. IsFiniteSet({f[d] : d \in Check})
    <3>1. f \in [Check -> Callee \cup {None}]
      BY NextTypes DEF TypeOK, Verdict
    <3> HIDE DEF f
    <3> QED BY <3>1, NamedAreFinite
  <2>2. OwnCallees(c)' \subseteq {f[d] : d \in Check}
    BY DEF OwnCallees
  <2> QED BY <2>1, <2>2, FS_Subset, FS_CardinalityType
<1>4. Cardinality(OwnCallees(c)) <= Cardinality(OwnCallees(c)')
  BY <1>2, <1>3, FS_Subset
<1>5. Threshold \in Nat /\ Cardinality(OwnCallees(c)) \in Nat
  BY ScreeningAssumption, OwnIsFinite
<1> QED BY <1>3, <1>4, <1>5

\* What is counted, somebody asked, with the tenant's own credential.
LEMMA ScreensPreserved ==
  ASSUME TypeOK, StepsInOrder, ScreensWereAsked, Next
  PROVE  ScreensWereAsked'
<1> SUFFICES ASSUME NEW s \in screens'
             PROVE  \E d \in Check : /\ check'[d].tenant = s.tenant /\ check'[d].caller = s.caller
                                     /\ check'[d].callee = s.callee
  BY DEF ScreensWereAsked
<1>1. CASE s \in screens
  <2>1. PICK d \in Check : /\ check[d].tenant = s.tenant /\ check[d].caller = s.caller
                           /\ check[d].callee = s.callee
    BY <1>1 DEF ScreensWereAsked
  <2>2. check[d].callee # None
    BY <1>1, <2>1, ScreeningAssumption DEF TypeOK
  <2>3. SameAsker(check'[d], check[d])
    BY <2>2, AskerStays DEF Unasked, Asked
  <2> QED BY <2>1, <2>3 DEF SameAsker
<1>2. CASE s \notin screens
  <2>1. PICK c \in Check, tier \in 1..2, tenant \in Tenant, caller \in Number,
             callee \in Callee \cup {None} : Begin(c, tier, tenant, caller, callee)
    <3>1. ASSUME NEW d \in Check, Count(d) \/ Find(d) \/ Spend(d)
          PROVE  FALSE
      BY <1>2, <3>1 DEF Count, Find, Spend
    <3>2. CASE Act7Announce \/ \E req \in Announces : PreAnnounce(req)
      BY <1>2, <3>2, RecordIs
    <3>3. CASE Tick \/ PurgeExpired \/ ResetStage
      BY <1>2, <3>3 DEF Tick, PurgeExpired, ResetStage
    <3> QED BY <3>1, <3>2, <3>3, NextIs
  <2>2. s = [tenant |-> tenant, caller |-> caller, callee |-> callee, at |-> now]
    BY <1>2, <2>1 DEF Begin
  <2>3. check'[c] = Asked("recorded", tier, tenant, caller, callee)
    BY <2>1 DEF Begin, Set, TypeOK
  <2> QED BY <2>2, <2>3 DEF Asked
<1> QED BY <1>1, <1>2

\* What velocity counts for a check is what its own tenant asked.
LEMMA CountedAreOwn ==
  ASSUME TypeOK, ScreensWereAsked, NEW c \in Check, HighVelocity(check[c].tenant, check[c].caller)
  PROVE  Cardinality(OwnCallees(c)) >= Threshold
<1> DEFINE counted == DistinctCallees(check[c].tenant, check[c].caller)
<1>1. counted \subseteq OwnCallees(c)
  <2> SUFFICES ASSUME NEW s \in screens, s.caller = check[c].caller, s.tenant = check[c].tenant
               PROVE  s.callee \in OwnCallees(c)
    BY DEF DistinctCallees
  <2>1. PICK d \in Check : /\ check[d].tenant = s.tenant /\ check[d].caller = s.caller
                           /\ check[d].callee = s.callee
    BY DEF ScreensWereAsked
  <2>2. s.callee # None
    BY ScreeningAssumption DEF TypeOK
  <2> QED BY <2>1, <2>2 DEF OwnCallees
<1>2. Cardinality(counted) <= Cardinality(OwnCallees(c)) /\ Cardinality(counted) \in Nat
  BY <1>1, OwnIsFinite, FS_Subset, FS_CardinalityType
<1>3. Cardinality(counted) >= Threshold
  BY DEF HighVelocity
<1> HIDE DEF counted
<1> QED BY <1>2, <1>3, OwnIsFinite, ScreeningAssumption

LEMMA CampaignsPreserved ==
  ASSUME TypeOK, StepsInOrder, ScreensWereAsked, CampaignsAreOwn, Next
  PROVE  CampaignsAreOwn'
<1> SUFFICES ASSUME NEW c \in Check, check'[c].fast \/ check'[c].answer \cap Campaign # {}
             PROVE  Cardinality(OwnCallees(c))' >= Threshold
  BY DEF CampaignsAreOwn
<1>1. CASE check[c].fast \/ check[c].answer \cap Campaign # {}
  <2>1. Cardinality(OwnCallees(c)) >= Threshold
    BY <1>1 DEF CampaignsAreOwn
  <2>2. check[c].pc # "unasked"
    BY <1>1 DEF StepsInOrder, Unasked, Asked
  <2> QED BY <2>1, <2>2, OwnGrows
<1>2. CASE ~(check[c].fast \/ check[c].answer \cap Campaign # {})
  <2>1. ASSUME NEW d \in Check, NEW v, check' = [check EXCEPT ![d] = v]
        PROVE  d = c /\ v = check'[c]
    BY <1>2, <2>1 DEF TypeOK
  <2>2. ASSUME NEW d \in Check, Find(d)
        PROVE  FALSE
    <3>1. PICK v \in Verdict : /\ check' = [check EXCEPT ![d] = v] /\ (v.fast => check[d].fast)
                               /\ (v.answer \cap Campaign # {} => check[d].fast)
      BY <2>2, FindIs
    <3> QED BY <1>2, <2>1, <3>1
  <2>3. ASSUME NEW d \in Check, Spend(d)
        PROVE  FALSE
    <3>1. \E v \in Verdict : /\ check' = [check EXCEPT ![d] = v] /\ ~v.fast
                             /\ (v.answer \cap Campaign # {} => check[d].fast)
      BY <2>3, SpendIs
    <3> QED BY <1>2, <2>1, <3>1
  <2>4. ASSUME NEW d \in Check, Count(d)
        PROVE  Cardinality(OwnCallees(c))' >= Threshold
    <3>1. PICK v \in Verdict : /\ check' = [check EXCEPT ![d] = v] /\ v.answer = check[d].answer
                               /\ (v.fast => HighVelocity(check[d].tenant, check[d].caller))
      BY <2>4, CountIs
    <3>2. d = c /\ HighVelocity(check[c].tenant, check[c].caller)
      BY <1>2, <2>1, <3>1
    <3>3. check[c].pc # "unasked"
      BY <2>4, <3>2 DEF Count
    <3> QED BY <3>2, <3>3, CountedAreOwn, OwnGrows
  <2>5. ASSUME NEW d \in Check, NEW tier \in 1..2, NEW tenant \in Tenant, NEW caller \in Number,
               NEW callee \in Callee \cup {None}, Begin(d, tier, tenant, caller, callee)
        PROVE  FALSE
    <3>1. check' = [check EXCEPT ![d] = Asked("recorded", tier, tenant, caller, callee)]
      BY <2>5 DEF Begin, Set
    <3>2. check'[c] = Asked("recorded", tier, tenant, caller, callee)
      BY <2>1, <3>1
    <3> QED BY <3>2 DEF Asked
  <2>6. CASE Tick \/ PurgeExpired \/ ResetStage
    BY <1>2, <2>6 DEF Tick, PurgeExpired, ResetStage
  <2>7. CASE Act7Announce \/ \E req \in Announces : PreAnnounce(req)
    BY <1>2, <2>7, RecordIs
  <2> QED BY <2>2, <2>3, <2>4, <2>5, <2>6, <2>7, NextIs
<1> QED BY <1>1, <1>2

-----------------------------------------------------------------------------
(* The theorems *)

LEMMA InitInvariant == Init => IInv
<1> SUFFICES ASSUME Init PROVE IInv
  OBVIOUS
<1>1. TypeOK /\ StepsInOrder
  BY InitTypes, InitSteps
<1>2. \A c \in Check : check[c] = Unasked
  BY DEF Init
<1>3. /\ \A c \in Check : /\ check[c].pc = "unasked" /\ ~check[c].fast /\ check[c].answer = {}
                          /\ check[c].row = {} /\ check[c].live = {} /\ check[c].credit = {}
      /\ announcements = {} /\ uses = {} /\ screens = {}
  BY <1>2 DEF Init, Unasked, Asked
<1>4. Known = {}
  BY <1>3 DEF Known, Met
<1>5. IdsAreUnique /\ OwnersAnnounce
  BY <1>4 DEF IdsAreUnique, OwnersAnnounce
<1>6. UsesAreCredits /\ ScreensWereAsked /\ CampaignsAreOwn
  BY <1>3 DEF UsesAreCredits, ScreensWereAsked, CampaignsAreOwn
<1>7. AnnouncementsAreUsedOnce
  BY <1>3 DEF AnnouncementsAreUsedOnce, VerifiesOnce, OwnUseRefuses, Answered
<1> QED BY <1>1, <1>5, <1>6, <1>7 DEF IInv

LEMMA StutterInvariant ==
  ASSUME IInv, UNCHANGED vars
  PROVE  IInv'
<1>1. UNCHANGED <<registry, now, announcements, made, uses, screens, check>>
  BY DEF vars
<1>2. TypeOK' /\ StepsInOrder'
  BY <1>1 DEF IInv, TypeOK, Loads, BlocksContaining, StepsInOrder, Met
<1>3. IdsAreUnique' /\ OwnersAnnounce'
  BY <1>1 DEF IInv, IdsAreUnique, OwnersAnnounce, Known, Met, About
<1>4. UsesAreCredits' /\ ScreensWereAsked'
  BY <1>1 DEF IInv, UsesAreCredits, ScreensWereAsked, Spent
<1>5. CampaignsAreOwn'
  BY <1>1 DEF IInv, CampaignsAreOwn, OwnCallees
<1>6. AnnouncementsAreUsedOnce'
  BY <1>1 DEF IInv, AnnouncementsAreUsedOnce, VerifiesOnce, OwnUseRefuses, Answered
<1> QED BY <1>2, <1>3, <1>4, <1>5, <1>6 DEF IInv

\* Every reachable state satisfies the invariant, for any registry that loads and
\* however the checks, the announcements, the sweep and the stage interleave.
THEOREM Invariance == Spec => []IInv
<1>1. Init => IInv
  BY InitInvariant
<1>2. IInv /\ [Next]_vars => IInv'
  <2> SUFFICES ASSUME IInv, [Next]_vars PROVE IInv'
    OBVIOUS
  <2>1. CASE Next
    <3>1. /\ TypeOK /\ StepsInOrder /\ IdsAreUnique /\ OwnersAnnounce /\ UsesAreCredits
          /\ ScreensWereAsked /\ CampaignsAreOwn /\ VerifiesOnce /\ OwnUseRefuses
      BY DEF IInv, AnnouncementsAreUsedOnce
    <3>2. TypeOK' /\ StepsInOrder'
      BY <2>1, <3>1, NextTypes, StepsPreserved
    <3>3. IdsAreUnique' /\ OwnersAnnounce' /\ UsesAreCredits'
      BY <2>1, <3>1, IdsPreserved, OwnersPreserved, UsesPreserved
    <3>4. ScreensWereAsked' /\ CampaignsAreOwn'
      BY <2>1, <3>1, ScreensPreserved, CampaignsPreserved
    <3>5. AnnouncementsAreUsedOnce'
      BY <2>1, <3>1, OncePreserved, RefusalsPreserved DEF AnnouncementsAreUsedOnce
    <3> QED BY <3>2, <3>3, <3>4, <3>5 DEF IInv
  <2>2. CASE UNCHANGED vars
    BY <2>2, StutterInvariant
  <2> QED BY <2>1, <2>2
<1> QED BY <1>1, <1>2, PTL DEF Spec

\* One announcement is worth one verification to one tenant, by whichever tier,
\* and only the tenant's own use of it refuses a tenant (find, AnnouncementUseRow).
THEOREM UsedOnce == Spec => []AnnouncementsAreUsedOnce
<1>1. IInv => AnnouncementsAreUsedOnce
  BY DEF IInv
<1> QED BY <1>1, Invariance, PTL

\* A call verifies only by the institution that owns its number, and a caller is a
\* campaign only to a tenant that asked often enough itself (Directory, velocity).
THEOREM NobodySpeaks == Spec => []NobodySpeaksForAnother
<1>1. IInv => NobodySpeaksForAnother
  <2> SUFFICES ASSUME IInv PROVE NobodySpeaksForAnother
    OBVIOUS
  <2>1. VerifiedIsTheOwners
    <3> SUFFICES ASSUME NEW c \in Answered, NEW a \in check[c].credit, a.institution \in Institution,
                        NEW e \in registry, About(e, check[c].caller)
                 PROVE  /\ e.institution = a.institution
                        /\ e.value = check[c].caller => e.outbound
      BY DEF VerifiedIsTheOwners
    <3>1. a \in Known /\ a.caller = check[c].caller
      BY DEF Answered, Known, Met, IInv, StepsInOrder
    <3> QED BY <3>1 DEF IInv, OwnersAnnounce
  <2>2. CampaignIsTheTenantsOwn
    BY DEF CampaignIsTheTenantsOwn, Answered, IInv, CampaignsAreOwn, Campaign
  <2> QED BY <2>1, <2>2 DEF NobodySpeaksForAnother
<1> QED BY <1>1, Invariance, PTL
=============================================================================
