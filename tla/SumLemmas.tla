------------------------------ MODULE SumLemmas ------------------------------
(***************************************************************************)
(* What the proofs need of sums (SumFunctionOnSet and SumFunction of       *)
(* Functions): the terms of a finite set may be taken in any order, so a   *)
(* sum is the sum without one term, plus it.                               *)
(*                                                                         *)
(* Induction is by the set of what it holds for: a theorem with a set      *)
(* parameter, where the library's take an operator.                        *)
(***************************************************************************)
EXTENDS Integers, Sequences, FiniteSets, Functions, FiniteSetTheorems, WellFoundedInduction, TLAPS

\* A set of naturals has a least one.
LEMMA LeastExists ==
  ASSUME NEW S \in SUBSET Nat, S # {}
  PROVE  \E n \in S : \A m \in S : n <= m
<1> DEFINE R == OpToRel(<, Nat)
<1>1. IsWellFoundedOn(R, Nat)
  BY NatLessThanWellFounded
<1>2. \A x, y \in Nat : <<x, y>> \in R <=> x < y
  BY DEF OpToRel
<1> HIDE DEF R
<1>3. \E n \in S : \A m \in S : <<m, n>> \notin R
  BY <1>1, WFMin
<1>4. PICK n \in S : \A m \in S : ~(m < n)
  <2>1. PICK n \in S : \A m \in S : <<m, n>> \notin R
    BY <1>3
  <2> QED BY <1>2, <2>1
<1>5. \A m \in S : m \in Nat /\ n \in Nat
  OBVIOUS
<1> QED BY <1>4, <1>5, SMT

\* What holds of a part of a finite set once it holds of every smaller part of
\* that part holds of all its parts.
LEMMA PartsInduction ==
  ASSUME NEW S, IsFiniteSet(S), NEW Q,
         \A s \in SUBSET S : (\A t \in SUBSET s : t # s => t \in Q) => s \in Q
  PROVE  \A s \in SUBSET S : s \in Q
<1> DEFINE sizes == {n \in Nat : \E s \in SUBSET S : s \notin Q /\ Cardinality(s) = n}
<1> SUFFICES ASSUME NEW s \in SUBSET S, s \notin Q PROVE FALSE
  OBVIOUS
<1>1. \A t \in SUBSET S : IsFiniteSet(t) /\ Cardinality(t) \in Nat
  BY FS_Subset, FS_CardinalityType
<1>2. sizes # {}
  BY <1>1
<1>3. PICK n \in sizes : \A m \in sizes : n <= m
  <2> HIDE DEF sizes
  <2>1. sizes \in SUBSET Nat
    BY DEF sizes
  <2> QED BY <1>2, <2>1, LeastExists
<1>4. PICK least \in SUBSET S : least \notin Q /\ Cardinality(least) = n
  OBVIOUS
<1>5. ASSUME NEW t \in SUBSET least, t # least PROVE t \in Q
  <2>1. t \in SUBSET S /\ Cardinality(t) <= Cardinality(least) /\ Cardinality(t) # Cardinality(least)
    BY <1>1, <1>4, <1>5, FS_Subset
  <2>2. Cardinality(t) < n /\ Cardinality(t) \in Nat /\ n \in Nat
    BY <1>1, <1>4, <2>1
  <2>3. t \notin Q => Cardinality(t) \in sizes
    BY <2>1, <2>2
  <2> QED BY <1>3, <2>2, <2>3
<1> QED BY <1>4, <1>5

-----------------------------------------------------------------------------
(* The function a sum is defined by *)

First(s) == CHOOSE x \in s : TRUE
Sums(f, S, g) ==
  g = [s \in SUBSET S |-> IF s = {} THEN 0 ELSE f[First(s)] + g[s \ {First(s)}]]

LEMMA FirstIn == ASSUME NEW s, s # {} PROVE First(s) \in s
BY DEF First

\* Two of them agree where both are defined.
LEMMA SumsAgree ==
  ASSUME NEW f, NEW S, NEW T, IsFiniteSet(S), NEW g, NEW h, Sums(f, S, g), Sums(f, T, h)
  PROVE  \A s \in SUBSET (S \cap T) : g[s] = h[s]
<1> DEFINE Q == {s \in SUBSET (S \cap T) : g[s] = h[s]}
<1>1. IsFiniteSet(S \cap T)
  BY FS_Subset
<1>2. ASSUME NEW s \in SUBSET (S \cap T), \A t \in SUBSET s : t # s => t \in Q PROVE s \in Q
  <2>1. /\ g[s] = IF s = {} THEN 0 ELSE f[First(s)] + g[s \ {First(s)}]
        /\ h[s] = IF s = {} THEN 0 ELSE f[First(s)] + h[s \ {First(s)}]
    BY DEF Sums
  <2>2. CASE s = {}
    BY <2>1, <2>2
  <2>3. CASE s # {}
    <3>1. s \ {First(s)} \in Q
      BY <1>2, <2>3, FirstIn
    <3> QED BY <2>1, <2>3, <3>1
  <2> QED BY <2>2, <2>3
<1> HIDE DEF Q
<1>3. \A s \in SUBSET (S \cap T) : s \in Q
  BY <1>1, <1>2, PartsInduction
<1> QED BY <1>3 DEF Q

\* There is one for every finite set.
LEMMA SumsExist == ASSUME NEW f, NEW S, IsFiniteSet(S) PROVE \E g : Sums(f, S, g)
<1> DEFINE Q == {s \in SUBSET S : \E g : Sums(f, s, g)}
<1>1. ASSUME NEW s \in SUBSET S, \A t \in SUBSET s : t # s => t \in Q PROVE s \in Q
  <2> DEFINE Of(t) == CHOOSE g : Sums(f, t, g)
             Rest(t) == t \ {First(t)}
             h == [t \in SUBSET s |-> IF t = {} THEN 0 ELSE f[First(t)] + Of(Rest(t))[Rest(t)]]
  <2>1. \A t \in SUBSET s : t # s => Sums(f, t, Of(t))
    BY <1>1
  <2>2. \A t \in SUBSET s : t # {} => Rest(t) \in SUBSET s /\ Rest(t) # s /\ Rest(t) # t
    BY FirstIn
  <2>3. \A t \in SUBSET s : IsFiniteSet(t)
    BY FS_Subset
  <2>4. ASSUME NEW t \in SUBSET s, t # {} PROVE h[Rest(t)] = Of(Rest(t))[Rest(t)]
    <3> DEFINE u == Rest(t)
    <3>1. u \in SUBSET s /\ Sums(f, u, Of(u))
      BY <2>1, <2>2, <2>4
    <3> HIDE DEF u, Of
    <3>2. Of(u)[u] = IF u = {} THEN 0 ELSE f[First(u)] + Of(u)[u \ {First(u)}]
      BY <3>1 DEF Sums
    <3>3. CASE u = {}
      <4>1. h[u] = 0
        BY <3>1, <3>3
      <4> QED BY <3>2, <3>3, <4>1 DEF u
    <3>4. CASE u # {}
      <4>1. Rest(u) \in SUBSET s /\ Rest(u) \in SUBSET u /\ Sums(f, Rest(u), Of(Rest(u)))
        BY <2>1, <2>2, <3>1, <3>4
      <4>2. IsFiniteSet(u) /\ Rest(u) \in SUBSET (u \cap Rest(u))
        BY <2>3, <3>1
      <4>3. Of(u)[Rest(u)] = Of(Rest(u))[Rest(u)]
        <5> DEFINE v == Rest(u)
                   g == Of(u)
                   k == Of(v)
        <5>1. Sums(f, u, g) /\ Sums(f, v, k) /\ IsFiniteSet(u) /\ v \in SUBSET (u \cap v)
          BY <3>1, <4>1, <4>2
        <5>2. g[v] = k[v]
          <6> HIDE DEF v, g, k
          <6> QED BY <5>1, SumsAgree
        <5> QED BY <5>2
      <4>4. h[u] = f[First(u)] + Of(Rest(u))[Rest(u)]
        BY <3>1, <3>4
      <4> QED BY <3>2, <3>4, <4>3, <4>4 DEF u
    <3> QED BY <3>3, <3>4
  <2>5. Sums(f, s, h)
    <3>1. h = [t \in SUBSET s |-> IF t = {} THEN 0 ELSE f[First(t)] + h[t \ {First(t)}]]
      <4>1. \A t \in SUBSET s : h[t] = IF t = {} THEN 0 ELSE f[First(t)] + h[t \ {First(t)}]
        <5> SUFFICES ASSUME NEW t \in SUBSET s
                     PROVE  h[t] = IF t = {} THEN 0 ELSE f[First(t)] + h[t \ {First(t)}]
          OBVIOUS
        <5>1. h[t] = IF t = {} THEN 0 ELSE f[First(t)] + Of(Rest(t))[Rest(t)]
          OBVIOUS
        <5>2. t # {} => h[t \ {First(t)}] = Of(Rest(t))[Rest(t)]
          BY <2>4
        <5> HIDE DEF h, Of
        <5> QED BY <5>1, <5>2
      <4>2. h = [t \in SUBSET s |-> h[t]]
        OBVIOUS
      <4> HIDE DEF h
      <4> QED BY <4>1, <4>2
    <3> HIDE DEF h
    <3> QED BY <3>1 DEF Sums
  <2> QED BY <2>5
<1> HIDE DEF Q
<1>2. \A s \in SUBSET S : s \in Q
  BY <1>1, PartsInduction
<1> QED BY <1>2 DEF Q

-----------------------------------------------------------------------------
(* Sums *)

\* A sum is what such a function says of the whole set.
LEMMA SumIs ==
  ASSUME NEW f, NEW S, IsFiniteSet(S)
  PROVE  \E g : Sums(f, S, g) /\ SumFunctionOnSet(f, S) = g[S]
<1> DEFINE sums == CHOOSE g : Sums(f, S, g)
<1>1. SumFunctionOnSet(f, S) = sums[S]
  BY DEF SumFunctionOnSet, FoldFunctionOnSet, MapThenFoldSet, Sums, First
<1>2. Sums(f, S, sums)
  BY SumsExist
<1> HIDE DEF sums
<1> QED BY <1>1, <1>2

\* Nothing sums to zero.
LEMMA SumEmpty == ASSUME NEW f PROVE SumFunctionOnSet(f, {}) = 0
<1>1. PICK g : Sums(f, {}, g) /\ SumFunctionOnSet(f, {}) = g[{}]
  BY SumIs, FS_EmptySet
<1> QED BY <1>1 DEF Sums

LEMMA SumFirst ==
  ASSUME NEW f, NEW S, IsFiniteSet(S), S # {}
  PROVE  SumFunctionOnSet(f, S) = f[First(S)] + SumFunctionOnSet(f, S \ {First(S)})
<1> DEFINE T == S \ {First(S)}
<1>1. PICK g : Sums(f, S, g) /\ SumFunctionOnSet(f, S) = g[S]
  BY SumIs
<1>2. T \in SUBSET S /\ T \in SUBSET (S \cap T) /\ IsFiniteSet(T)
  BY FS_Subset
<1>3. PICK h : Sums(f, T, h) /\ SumFunctionOnSet(f, T) = h[T]
  BY <1>2, SumIs
<1>4. g[T] = h[T]
  <2> HIDE DEF T
  <2> QED BY <1>1, <1>2, <1>3, SumsAgree
<1>5. g[S] = f[First(S)] + g[T]
  BY <1>1 DEF Sums
<1> QED BY <1>1, <1>3, <1>4, <1>5

\* A sum of integers is one.
LEMMA SumInt ==
  ASSUME NEW f, NEW S, IsFiniteSet(S), \A x \in S : f[x] \in Int
  PROVE  SumFunctionOnSet(f, S) \in Int
<1> DEFINE Q == {s \in SUBSET S : SumFunctionOnSet(f, s) \in Int}
<1>1. ASSUME NEW s \in SUBSET S, \A t \in SUBSET s : t # s => t \in Q PROVE s \in Q
  <2>1. CASE s = {}
    BY <2>1, SumEmpty
  <2>2. CASE s # {}
    <3>1. First(s) \in s /\ s \ {First(s)} \in Q
      BY <1>1, <2>2, FirstIn
    <3>2. SumFunctionOnSet(f, s) = f[First(s)] + SumFunctionOnSet(f, s \ {First(s)})
      BY <2>2, SumFirst, FS_Subset
    <3>3. f[First(s)] \in Int /\ SumFunctionOnSet(f, s \ {First(s)}) \in Int
      BY <3>1
    <3> QED BY <3>2, <3>3
  <2> QED BY <2>1, <2>2
<1> HIDE DEF Q
<1>2. \A s \in SUBSET S : s \in Q
  BY <1>1, PartsInduction
<1> QED BY <1>2 DEF Q

\* Equal terms have equal sums.
LEMMA SumSame ==
  ASSUME NEW f, NEW h, NEW S, IsFiniteSet(S), \A x \in S : f[x] = h[x]
  PROVE  SumFunctionOnSet(f, S) = SumFunctionOnSet(h, S)
<1> DEFINE Q == {s \in SUBSET S : SumFunctionOnSet(f, s) = SumFunctionOnSet(h, s)}
<1>1. ASSUME NEW s \in SUBSET S, \A t \in SUBSET s : t # s => t \in Q PROVE s \in Q
  <2>1. CASE s = {}
    BY <2>1, SumEmpty
  <2>2. CASE s # {}
    <3>1. First(s) \in s /\ s \ {First(s)} \in Q
      BY <1>1, <2>2, FirstIn
    <3>2. /\ SumFunctionOnSet(f, s) = f[First(s)] + SumFunctionOnSet(f, s \ {First(s)})
          /\ SumFunctionOnSet(h, s) = h[First(s)] + SumFunctionOnSet(h, s \ {First(s)})
      BY <2>2, SumFirst, FS_Subset
    <3>3. f[First(s)] = h[First(s)]
      BY <3>1
    <3> QED BY <3>1, <3>2, <3>3
  <2> QED BY <2>1, <2>2
<1> HIDE DEF Q
<1>2. \A s \in SUBSET S : s \in Q
  BY <1>1, PartsInduction
<1> QED BY <1>2 DEF Q

\* No smaller terms have no smaller sum.
LEMMA SumAtMost ==
  ASSUME NEW f, NEW h, NEW S, IsFiniteSet(S),
         \A x \in S : f[x] \in Int /\ h[x] \in Int /\ f[x] <= h[x]
  PROVE  SumFunctionOnSet(f, S) <= SumFunctionOnSet(h, S)
<1> DEFINE Q == {s \in SUBSET S : SumFunctionOnSet(f, s) <= SumFunctionOnSet(h, s)}
<1>1. ASSUME NEW s \in SUBSET S, \A t \in SUBSET s : t # s => t \in Q PROVE s \in Q
  <2>1. CASE s = {}
    <3>1. SumFunctionOnSet(f, s) = 0 /\ SumFunctionOnSet(h, s) = 0
      BY <2>1, SumEmpty
    <3> QED BY <3>1
  <2>2. CASE s # {}
    <3> DEFINE t == s \ {First(s)}
    <3>1. First(s) \in s /\ t \in Q
      BY <1>1, <2>2, FirstIn
    <3>2. /\ SumFunctionOnSet(f, s) = f[First(s)] + SumFunctionOnSet(f, t)
          /\ SumFunctionOnSet(h, s) = h[First(s)] + SumFunctionOnSet(h, t)
      BY <2>2, SumFirst, FS_Subset
    <3>3. f[First(s)] \in Int /\ h[First(s)] \in Int /\ f[First(s)] <= h[First(s)]
      BY <3>1
    <3>4. SumFunctionOnSet(f, t) \in Int /\ SumFunctionOnSet(h, t) \in Int
      <4>1. t \subseteq S /\ IsFiniteSet(t)
        BY FS_Subset
      <4> QED BY <4>1, SumInt
    <3>5. SumFunctionOnSet(f, t) <= SumFunctionOnSet(h, t)
      BY <3>1
    <3>6. SumFunctionOnSet(f, s) <= SumFunctionOnSet(h, s)
      <4> HIDE DEF t
      <4> QED BY <3>2, <3>3, <3>4, <3>5
    <3> QED BY <3>6
  <2> QED BY <2>1, <2>2
<1> HIDE DEF Q
<1>2. \A s \in SUBSET S : s \in Q
  BY <1>1, PartsInduction
<1> QED BY <1>2 DEF Q

\* Zeros sum to zero.
LEMMA SumZero ==
  ASSUME NEW f, NEW S, IsFiniteSet(S), \A x \in S : f[x] = 0
  PROVE  SumFunctionOnSet(f, S) = 0
<1> DEFINE Q == {s \in SUBSET S : SumFunctionOnSet(f, s) = 0}
<1>1. ASSUME NEW s \in SUBSET S, \A t \in SUBSET s : t # s => t \in Q PROVE s \in Q
  <2>1. CASE s = {}
    BY <2>1, SumEmpty
  <2>2. CASE s # {}
    <3>1. First(s) \in s /\ s \ {First(s)} \in Q
      BY <1>1, <2>2, FirstIn
    <3>2. SumFunctionOnSet(f, s) = f[First(s)] + SumFunctionOnSet(f, s \ {First(s)})
      BY <2>2, SumFirst, FS_Subset
    <3> QED BY <3>1, <3>2
  <2> QED BY <2>1, <2>2
<1> HIDE DEF Q
<1>2. \A s \in SUBSET S : s \in Q
  BY <1>1, PartsInduction
<1> QED BY <1>2 DEF Q

\* A sum of naturals is one.
LEMMA SumNat ==
  ASSUME NEW f, NEW S, IsFiniteSet(S), \A x \in S : f[x] \in Nat
  PROVE  SumFunctionOnSet(f, S) \in Nat
<1> DEFINE zero == [x \in S |-> 0]
<1>1. SumFunctionOnSet(zero, S) = 0
  BY SumZero
<1>2. SumFunctionOnSet(zero, S) <= SumFunctionOnSet(f, S)
  BY SumAtMost
<1>3. SumFunctionOnSet(f, S) \in Int
  BY SumInt
<1> HIDE DEF zero
<1> QED BY <1>1, <1>2, <1>3

\* The sum of sums.
LEMMA SumPlus ==
  ASSUME NEW f, NEW h, NEW S, IsFiniteSet(S), \A x \in S : f[x] \in Int /\ h[x] \in Int
  PROVE  SumFunctionOnSet([x \in S |-> f[x] + h[x]], S)
           = SumFunctionOnSet(f, S) + SumFunctionOnSet(h, S)
<1> DEFINE both == [x \in S |-> f[x] + h[x]]
           Q == {s \in SUBSET S : SumFunctionOnSet(both, s)
                                    = SumFunctionOnSet(f, s) + SumFunctionOnSet(h, s)}
<1>1. ASSUME NEW s \in SUBSET S, \A t \in SUBSET s : t # s => t \in Q PROVE s \in Q
  <2>1. CASE s = {}
    <3>1. SumFunctionOnSet(both, s) = 0 /\ SumFunctionOnSet(f, s) = 0 /\ SumFunctionOnSet(h, s) = 0
      BY <2>1, SumEmpty
    <3> HIDE DEF both
    <3> QED BY <3>1
  <2>2. CASE s # {}
    <3> DEFINE t == s \ {First(s)}
    <3>1. First(s) \in s /\ t \in Q
      BY <1>1, <2>2, FirstIn
    <3>2. /\ SumFunctionOnSet(both, s) = both[First(s)] + SumFunctionOnSet(both, t)
          /\ SumFunctionOnSet(f, s) = f[First(s)] + SumFunctionOnSet(f, t)
          /\ SumFunctionOnSet(h, s) = h[First(s)] + SumFunctionOnSet(h, t)
      <4>1. IsFiniteSet(s)
        BY FS_Subset
      <4> HIDE DEF both
      <4> QED BY <2>2, <4>1, SumFirst
    <3>3. /\ both[First(s)] = f[First(s)] + h[First(s)]
          /\ f[First(s)] \in Int /\ h[First(s)] \in Int
      BY <3>1
    <3>4. SumFunctionOnSet(f, t) \in Int /\ SumFunctionOnSet(h, t) \in Int
      <4>1. t \subseteq S /\ IsFiniteSet(t)
        BY FS_Subset
      <4> QED BY <4>1, SumInt
    <3>5. SumFunctionOnSet(both, t) = SumFunctionOnSet(f, t) + SumFunctionOnSet(h, t)
      BY <3>1
    <3>6. SumFunctionOnSet(both, s) = SumFunctionOnSet(f, s) + SumFunctionOnSet(h, s)
      <4> HIDE DEF t, both
      <4> QED BY <3>2, <3>3, <3>4, <3>5
    <3> QED BY <3>6
  <2> QED BY <2>1, <2>2
<1> HIDE DEF Q
<1>2. S \in Q
  BY <1>1, PartsInduction
<1> QED BY <1>2 DEF Q

\* Any term may be the one taken first.
LEMMA SumWithout ==
  ASSUME NEW f, NEW S, IsFiniteSet(S), \A x \in S : f[x] \in Int, NEW e \in S
  PROVE  SumFunctionOnSet(f, S) = f[e] + SumFunctionOnSet(f, S \ {e})
<1> DEFINE sum(s) == SumFunctionOnSet(f, s)
           Q == {s \in SUBSET S : \A x \in s : sum(s) = f[x] + sum(s \ {x})}
<1>f. \A s \in SUBSET S : IsFiniteSet(s) /\ sum(s) \in Int
  BY FS_Subset, SumInt
<1>1. ASSUME NEW s \in SUBSET S, \A t \in SUBSET s : t # s => t \in Q PROVE s \in Q
  <2> SUFFICES ASSUME NEW x \in s PROVE sum(s) = f[x] + sum(s \ {x})
    OBVIOUS
  <2> DEFINE p == First(s)
  <2>1. p \in s
    BY FirstIn
  <2>2. sum(s) = f[p] + sum(s \ {p})
    BY <1>f, SumFirst
  <2>3. CASE x # p
    <3>1. s \ {p} \in Q /\ s \ {x} \in Q
      BY <1>1, <2>1
    <3>2. x \in s \ {p} /\ p \in s \ {x}
      BY <2>1, <2>3
    <3>3. sum(s \ {p}) = f[x] + sum((s \ {p}) \ {x})
      BY <3>1, <3>2
    <3>4. sum(s \ {x}) = f[p] + sum((s \ {x}) \ {p})
      BY <3>1, <3>2
    <3>5. (s \ {p}) \ {x} = (s \ {x}) \ {p}
      OBVIOUS
    <3>6. f[x] \in Int /\ f[p] \in Int /\ sum((s \ {p}) \ {x}) \in Int
      BY <1>f, <2>1
    <3>7. sum((s \ {x}) \ {p}) = sum((s \ {p}) \ {x})
      BY <3>5
    <3> HIDE DEF sum, p
    <3> QED BY <2>2, <3>3, <3>4, <3>6, <3>7
  <2> QED BY <2>2, <2>3
<1> HIDE DEF Q
<1>2. S \in Q
  BY <1>1, PartsInduction
<1> QED BY <1>2 DEF Q

\* One more term.
LEMMA SumMore ==
  ASSUME NEW f, NEW h, NEW e, IsFiniteSet(DOMAIN f), DOMAIN h = DOMAIN f \cup {e}, e \notin DOMAIN f,
         \A x \in DOMAIN f : f[x] \in Int /\ h[x] = f[x], h[e] \in Int
  PROVE  SumFunction(h) = SumFunction(f) + h[e]
<1> DEFINE S == DOMAIN f
           T == DOMAIN h
<1>1. IsFiniteSet(T) /\ T \ {e} = S
  BY FS_AddElement
<1>2. \A x \in T : h[x] \in Int
  OBVIOUS
<1>3. SumFunctionOnSet(h, T) = h[e] + SumFunctionOnSet(h, T \ {e})
  BY <1>1, <1>2, SumWithout
<1>4. SumFunctionOnSet(h, S) = SumFunctionOnSet(f, S)
  BY SumSame
<1>5. SumFunctionOnSet(f, S) \in Int
  BY SumInt
<1> QED BY <1>1, <1>3, <1>4, <1>5 DEF SumFunction

\* One term changed.
LEMMA SumChangedIn ==
  ASSUME NEW f, NEW h, NEW S, IsFiniteSet(S), NEW e \in S,
         \A x \in S : f[x] \in Int /\ (x # e => h[x] = f[x]), h[e] \in Int
  PROVE  SumFunctionOnSet(h, S) = SumFunctionOnSet(f, S) + h[e] - f[e]
<1> DEFINE rest == S \ {e}
<1>1. \A x \in S : h[x] \in Int
  OBVIOUS
<1>2. SumFunctionOnSet(h, S) = h[e] + SumFunctionOnSet(h, rest)
  BY <1>1, SumWithout
<1>3. SumFunctionOnSet(f, S) = f[e] + SumFunctionOnSet(f, rest)
  BY SumWithout
<1>4. IsFiniteSet(rest)
  BY FS_Subset
<1>5. SumFunctionOnSet(h, rest) = SumFunctionOnSet(f, rest) /\ SumFunctionOnSet(f, rest) \in Int
  BY <1>4, SumSame, SumInt
<1> QED BY <1>2, <1>3, <1>5

LEMMA SumChanged ==
  ASSUME NEW f, NEW h, NEW e \in DOMAIN f, IsFiniteSet(DOMAIN f), DOMAIN h = DOMAIN f,
         \A x \in DOMAIN f : f[x] \in Int /\ (x # e => h[x] = f[x]), h[e] \in Int
  PROVE  SumFunction(h) = SumFunction(f) + h[e] - f[e]
BY SumChangedIn DEF SumFunction

=============================================================================
