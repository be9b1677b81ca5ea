------------------------------ MODULE Filter_proofs ------------------------------
(***************************************************************************)
(* What filter yields: elements of the sequence that pass the test, each   *)
(* from a place of its own.  The increasing walk exists by induction on    *)
(* the length, with the property given as a set: the provers cannot take   *)
(* the library's induction theorems, which have an operator as parameter.  *)
(***************************************************************************)
EXTENDS Filter, Functions, SequenceTheorems, FiniteSetTheorems, WellFoundedInduction, TLAPS

-----------------------------------------------------------------------------
(* Induction, the property given as a set.                                 *)
Below == {pair \in Nat \X Nat : pair[1] < pair[2]}

LEMMA BelowIsWellFounded == IsWellFoundedOn(Below, Nat)
<1>1. OpToRel(<, Nat) = Below
    BY Zenon DEF OpToRel, Below
<1> QED BY <1>1, NatLessThanWellFounded, Zenon

LEMMA LeastMember ==
    ASSUME NEW T \in SUBSET Nat, T # {}
    PROVE  \E m \in T : \A k \in T : m <= k
<1>1. PICK m \in T : \A k \in T : <<k, m>> \notin Below
    BY BelowIsWellFounded, WFMin, Zenon
<1>2. ASSUME NEW k \in T PROVE m <= k
  <2>1. <<k, m>> \in Nat \X Nat /\ <<k, m>>[1] = k /\ <<k, m>>[2] = m
      OBVIOUS
  <2>2. ~(k < m)
      BY <1>1, <2>1 DEF Below
  <2> QED BY <2>2
<1> QED BY <1>2

LEMMA Induction ==
    ASSUME NEW S, 0 \in S, \A n \in Nat : n \in S => n + 1 \in S
    PROVE  Nat \subseteq S
<1> DEFINE T == Nat \ S
<1> SUFFICES ASSUME T # {} PROVE FALSE
    OBVIOUS
<1>1. PICK m \in T : \A k \in T : m <= k
    BY LeastMember
<1>2. m # 0 /\ m - 1 \in Nat /\ m - 1 \in S
    BY <1>1
<1> QED BY <1>2

-----------------------------------------------------------------------------
(* The places of a finite set of naturals can be walked upwards.           *)
Upto(places, n) == {i \in places : i <= n}
Walkable(places) == {n \in Nat : IsFiniteSet(Upto(places, n)) /\ Ascending(Upto(places, n)) # {}}

LEMMA PlacesCanBeWalked ==
    ASSUME NEW places \in SUBSET (Nat \ {0})
    PROVE  Nat \subseteq Walkable(places)
<1>0. \A i \in places : i \in Nat /\ i > 0
    OBVIOUS
<1>1. 0 \in Walkable(places)
  <2>1. Upto(places, 0) = {}
    <3>1. ASSUME NEW i \in places PROVE ~(i <= 0)
        BY <1>0
    <3> QED BY <3>1 DEF Upto
  <2>2. IsFiniteSet({}) /\ Cardinality({}) = 0
      BY FS_EmptySet
  <2>3. [i \in 1 .. 0 |-> 0] \in Ascending({})
      BY <2>2 DEF Ascending
  <2> QED BY <2>1, <2>2, <2>3 DEF Walkable
<1>2. ASSUME NEW n \in Nat, n \in Walkable(places) PROVE n + 1 \in Walkable(places)
  <2> DEFINE P == Upto(places, n)
             Q == Upto(places, n + 1)
             k == Cardinality(P)
  <2>1. IsFiniteSet(P) /\ k \in Nat
      BY <1>2, FS_CardinalityType DEF Walkable
  <2>2. PICK walk \in Ascending(P) : TRUE
      BY <1>2 DEF Walkable
  <2>3. CASE n + 1 \notin places
    <3>1. Q = P
      <4>1. ASSUME NEW i \in places PROVE i <= n + 1 <=> i <= n
        <5>1. i \in Nat /\ i # n + 1
            BY <1>0, <2>3
        <5> QED BY <5>1
      <4> QED BY <4>1 DEF Upto
    <3> QED BY <3>1, <1>2 DEF Walkable
  <2>4. CASE n + 1 \in places
    <3>1. Q = P \cup {n + 1} /\ n + 1 \notin P /\ P \subseteq Nat /\ \A i \in P : i < n + 1
      <4>1. ASSUME NEW i \in places PROVE i \in Nat /\ (i <= n + 1 <=> i <= n \/ i = n + 1)
        <5>1. i \in Nat
            BY <1>0
        <5> QED BY <5>1
      <4>2. n + 1 <= n + 1 /\ ~(n + 1 <= n)
          OBVIOUS
      <4>3. Q = P \cup {n + 1}
          BY <2>4, <4>1, <4>2 DEF Upto
      <4>4. n + 1 \notin P
          BY <4>2 DEF Upto
      <4>5. ASSUME NEW i \in P PROVE i \in Nat /\ i < n + 1
        <5>1. i \in Nat /\ i <= n
            BY <4>1 DEF Upto
        <5> QED BY <5>1
      <4> QED BY <4>3, <4>4, <4>5
    <3>2. IsFiniteSet(Q) /\ Cardinality(Q) = k + 1
        BY <2>1, <3>1, FS_AddElement
    <3> DEFINE step == [i \in 1 .. k + 1 |-> IF i = k + 1 THEN n + 1 ELSE walk[i]]
    <3>3. walk \in [1 .. k -> P] /\ \A i, j \in 1 .. k : i < j => walk[i] < walk[j]
        BY <2>2 DEF Ascending
    <3> HIDE DEF P, Q, k
    <3>4. step \in [1 .. k + 1 -> Q]
        BY <2>1, <3>1, <3>3
    <3>5. ASSUME NEW i \in 1 .. k + 1, NEW j \in 1 .. k + 1, i < j PROVE step[i] < step[j]
      <4>1. i \in 1 .. k /\ step[i] = walk[i]
          BY <2>1, <3>5
      <4>2. CASE j = k + 1
          BY <2>1, <3>1, <3>3, <4>1, <4>2
      <4>3. CASE j # k + 1
          BY <2>1, <3>3, <3>5, <4>1, <4>3
      <4> QED BY <4>2, <4>3
    <3>6. step \in Ascending(Q)
        BY <3>2, <3>4, <3>5 DEF Ascending
    <3> USE DEF Q
    <3> QED BY <3>2, <3>6 DEF Walkable
  <2> QED BY <2>3, <2>4
<1> QED BY <1>1, <1>2, Induction

(* The elements of part are at places of seq that are all different.       *)
IsPart(part, seq) ==
    \E walk \in [DOMAIN part -> DOMAIN seq] :
        IsInjective(walk) /\ \A i \in DOMAIN part : part[i] = seq[walk[i]]

(* filter keeps the type, adds the test, and takes no element twice.       *)
LEMMA KeptIsPart ==
    ASSUME NEW T, NEW S, NEW seq \in Seq(T)
    PROVE  Kept(seq, S) \in Seq(T \cap S) /\ IsPart(Kept(seq, S), seq)
<1> DEFINE places == Places(seq, S)
           k == Cardinality(places)
<1>1. DOMAIN seq = 1 .. Len(seq) /\ Len(seq) \in Nat
    OBVIOUS
<1>2. places \in SUBSET (Nat \ {0}) /\ places = Upto(places, Len(seq))
    BY <1>1 DEF Places, Upto
<1>3. Ascending(places) # {} /\ IsFiniteSet(places)
    BY <1>1, <1>2, PlacesCanBeWalked DEF Walkable
<1>4. k \in Nat
    BY <1>3, FS_CardinalityType
<1> DEFINE walk == CHOOSE walk \in Ascending(places) : TRUE
<1>5. walk \in Ascending(places)
    BY <1>3
<1>6. walk \in [1 .. k -> places] /\ \A i, j \in 1 .. k : i < j => walk[i] < walk[j]
    BY <1>5 DEF Ascending
<1>7. Kept(seq, S) = [i \in 1 .. k |-> seq[walk[i]]]
    BY DEF Kept
<1> HIDE DEF walk, k
<1>8. \A i \in 1 .. k : walk[i] \in DOMAIN seq /\ seq[walk[i]] \in T \cap S
    BY <1>6 DEF Places
<1>9. Kept(seq, S) \in Seq(T \cap S) /\ DOMAIN Kept(seq, S) = 1 .. k
    BY <1>4, <1>7, <1>8
<1>10. IsInjective(walk)
  <2>1. \A i \in 1 .. k : walk[i] \in Nat
      BY <1>6, <1>2
  <2> QED BY <1>4, <1>6, <2>1 DEF IsInjective
<1>11. walk \in [DOMAIN Kept(seq, S) -> DOMAIN seq]
    BY <1>6, <1>8, <1>9
<1> QED BY <1>7, <1>9, <1>10, <1>11 DEF IsPart

LEMMA PartIsShorter ==
    ASSUME NEW T, NEW part \in Seq(T), NEW seq \in Seq(T), IsPart(part, seq)
    PROVE  Len(part) <= Len(seq)
<1>1. PICK walk \in [DOMAIN part -> DOMAIN seq] : IsInjective(walk)
    BY DEF IsPart
<1>2. /\ DOMAIN part = 1 .. Len(part) /\ DOMAIN seq = 1 .. Len(seq)
      /\ Len(part) \in Nat /\ Len(seq) \in Nat
    OBVIOUS
<1>3. walk \in Injection(1 .. Len(part), 1 .. Len(seq))
    BY <1>1, <1>2 DEF Injection
<1>4. /\ IsFiniteSet(1 .. Len(seq)) /\ Cardinality(1 .. Len(seq)) = Len(seq)
      /\ Cardinality(1 .. Len(part)) = Len(part)
  <2>1. ASSUME NEW n \in Nat PROVE IsFiniteSet(1 .. n) /\ Cardinality(1 .. n) = n
    <3>1. 1 \in Int /\ n \in Int
        OBVIOUS
    <3>2. IsFiniteSet(1 .. n) /\ Cardinality(1 .. n) = IF 1 > n THEN 0 ELSE n - 1 + 1
        BY <3>1, FS_Interval, Zenon
    <3> QED BY <3>2
  <2> QED BY <1>2, <2>1
<1>5. Cardinality(1 .. Len(part)) <= Cardinality(1 .. Len(seq))
    BY <1>3, <1>4, FS_Injection
<1> QED BY <1>4, <1>5

-----------------------------------------------------------------------------
(* A walk over a set of numbers reaches each of them once.                 *)
Bounded(numbers) == \E bound \in Nat : \A n \in numbers : n <= bound

LEMMA WalksReachAll ==
    ASSUME NEW S \in SUBSET (Nat \ {0}), Bounded(S)
    PROVE  /\ IsFiniteSet(S) /\ Cardinality(S) \in Nat
           /\ Ascending(S) # {}
           /\ \A walk \in Ascending(S) :
                 /\ walk \in [1 .. Cardinality(S) -> S]
                 /\ \A i, j \in 1 .. Cardinality(S) : walk[i] = walk[j] => i = j
                 /\ \A x \in S : \E i \in 1 .. Cardinality(S) : walk[i] = x
<1> DEFINE k == Cardinality(S)
<1>1. PICK bound \in Nat : \A x \in S : x <= bound
    BY DEF Bounded
<1>2. S = Upto(S, bound)
    BY <1>1 DEF Upto
<1>3. IsFiniteSet(S) /\ Ascending(S) # {}
    BY <1>2, PlacesCanBeWalked DEF Walkable
<1>4. k \in Nat
    BY <1>3, FS_CardinalityType
<1>5. ASSUME NEW walk \in Ascending(S)
      PROVE  /\ walk \in [1 .. k -> S]
             /\ \A i, j \in 1 .. k : walk[i] = walk[j] => i = j
             /\ \A x \in S : \E i \in 1 .. k : walk[i] = x
  <2>1. walk \in [1 .. k -> S] /\ \A i, j \in 1 .. k : i < j => walk[i] < walk[j]
      BY DEF Ascending
  <2> HIDE DEF k
  <2>2. \A i \in 1 .. k : walk[i] \in Nat
      BY <2>1
  <2>3. \A i, j \in 1 .. k : walk[i] = walk[j] => i = j
      BY <1>4, <2>1, <2>2
  <2>4. walk \in Injection(1 .. k, S)
      BY <2>1, <2>3 DEF Injection, IsInjective
  <2>5. Cardinality(1 .. k) = k
    <3>1. 1 \in Int /\ k \in Int
        BY <1>4
    <3>2. Cardinality(1 .. k) = IF 1 > k THEN 0 ELSE k - 1 + 1
        BY <3>1, FS_Interval, Zenon
    <3> QED BY <1>4, <3>2
  <2>6. walk \in Surjection(1 .. k, S)
      BY <1>3, <2>4, <2>5, FS_Injection DEF k
  <2> QED BY <2>1, <2>3, <2>6 DEF Surjection
<1> QED BY <1>3, <1>4, <1>5

(* A finite sequence of numbers has a highest one.                         *)
LEMMA SequencesAreBounded ==
    ASSUME NEW n \in Nat, NEW seq \in [1 .. n -> Nat]
    PROVE  Bounded({seq[i] : i \in 1 .. n})
<1> DEFINE T == {m \in Nat : m <= n => \E bound \in Nat : \A i \in 1 .. m : seq[i] <= bound}
<1>1. 0 \in T
    OBVIOUS
<1>2. ASSUME NEW m \in Nat, m \in T PROVE m + 1 \in T
  <2> SUFFICES ASSUME m + 1 <= n
               PROVE  \E bound \in Nat : \A i \in 1 .. m + 1 : seq[i] <= bound
      OBVIOUS
  <2>1. PICK bound \in Nat : \A i \in 1 .. m : seq[i] <= bound
      BY <1>2
  <2>2. seq[m + 1] \in Nat
      OBVIOUS
  <2>3. PICK top \in Nat : bound <= top /\ seq[m + 1] <= top
    <3>1. bound <= bound + seq[m + 1] /\ seq[m + 1] <= bound + seq[m + 1] /\ bound + seq[m + 1] \in Nat
        BY <2>2
    <3> QED BY <3>1
  <2>4. ASSUME NEW i \in 1 .. m + 1 PROVE seq[i] <= top
    <3>1. CASE i = m + 1
        BY <2>3, <3>1
    <3>2. CASE i # m + 1
      <4>1. i \in 1 .. m /\ i \in 1 .. n
          BY <3>2
      <4>2. seq[i] \in Nat /\ seq[i] <= bound
          BY <2>1, <4>1
      <4> QED BY <2>3, <4>2
    <3> QED BY <3>1, <3>2
  <2> QED BY <2>4
<1>3. Nat \subseteq T
  <2> HIDE DEF T
  <2> QED BY <1>1, <1>2, Induction
<1>4. n \in T /\ n <= n
  <2> HIDE DEF T
  <2> QED BY <1>3
<1>5. \E bound \in Nat : \A i \in 1 .. n : seq[i] <= bound
    BY <1>4
<1> QED BY <1>5 DEF Bounded

(* filter keeps the elements that pass, all of them, in their order.       *)
LEMMA KeptIsWalk ==
    ASSUME NEW T, NEW S, NEW seq \in Seq(T)
    PROVE  \E walk \in [DOMAIN Kept(seq, S) -> DOMAIN seq] :
               /\ \A i \in DOMAIN Kept(seq, S) : Kept(seq, S)[i] = seq[walk[i]]
               /\ \A i, j \in DOMAIN Kept(seq, S) : i < j => walk[i] < walk[j]
               /\ \A x \in DOMAIN seq :
                      seq[x] \in S => \E i \in DOMAIN Kept(seq, S) : walk[i] = x
<1> DEFINE places == Places(seq, S)
           k == Cardinality(places)
           walk == CHOOSE walk \in Ascending(places) : TRUE
<1>1. DOMAIN seq = 1 .. Len(seq) /\ Len(seq) \in Nat
    OBVIOUS
<1>2. places \in SUBSET (Nat \ {0}) /\ Bounded(places)
  <2>1. \A i \in places : i \in Nat \ {0} /\ i <= Len(seq)
      BY <1>1 DEF Places
  <2> HIDE DEF places
  <2> QED BY <1>1, <2>1 DEF Bounded
<1>3. k \in Nat /\ Ascending(places) # {}
      /\ \A w \in Ascending(places) : \A x \in places : \E i \in 1 .. k : w[i] = x
  <2> HIDE DEF places
  <2> QED BY <1>2, WalksReachAll
<1>4. walk \in Ascending(places)
    BY <1>3
<1>5. walk \in [1 .. k -> places] /\ \A i, j \in 1 .. k : i < j => walk[i] < walk[j]
    BY <1>4 DEF Ascending
<1>6. Kept(seq, S) = [i \in 1 .. k |-> seq[walk[i]]]
    BY DEF Kept
<1>7. \A x \in places : \E i \in 1 .. k : walk[i] = x
    BY <1>3, <1>4
<1> HIDE DEF walk, k
<1>8. DOMAIN Kept(seq, S) = 1 .. k /\ \A i \in 1 .. k : Kept(seq, S)[i] = seq[walk[i]]
    BY <1>6
<1>9. walk \in [1 .. k -> DOMAIN seq] /\ \A x \in DOMAIN seq : seq[x] \in S => x \in places
    BY <1>5 DEF Places
<1> HIDE DEF places
<1>10. \A x \in DOMAIN seq : seq[x] \in S => \E i \in 1 .. k : walk[i] = x
    BY <1>7, <1>9
<1>11. walk \in [DOMAIN Kept(seq, S) -> DOMAIN seq]
    BY <1>8, <1>9
<1>12. \A i \in DOMAIN Kept(seq, S) : Kept(seq, S)[i] = seq[walk[i]]
    BY <1>8
<1>13. \A i, j \in DOMAIN Kept(seq, S) : i < j => walk[i] < walk[j]
    BY <1>5, <1>8
<1>14. \A x \in DOMAIN seq : seq[x] \in S => \E i \in DOMAIN Kept(seq, S) : walk[i] = x
    BY <1>8, <1>10
<1> WITNESS walk \in [DOMAIN Kept(seq, S) -> DOMAIN seq]
<1> QED BY <1>12, <1>13, <1>14
=================================================================================
