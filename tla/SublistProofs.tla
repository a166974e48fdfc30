--------------------------- MODULE SublistProofs ---------------------------
(***************************************************************************)
(* What Kept returns, for every list and every set of its positions.       *)
(***************************************************************************)
EXTENDS Sublists, FiniteSetTheorems, WellFoundedInduction, TLAPS

\* A set of natural numbers has a least element: what an argument by
\* induction on a number comes down to.
LEMMA LeastNat ==
    ASSUME NEW T \in SUBSET Nat, T # {}
    PROVE  \E x \in T : \A y \in T : x <= y
  <1>1. PICK x \in T : \A y \in T : ~(<<y, x>> \in OpToRel(<, Nat))
    BY NatLessThanWellFounded, WFMin, Zenon
  <1>2. \A y \in T : ~(y < x)
    BY <1>1 DEF OpToRel
  <1> QED
    BY <1>2

\* Positions of a list are finite in number and counted by a natural number.
LEMMA PositionsCount ==
    ASSUME NEW n \in Nat, NEW A \in SUBSET (1 .. n)
    PROVE  IsFiniteSet(A) /\ Cardinality(A) \in Nat
  <1>1. 1 \in Int /\ n \in Int
    OBVIOUS
  <1>2. IsFiniteSet(1 .. n)
    BY <1>1, FS_Interval
  <1>3. IsFiniteSet(A)
    BY <1>2, FS_Subset
  <1> QED
    BY <1>3, FS_CardinalityType

\* The rank of a kept position is below their number, and positions have
\* their ranks in their own order.
LEMMA RankOrder ==
    ASSUME NEW n \in Nat, NEW K \in SUBSET (1 .. n)
    PROVE  /\ \A i \in K : Rank(K, i) \in 0 .. Cardinality(K) - 1
           /\ \A i, j \in K : i < j => Rank(K, i) < Rank(K, j)
  <1>1. IsFiniteSet(K) /\ Cardinality(K) \in Nat
    BY PositionsCount
  <1>2. ASSUME NEW i \in K
        PROVE  Rank(K, i) \in 0 .. Cardinality(K) - 1
    <2> DEFINE B == {j \in K : j < i}
    <2>1. B \in SUBSET (1 .. n) /\ B \in SUBSET K
      OBVIOUS
    <2>2. Cardinality(B) \in Nat
      BY <2>1, PositionsCount
    <2>3. i \notin B
      OBVIOUS
    <2>4. Cardinality(B) <= Cardinality(K) /\ (Cardinality(K) = Cardinality(B) => K = B)
      BY <1>1, <2>1, FS_Subset
    <2>5. Cardinality(B) # Cardinality(K)
      BY <2>3, <2>4
    <2> HIDE DEF B
    <2>6. Cardinality(B) \in 0 .. Cardinality(K) - 1
      BY <1>1, <2>2, <2>4, <2>5
    <2> QED
      BY <2>6 DEF Rank, B
  <1>3. ASSUME NEW i \in K, NEW j \in K, i < j
        PROVE  Rank(K, i) < Rank(K, j)
    <2> DEFINE A == {x \in K : x < i}
               B == {x \in K : x < j}
    <2>0. \A x \in K : x \in Int
      OBVIOUS
    <2>1. A \in SUBSET B /\ A \in SUBSET (1 .. n) /\ B \in SUBSET (1 .. n)
      <3>1. \A x \in K : x < i => x < j
        BY <1>3, <2>0
      <3> QED
        BY <3>1
    <2>2. i \in B /\ i \notin A
      BY <1>3
    <2>3. IsFiniteSet(B) /\ Cardinality(A) \in Nat /\ Cardinality(B) \in Nat
      BY <2>1, PositionsCount
    <2>4. Cardinality(A) <= Cardinality(B) /\ (Cardinality(B) = Cardinality(A) => B = A)
      BY <2>1, <2>3, FS_Subset
    <2>5. Cardinality(A) # Cardinality(B)
      BY <2>2, <2>4
    <2> HIDE DEF A, B
    <2>6. Cardinality(A) < Cardinality(B)
      BY <2>3, <2>4, <2>5
    <2> QED
      BY <2>6 DEF Rank, A, B
  <1> QED
    BY <1>2, <1>3

\* Every number up to the number of kept positions is the rank of one.
LEMMA RankOnto ==
    ASSUME NEW n \in Nat, NEW K \in SUBSET (1 .. n), NEW k \in 1 .. Cardinality(K)
    PROVE  \E i \in K : Rank(K, i) = k - 1
  <1> DEFINE T == 1 .. Cardinality(K)
             r == [i \in K |-> Rank(K, i) + 1]
  <1>1. IsFiniteSet(K) /\ Cardinality(K) \in Nat
    BY PositionsCount
  <1>2. IsFiniteSet(T) /\ Cardinality(T) = Cardinality(K)
    <2>1. /\ IsFiniteSet(1 .. Cardinality(K))
          /\ Cardinality(1 .. Cardinality(K)) = IF 1 > Cardinality(K) THEN 0 ELSE Cardinality(K) - 1 + 1
      BY <1>1, FS_Interval, SMTT(20)
    <2> QED
      BY <1>1, <2>1
  <1>3. ASSUME NEW i \in K
        PROVE  Rank(K, i) \in Nat /\ Rank(K, i) + 1 \in T /\ i \in Int
    <2>1. Rank(K, i) \in 0 .. Cardinality(K) - 1
      BY RankOrder
    <2> QED
      BY <1>1, <2>1
  <1>4. r \in [K -> T]
    BY <1>3
  <1>5. ASSUME NEW i \in K, NEW j \in K, r[i] = r[j]
        PROVE  i = j
    <2>1. Rank(K, i) = Rank(K, j)
      BY <1>3, <1>5
    <2>2. /\ i < j => Rank(K, i) < Rank(K, j)
          /\ j < i => Rank(K, j) < Rank(K, i)
      BY RankOrder
    <2> QED
      BY <1>3, <2>1, <2>2
  <1> HIDE DEF r, T
  <1>6. r \in Injection(K, T)
    BY <1>4, <1>5 DEF Injection, IsInjective
  <1>7. r \in Surjection(K, T)
    BY <1>2, <1>6, FS_Injection
  <1>8. PICK i \in K : r[i] = k
    BY <1>7 DEF Surjection, T
  <1>9. Rank(K, i) + 1 = k
    BY <1>8 DEF r
  <1> QED
    BY <1>3, <1>9

\* Kept is a list of the entries at K, each once and in their order.
LEMMA KeptEntries ==
    ASSUME NEW S, NEW s \in Seq(S), NEW K \in SUBSET (DOMAIN s)
    PROVE  /\ Kept(s, K) \in Seq(S)
           /\ Cardinality(K) \in Nat
           /\ Len(Kept(s, K)) = Cardinality(K)
           /\ \E at \in [1 .. Cardinality(K) -> K] :
                 /\ \A k \in 1 .. Cardinality(K) : Kept(s, K)[k] = s[at[k]]
                 /\ \A j, k \in 1 .. Cardinality(K) : j < k => at[j] < at[k]
                 /\ \A i \in K : \E k \in 1 .. Cardinality(K) : at[k] = i
  <1> DEFINE n == Len(s)
             c == Cardinality(K)
             at == [k \in 1 .. c |-> CHOOSE i \in K : Rank(K, i) = k - 1]
  <1>1. n \in Nat /\ DOMAIN s = 1 .. n /\ K \in SUBSET (1 .. n)
    OBVIOUS
  <1>2. c \in Nat
    BY <1>1, PositionsCount
  <1>3. \A k \in 1 .. c : at[k] \in K /\ Rank(K, at[k]) = k - 1
    BY <1>1, RankOnto
  <1>4. at \in [1 .. c -> K]
    BY <1>3
  <1>5. \A k \in 1 .. c : Kept(s, K)[k] = s[at[k]]
    BY DEF Kept
  <1>6. DOMAIN Kept(s, K) = 1 .. c /\ Kept(s, K) = [k \in 1 .. c |-> Kept(s, K)[k]]
    BY DEF Kept
  <1> HIDE DEF at, c
  <1>7. \A k \in 1 .. c : Kept(s, K)[k] \in S
    BY <1>1, <1>4, <1>5
  <1>8. Kept(s, K) \in [1 .. c -> S]
    BY <1>6, <1>7
  <1>9. Kept(s, K) \in Seq(S) /\ Len(Kept(s, K)) = c
    BY <1>2, <1>8
  <1>10. ASSUME NEW j \in 1 .. c, NEW k \in 1 .. c, j < k
         PROVE  at[j] < at[k]
    <2>1. at[j] \in K /\ at[k] \in K /\ at[j] \in Int /\ at[k] \in Int
      BY <1>1, <1>3
    <2>2. at[j] # at[k]
      BY <1>2, <1>3, <1>10
    <2>3. ~(at[k] < at[j])
      <3> SUFFICES ASSUME at[k] < at[j]
                   PROVE  FALSE
        OBVIOUS
      <3>1. Rank(K, at[k]) < Rank(K, at[j])
        BY <1>1, <2>1, RankOrder
      <3> QED
        BY <1>2, <1>3, <1>10, <3>1
    <2> QED
      BY <2>1, <2>2, <2>3
  <1>11. ASSUME NEW i \in K
         PROVE  \E k \in 1 .. c : at[k] = i
    <2>1. Rank(K, i) \in 0 .. c - 1
      BY <1>1, RankOrder DEF c
    <2>2. Rank(K, i) + 1 \in 1 .. c
      BY <1>2, <2>1
    <2>3. at[Rank(K, i) + 1] \in K /\ Rank(K, at[Rank(K, i) + 1]) = Rank(K, i)
      BY <1>2, <1>3, <2>1, <2>2
    <2> DEFINE x == at[Rank(K, i) + 1]
    <2>4. x \in Int /\ i \in Int
      BY <1>1, <2>3
    <2> HIDE DEF x
    <2>5. /\ x < i => Rank(K, x) < Rank(K, i)
          /\ i < x => Rank(K, i) < Rank(K, x)
      BY <1>1, <2>3, RankOrder DEF x
    <2>6. Rank(K, x) = Rank(K, i) /\ Rank(K, i) \in Int
      BY <2>1, <2>3 DEF x
    <2>7. x = i
      BY <2>4, <2>5, <2>6
    <2> QED
      BY <2>2, <2>7 DEF x
  <1> QED
    BY <1>2, <1>4, <1>5, <1>9, <1>10, <1>11 DEF c

\* A list of members of S keeps members of S: those at K and no others.
LEMMA KeptMembers ==
    ASSUME NEW S, NEW s \in Seq(S), NEW K \in SUBSET (DOMAIN s)
    PROVE  /\ Kept(s, K) \in Seq(S)
           /\ \A k \in DOMAIN Kept(s, K) : \E i \in K : Kept(s, K)[k] = s[i]
           /\ \A i \in K : \E k \in DOMAIN Kept(s, K) : Kept(s, K)[k] = s[i]
  <1> DEFINE c == Cardinality(K)
  <1>1. /\ Kept(s, K) \in Seq(S)
        /\ c \in Nat
        /\ Len(Kept(s, K)) = c
    BY KeptEntries
  <1>2. PICK at \in [1 .. c -> K] :
            /\ \A k \in 1 .. c : Kept(s, K)[k] = s[at[k]]
            /\ \A i \in K : \E k \in 1 .. c : at[k] = i
    BY KeptEntries
  <1> HIDE DEF c
  <1>3. DOMAIN Kept(s, K) = 1 .. c
    BY <1>1
  <1>4. \A k \in 1 .. c : at[k] \in K /\ Kept(s, K)[k] = s[at[k]]
    BY <1>2
  <1>5. \A i \in K : \E k \in 1 .. c : Kept(s, K)[k] = s[i]
    BY <1>2
  <1> QED
    BY <1>1, <1>3, <1>4, <1>5
=============================================================================
