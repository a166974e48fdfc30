------------------------- MODULE CacheTableProofs -------------------------
(***************************************************************************)
(* Proofs about the fragment cache of CacheTable, for every set of files   *)
(* and fragments, every KVAL, BUF_SIZE and U32 and every content of /myfs. *)
(***************************************************************************)
EXTENDS CacheTable, FragmentListProofs

-----------------------------------------------------------------------------
(* The table init_cache_table builds from what this daemon stores.         *)

\* An entry for every stored fragment, in the order they are stored.
LEMMA StartTable ==
    /\ init_cache_table(Stored) \in Seq(Entry)
    /\ Len(init_cache_table(Stored)) = Len(Stored)
    /\ \A i \in 1 .. Len(Stored) :
          /\ init_cache_table(Stored)[i].file = Stored[Len(Stored) + 1 - i][1]
          /\ init_cache_table(Stored)[i].frag = Stored[Len(Stored) + 1 - i][2]
          /\ init_cache_table(Stored)[i].sc = 1
  BY StoredAssumption, InitTable

-----------------------------------------------------------------------------
(* The type invariant.                                                     *)

\* In every reachable state the table is a list of entries and ct_len, kept
\* apart from the list by insert_cache and remove_cache, is its length.
THEOREM TypeCorrect == Spec => []TypeOK
  <1>1. Init => TypeOK
    BY StartTable DEF Init, TypeOK
  <1>2. TypeOK /\ [Next]_vars => TypeOK'
    <2> SUFFICES ASSUME TypeOK, [Next]_vars
                 PROVE  TypeOK'
      OBVIOUS
    <2> USE DEF TypeOK
    <2>1. ASSUME NEW f \in Files, NEW g \in Frags, UpdateRef(f, g)
          PROVE  TypeOK'
      BY <2>1, UpdateRefEffect DEF UpdateRef, SameButRefs
    <2>2. ASSUME NEW f \in Files, NEW g \in Frags, StoreFree(f, g)
          PROVE  TypeOK'
      BY <2>2, CreateCache DEF StoreFree
    <2>3. ASSUME NEW f \in Files, NEW g \in Frags, StoreEvict(f, g)
          PROVE  TypeOK'
      <3>1. PICK i \in DOMAIN ctable :
                /\ ctable' = create_cache(remove_cache(ctable, i), f, g, 0)
                /\ ct_len' = ct_len - 1 + 1
        BY <2>3 DEF StoreEvict
      <3>2. ctable' \in Seq(Entry) /\ Len(ctable') = Len(ctable)
        BY <3>1, Replace
      <3>3. Len(ctable) \in Nat
        OBVIOUS
      <3> QED
        BY <3>1, <3>2, <3>3
    <2>4. ASSUME NEW f \in Files, LocalHits(f)
          PROVE  TypeOK'
      BY <2>4, LocalHitsEffect DEF LocalHits, SameButRefs
    <2>5. CASE Reload
      BY <2>5, StartTable DEF Reload
    <2>6. CASE UNCHANGED vars
      BY <2>6 DEF vars
    <2> QED
      BY <2>1, <2>2, <2>3, <2>4, <2>5, <2>6 DEF Next
  <1> QED
    BY <1>1, <1>2, PTL DEF Spec

-----------------------------------------------------------------------------
(* Counting entries.                                                       *)

\* The numbers 1 .. n are n in number: the places of a list of that length.
LEMMA IntervalCount ==
    ASSUME NEW n \in Nat
    PROVE  IsFiniteSet(1 .. n) /\ Cardinality(1 .. n) = n
  <1>1. /\ IsFiniteSet(1 .. n)
        /\ Cardinality(1 .. n) = IF 1 > n THEN 0 ELSE n - 1 + 1
    BY FS_Interval
  <1> QED
    BY <1>1

\* A set of places in a list is counted by a number up to its length.
LEMMA PlacesCount ==
    ASSUME NEW n \in Nat, NEW A \in SUBSET (1 .. n)
    PROVE  IsFiniteSet(A) /\ Cardinality(A) \in Nat /\ Cardinality(A) <= n
  <1>1. IsFiniteSet(1 .. n) /\ Cardinality(1 .. n) = n
    BY IntervalCount
  <1>2. IsFiniteSet(A) /\ Cardinality(A) <= Cardinality(1 .. n)
    BY <1>1, FS_Subset
  <1> QED
    BY <1>1, <1>2, FS_CardinalityType

\* A set of places of the new list injects into a set of places of the old
\* one, the front place apart: it grows by one at most, and only there.
LEMMA GrowsByOne ==
    ASSUME NEW m \in Nat, NEW n \in Nat, NEW A \in SUBSET (1 .. m), NEW B \in SUBSET (1 .. n),
           NEW old \in [2 .. m -> 1 .. n],
           \A j, k \in 2 .. m : old[j] = old[k] => j = k,
           \A j \in A : j # 1 => old[j] \in B
    PROVE  /\ Cardinality(A) \in Nat /\ Cardinality(B) \in Nat
           /\ Cardinality(A) <= Cardinality(B) + 1
           /\ 1 \notin A => Cardinality(A) <= Cardinality(B)
  <1> DEFINE A1 == A \ {1}
             h == [j \in A1 |-> old[j]]
  <1>1. IsFiniteSet(A) /\ IsFiniteSet(B)
    BY PlacesCount
  <1>2. Cardinality(A) \in Nat /\ Cardinality(B) \in Nat
    BY PlacesCount
  <1>3. h \in Injection(A1, B)
    <2>1. A1 \in SUBSET (2 .. m)
      OBVIOUS
    <2>2. \A j \in A1 : h[j] = old[j] /\ old[j] \in B
      BY <2>1
    <2>3. h \in [A1 -> B]
      BY <2>2
    <2>4. \A j, k \in A1 : h[j] = h[k] => j = k
      BY <2>1, <2>2
    <2> QED
      BY <2>3, <2>4 DEF Injection, IsInjective
  <1>4. Cardinality(A1) <= Cardinality(B)
    BY <1>1, <1>3, FS_Injection
  <1>5. Cardinality(A1) = IF 1 \in A THEN Cardinality(A) - 1 ELSE Cardinality(A)
    BY <1>1, FS_RemoveElement
  <1> HIDE DEF A1
  <1> QED
    BY <1>2, <1>4, <1>5

\* The entries marked as the service center's own.
Marked(t) == {i \in DOMAIN t : t[i].sc = 1}

\* Adding an unmarked fragment of file f in front of what is left of t, where
\* old says where an entry was: no mark is added, f gains one entry at most
\* and no other file gains one.
LEMMA StoreCounts ==
    ASSUME NEW t \in Seq(Entry), NEW c \in Seq(Entry), NEW f \in Files,
           c[1].file = f, c[1].sc = 0,
           NEW old \in [2 .. Len(c) -> 1 .. Len(t)],
           \A j, k \in 2 .. Len(c) : old[j] = old[k] => j = k,
           \A j \in 2 .. Len(c) : c[j] = t[old[j]]
    PROVE  /\ Cardinality(Marked(t)) \in Nat /\ Cardinality(Marked(c)) \in Nat
           /\ Cardinality(Marked(c)) <= Cardinality(Marked(t))
           /\ \A x \in Files :
                 /\ Cardinality(Positions(t, x)) \in Nat /\ Cardinality(Positions(c, x)) \in Nat
                 /\ Cardinality(Positions(c, x)) <= Cardinality(Positions(t, x)) + 1
                 /\ x # f => Cardinality(Positions(c, x)) <= Cardinality(Positions(t, x))
  <1>1. /\ Len(c) \in Nat /\ Len(t) \in Nat
        /\ DOMAIN t = 1 .. Len(t) /\ DOMAIN c = 1 .. Len(c)
    OBVIOUS
  <1>2. \A j \in DOMAIN c : j # 1 => old[j] \in DOMAIN t /\ c[j] = t[old[j]]
    BY <1>1
  <1>3. Marked(t) \in SUBSET (1 .. Len(t)) /\ Marked(c) \in SUBSET (1 .. Len(c))
    BY <1>1 DEF Marked
  <1>4. 1 \notin Marked(c)
    BY DEF Marked
  <1>5. \A j \in Marked(c) : j # 1 => old[j] \in Marked(t)
    BY <1>2 DEF Marked
  <1>6. /\ Cardinality(Marked(t)) \in Nat /\ Cardinality(Marked(c)) \in Nat
        /\ Cardinality(Marked(c)) <= Cardinality(Marked(t))
    BY <1>1, <1>3, <1>4, <1>5, GrowsByOne
  <1>7. ASSUME NEW x \in Files
        PROVE  /\ Cardinality(Positions(t, x)) \in Nat /\ Cardinality(Positions(c, x)) \in Nat
               /\ Cardinality(Positions(c, x)) <= Cardinality(Positions(t, x)) + 1
               /\ x # f => Cardinality(Positions(c, x)) <= Cardinality(Positions(t, x))
    <2>1. Positions(t, x) \in SUBSET (1 .. Len(t)) /\ Positions(c, x) \in SUBSET (1 .. Len(c))
      BY <1>1 DEF Positions
    <2>2. x # f => 1 \notin Positions(c, x)
      BY DEF Positions
    <2>3. \A j \in Positions(c, x) : j # 1 => old[j] \in Positions(t, x)
      BY <1>2 DEF Positions
    <2> QED
      BY <1>1, <2>1, <2>2, <2>3, GrowsByOne
  <1> QED
    BY <1>6, <1>7

\* What the two ways of retrieve_frag to store a fragment have in common.
Grown(c, t, f) ==
    /\ Cardinality(Marked(c)) <= Cardinality(Marked(t))
    /\ \A x \in Files :
          /\ Cardinality(Positions(t, x)) \in Nat /\ Cardinality(Positions(c, x)) \in Nat
          /\ Cardinality(Positions(c, x)) <= Cardinality(Positions(t, x)) + 1
          /\ x # f => Cardinality(Positions(c, x)) <= Cardinality(Positions(t, x))
    /\ \A i \in DOMAIN t : t[i].sc = 1 => \E j \in DOMAIN c : c[j] = t[i]

\* With room in the buffer.
LEMMA CreateGrows ==
    ASSUME NEW t \in Seq(Entry), NEW f \in Files, NEW g \in Frags
    PROVE  Grown(create_cache(t, f, g, 0), t, f)
  <1> DEFINE c == create_cache(t, f, g, 0)
             old == [j \in 2 .. Len(c) |-> j - 1]
  <1>1. /\ c \in Seq(Entry) /\ Len(c) = Len(t) + 1
        /\ c[1].file = f /\ c[1].sc = 0
        /\ \A i \in 1 .. Len(t) : c[i + 1] = t[i]
    BY CreateCache
  <1> HIDE DEF c
  <1>2. Len(t) \in Nat /\ DOMAIN t = 1 .. Len(t) /\ DOMAIN c = 1 .. Len(t) + 1
    BY <1>1
  <1>3. /\ old \in [2 .. Len(c) -> 1 .. Len(t)]
        /\ \A j, k \in 2 .. Len(c) : old[j] = old[k] => j = k
    BY <1>1, <1>2
  <1>4. ASSUME NEW j \in 2 .. Len(c)
        PROVE  c[j] = t[old[j]]
    <2>1. j - 1 \in 1 .. Len(t) /\ (j - 1) + 1 = j /\ old[j] = j - 1
      BY <1>1, <1>2
    <2> QED
      BY <1>1, <2>1
  <1>5. \A i \in DOMAIN t : i + 1 \in DOMAIN c /\ c[i + 1] = t[i]
    BY <1>1, <1>2
  <1> HIDE DEF old
  <1>6. /\ Cardinality(Marked(c)) <= Cardinality(Marked(t))
        /\ \A x \in Files :
              /\ Cardinality(Positions(t, x)) \in Nat /\ Cardinality(Positions(c, x)) \in Nat
              /\ Cardinality(Positions(c, x)) <= Cardinality(Positions(t, x)) + 1
              /\ x # f => Cardinality(Positions(c, x)) <= Cardinality(Positions(t, x))
    <2>1. c \in Seq(Entry) /\ c[1].file = f /\ c[1].sc = 0
      BY <1>1
    <2>2. \A j \in 2 .. Len(c) : c[j] = t[old[j]]
      BY <1>4
    <2> QED
      BY <1>3, <2>1, <2>2, StoreCounts
  <1> QED
    BY <1>5, <1>6 DEF Grown, c

\* In place of a victim, which is never an entry marked as the service center's.
LEMMA ReplaceGrows ==
    ASSUME NEW t \in Seq(Entry), NEW i \in DOMAIN t, NEW f \in Files, NEW g \in Frags,
           IsVictim(t, i)
    PROVE  Grown(create_cache(remove_cache(t, i), f, g, 0), t, f)
  <1> DEFINE c == create_cache(remove_cache(t, i), f, g, 0)
             old == [j \in 2 .. Len(c) |-> IF j <= i THEN j - 1 ELSE j]
  <1>1. /\ c \in Seq(Entry) /\ Len(c) = Len(t)
        /\ c[1].file = f /\ c[1].sc = 0
        /\ \A j \in 2 .. Len(t) : c[j] = t[IF j <= i THEN j - 1 ELSE j]
    BY Replace
  <1> HIDE DEF c
  <1>2. Len(t) \in Nat /\ DOMAIN t = 1 .. Len(t) /\ DOMAIN c = 1 .. Len(t) /\ i \in 1 .. Len(t)
    BY <1>1
  <1>3. /\ old \in [2 .. Len(c) -> 1 .. Len(t)]
        /\ \A j, k \in 2 .. Len(c) : old[j] = old[k] => j = k
    BY <1>1, <1>2
  <1>4. \A j \in 2 .. Len(c) : c[j] = t[old[j]]
    BY <1>1
  <1>5. ASSUME NEW k \in DOMAIN t, t[k].sc = 1
        PROVE  \E j \in DOMAIN c : c[j] = t[k]
    <2>1. k # i
      BY <1>5 DEF IsVictim, Evictable
    <2>2. CASE k < i
      <3>1. k + 1 \in 2 .. Len(t) /\ k + 1 <= i /\ (k + 1) - 1 = k
        BY <1>2, <2>2
      <3>2. c[k + 1] = t[k]
        BY <1>1, <3>1
      <3> QED
        BY <1>2, <3>1, <3>2
    <2>3. CASE k > i
      <3>1. k \in 2 .. Len(t) /\ ~(k <= i)
        BY <1>2, <2>3
      <3> QED
        BY <1>1, <1>2, <3>1
    <2> QED
      BY <1>2, <2>1, <2>2, <2>3
  <1> HIDE DEF old
  <1>6. /\ Cardinality(Marked(c)) <= Cardinality(Marked(t))
        /\ \A x \in Files :
              /\ Cardinality(Positions(t, x)) \in Nat /\ Cardinality(Positions(c, x)) \in Nat
              /\ Cardinality(Positions(c, x)) <= Cardinality(Positions(t, x)) + 1
              /\ x # f => Cardinality(Positions(c, x)) <= Cardinality(Positions(t, x))
    BY <1>1, <1>3, <1>4, StoreCounts, SMTT(20)
  <1> QED
    BY <1>5, <1>6 DEF Grown, c

\* Counting the entries of the initial table.
LEMMA InitCounts ==
    /\ Len(Stored) \in Nat
    /\ Cardinality(Marked(init_cache_table(Stored))) <= Len(Stored)
    /\ \A x \in Files : /\ StoredCount(x) \in Nat
                         /\ Cardinality(Positions(init_cache_table(Stored), x)) <= StoredCount(x)
  <1> DEFINE t == init_cache_table(Stored)
             n == Len(Stored)
  <1>1. n \in Nat /\ DOMAIN Stored = 1 .. n
    BY StoredAssumption
  <1>2. DOMAIN t = 1 .. n
    BY <1>1, StartTable
  <1>4. Cardinality(Marked(t)) <= n
    <2>1. Marked(t) \in SUBSET (1 .. n)
      BY <1>2 DEF Marked
    <2> QED
      BY <1>1, <2>1, PlacesCount
  <1>5. ASSUME NEW x \in Files
        PROVE  StoredCount(x) \in Nat /\ Cardinality(Positions(t, x)) <= StoredCount(x)
    <2> DEFINE B == {k \in DOMAIN Stored : Stored[k][1] = x}
               h == [i \in Positions(t, x) |-> n + 1 - i]
    <2>1. IsFiniteSet(B) /\ Cardinality(B) \in Nat
      BY <1>1, PlacesCount
    <2>2. \A i \in Positions(t, x) : i \in 1 .. n /\ n + 1 - i \in B
      BY <1>1, <1>2, StartTable DEF Positions
    <2>3. h \in [Positions(t, x) -> B]
      BY <2>2
    <2>4. \A i, j \in Positions(t, x) : h[i] = h[j] => i = j
      BY <1>1, <2>2
    <2>5. h \in Injection(Positions(t, x), B)
      BY <2>3, <2>4 DEF Injection, IsInjective
    <2>6. Cardinality(Positions(t, x)) <= Cardinality(B)
      BY <2>1, <2>5, FS_Injection
    <2> QED
      BY <2>1, <2>6 DEF StoredCount
  <1> QED
    BY <1>1, <1>4, <1>5

-----------------------------------------------------------------------------
(* The inductive invariant of the table.                                   *)

\* Marks are never added: together with ServiceCenterKept this makes room
\* for a prefetched fragment when the buffer exceeds what is stored.
MarksStored == Cardinality(Marked(ctable)) <= Len(Stored)

Inv == TypeOK /\ Capacity /\ ServiceCenterKept /\ MarksStored /\ BelowK

\* What a daemon finds in its table after init_cache_table(Stored).
LEMMA FreshTable == Init => Inv
  <1> SUFFICES ASSUME Init
               PROVE  Inv
    OBVIOUS
  <1> USE DEF Init
  <1>1. Len(Stored) \in Nat /\ DOMAIN Stored = 1 .. Len(Stored)
    BY StoredAssumption
  <1>2. TypeOK /\ Capacity
    BY <1>1, StartTable, BufAssumption DEF TypeOK, Capacity, MaxLen
  <1>3. ServiceCenterKept
    <2> SUFFICES ASSUME NEW n \in DOMAIN Stored
                 PROVE  \E i \in DOMAIN ctable : /\ ctable[i].sc = 1
                                                 /\ <<ctable[i].file, ctable[i].frag>> = Stored[n]
      BY DEF ServiceCenterKept
    <2> DEFINE i == Len(Stored) + 1 - n
    <2>1. i \in 1 .. Len(Stored) /\ Len(Stored) + 1 - i = n
      BY <1>1
    <2>2. DOMAIN ctable = 1 .. Len(Stored)
      BY StartTable
    <2>3. Stored[n] \in Files \X Frags
      BY StoredAssumption DEF Pairs
    <2>4. Stored[n] = <<Stored[n][1], Stored[n][2]>>
      BY <2>3
    <2> HIDE DEF i
    <2>5. ctable[i].sc = 1 /\ ctable[i].file = Stored[n][1] /\ ctable[i].frag = Stored[n][2]
      BY <2>1, StartTable
    <2> QED
      BY <2>1, <2>2, <2>4, <2>5
  <1>4. MarksStored
    BY InitCounts DEF MarksStored
  <1>5. BelowK
    <2> SUFFICES ASSUME NEW f \in Files
                 PROVE  Cardinality(Positions(ctable, f))
                          <= IF StoredCount(f) > KVAL - 1 THEN StoredCount(f) ELSE KVAL - 1
      BY DEF BelowK
    <2>1. StoredCount(f) \in Nat /\ Cardinality(Positions(ctable, f)) <= StoredCount(f)
      BY InitCounts
    <2>2. Cardinality(Positions(ctable, f)) \in Nat
      <3>1. Positions(ctable, f) \in SUBSET (1 .. Len(Stored))
        BY <1>1, StartTable DEF Positions
      <3> QED
        BY <1>1, <3>1, PlacesCount
    <2> QED
      BY <2>1, <2>2, KvalAssumption
  <1> QED
    BY <1>2, <1>3, <1>4, <1>5 DEF Inv

\* A step that changes reference counts only.
LEMMA RefsStep ==
    ASSUME Inv, TypeOK', SameButRefs(ctable', ctable)
    PROVE  Inv'
  <1>1. /\ Len(ctable) \in Nat /\ Len(ctable') = Len(ctable)
        /\ DOMAIN ctable = 1 .. Len(ctable) /\ DOMAIN ctable' = 1 .. Len(ctable)
    BY DEF Inv, TypeOK, SameButRefs
  <1>2. \A i \in DOMAIN ctable : /\ ctable'[i].file = ctable[i].file
                                 /\ ctable'[i].frag = ctable[i].frag
                                 /\ ctable'[i].sc = ctable[i].sc
    BY <1>1 DEF SameButRefs
  <1>3. Capacity'
    BY <1>1 DEF Inv, Capacity, MaxLen
  <1>4. ServiceCenterKept'
    BY <1>1, <1>2 DEF Inv, ServiceCenterKept
  <1>5. Marked(ctable') = Marked(ctable)
    BY <1>1, <1>2 DEF Marked
  <1>6. ASSUME NEW f \in Files
        PROVE  Positions(ctable', f) = Positions(ctable, f)
    BY <1>1, <1>2 DEF Positions
  <1>7. MarksStored' /\ BelowK'
    BY <1>5, <1>6 DEF Inv, MarksStored, BelowK, StoredCount
  <1> QED
    BY <1>3, <1>4, <1>7 DEF Inv

\* A step that stores a fragment of f where retrieve_frag found fewer than
\* KVAL - 1 of them.
LEMMA GrownStep ==
    ASSUME Inv, TypeOK', NEW f \in Files, ~ReachedK(ctable, f),
           Grown(ctable', ctable, f), Len(ctable') <= MaxLen
    PROVE  Inv'
  <1>1. Capacity'
    BY DEF Capacity, MaxLen
  <1>2. ServiceCenterKept'
    <2> SUFFICES ASSUME NEW n \in DOMAIN Stored
                 PROVE  \E j \in DOMAIN ctable' :
                            /\ ctable'[j].sc = 1
                            /\ <<ctable'[j].file, ctable'[j].frag>> = Stored[n]
      BY DEF ServiceCenterKept
    <2>1. PICK i \in DOMAIN ctable : /\ ctable[i].sc = 1
                                     /\ <<ctable[i].file, ctable[i].frag>> = Stored[n]
      BY DEF Inv, ServiceCenterKept
    <2>2. PICK j \in DOMAIN ctable' : ctable'[j] = ctable[i]
      BY <2>1 DEF Grown
    <2> QED
      BY <2>1, <2>2
  <1>3. MarksStored'
    <2>1. Cardinality(Marked(ctable)) <= Len(Stored)
      BY DEF Inv, MarksStored
    <2>2. Cardinality(Marked(ctable')) <= Cardinality(Marked(ctable))
      BY DEF Grown
    <2>3. Marked(ctable) \in SUBSET (1 .. Len(ctable)) /\ Len(ctable) \in Nat
      BY DEF Inv, TypeOK, Marked
    <2>4. Marked(ctable') \in SUBSET (1 .. Len(ctable')) /\ Len(ctable') \in Nat
      BY DEF TypeOK, Marked
    <2>5. Cardinality(Marked(ctable)) \in Nat /\ Cardinality(Marked(ctable')) \in Nat
      BY <2>3, <2>4, PlacesCount
    <2>6. Len(Stored) \in Nat
      BY StoredAssumption
    <2> QED
      BY <2>1, <2>2, <2>5, <2>6 DEF MarksStored
  <1>4. BelowK'
    <2> SUFFICES ASSUME NEW x \in Files
                 PROVE  Cardinality(Positions(ctable', x))
                          <= IF StoredCount(x) > KVAL - 1 THEN StoredCount(x) ELSE KVAL - 1
      BY DEF BelowK, StoredCount
    <2>1. /\ Cardinality(Positions(ctable, x)) \in Nat /\ Cardinality(Positions(ctable', x)) \in Nat
          /\ Cardinality(Positions(ctable', x)) <= Cardinality(Positions(ctable, x)) + 1
          /\ x # f => Cardinality(Positions(ctable', x)) <= Cardinality(Positions(ctable, x))
      BY DEF Grown
    <2>2. StoredCount(x) \in Nat
      BY InitCounts
    <2>3. CASE x = f
      <3>1. Cardinality(Positions(ctable, x)) < KVAL - 1
        BY <2>1, <2>3, KvalAssumption DEF ReachedK
      <3> QED
        BY <2>1, <2>2, <3>1, KvalAssumption
    <2>4. CASE x # f
      <3>1. Cardinality(Positions(ctable, x))
              <= IF StoredCount(x) > KVAL - 1 THEN StoredCount(x) ELSE KVAL - 1
        BY DEF Inv, BelowK
      <3> QED
        BY <2>1, <2>2, <2>4, <3>1, KvalAssumption
    <2> QED
      BY <2>3, <2>4
  <1> QED
    BY <1>1, <1>2, <1>3, <1>4 DEF Inv

\* Inv is an invariant: every operation of the cache preserves it.
THEOREM Invariance == Spec => []Inv
  <1>1. Init => Inv
    BY FreshTable
  <1>2. TypeOK /\ TypeOK' /\ Inv /\ [Next]_vars => Inv'
    <2> SUFFICES ASSUME TypeOK, TypeOK', Inv, [Next]_vars
                 PROVE  Inv'
      OBVIOUS
    <2>1. ASSUME NEW f \in Files, NEW g \in Frags, UpdateRef(f, g)
          PROVE  Inv'
      BY <2>1, UpdateRefEffect, RefsStep DEF UpdateRef, TypeOK
    <2>2. ASSUME NEW f \in Files, NEW g \in Frags, StoreFree(f, g)
          PROVE  Inv'
      <3>1. ctable \in Seq(Entry) /\ ct_len = Len(ctable) /\ Len(ctable) \in Nat
        BY DEF TypeOK
      <3>2. Grown(ctable', ctable, f)
        BY <2>2, <3>1, CreateGrows DEF StoreFree
      <3>3. Len(ctable') = Len(ctable) + 1
        BY <2>2, <3>1, CreateCache DEF StoreFree
      <3>4. Len(ctable') <= MaxLen
        BY <2>2, <3>1, <3>3, BufAssumption, InitCounts DEF StoreFree, MaxLen
      <3> QED
        BY <2>2, <3>2, <3>4, GrownStep DEF StoreFree
    <2>3. ASSUME NEW f \in Files, NEW g \in Frags, StoreEvict(f, g)
          PROVE  Inv'
      <3>1. ctable \in Seq(Entry)
        BY DEF TypeOK
      <3>2. PICK i \in DOMAIN ctable :
                /\ IsVictim(ctable, i)
                /\ ctable' = create_cache(remove_cache(ctable, i), f, g, 0)
        BY <2>3 DEF StoreEvict
      <3>3. Grown(ctable', ctable, f)
        BY <3>1, <3>2, ReplaceGrows
      <3>4. Len(ctable') = Len(ctable)
        BY <3>1, <3>2, Replace
      <3>5. Len(ctable') <= MaxLen
        BY <3>4 DEF Inv, Capacity
      <3> QED
        BY <2>3, <3>3, <3>5, GrownStep DEF StoreEvict
    <2>4. ASSUME NEW f \in Files, LocalHits(f)
          PROVE  Inv'
      BY <2>4, LocalHitsEffect, RefsStep DEF LocalHits, TypeOK
    <2>5. CASE Reload
      <3>1. Init'
        BY <2>5 DEF Reload, Init
      <3> QED
        BY <3>1, FreshTable, PTL
    <2>6. CASE UNCHANGED vars
      BY <2>6 DEF vars, Inv, TypeOK, Capacity, MaxLen, ServiceCenterKept, MarksStored, BelowK, StoredCount
    <2> QED
      BY <2>1, <2>2, <2>3, <2>4, <2>5, <2>6 DEF Next
  <1> QED
    BY <1>1, <1>2, TypeCorrect, PTL DEF Spec

-----------------------------------------------------------------------------
(* What follows from it.                                                   *)

\* Prefetching never takes the table beyond BUF_SIZE.
THEOREM CapacityHolds == Spec => []Capacity
  BY Invariance, PTL DEF Inv

\* No sequence of pushes, requests and evictions loses a stored fragment.
THEOREM StoredFragmentsKept == Spec => []ServiceCenterKept
  BY Invariance, PTL DEF Inv

\* Prefetching never lets a node gather KVAL entries of a file.
THEOREM NeverWholeFile == Spec => []BelowK
  BY Invariance, PTL DEF Inv

\* The unsigned subtraction in getScore does not wrap as long as /myfs fits
\* the buffer, give or take one: a bid never exceeds an empty node's.
THEOREM ScoreNeverWraps == Spec => []ScoreFits
  <1>1. Inv => ScoreFits
    <2> SUFFICES ASSUME Inv, Len(Stored) <= BUF_SIZE + 1, NEW f \in Files, NEW g \in Frags
                 PROVE  getScore(ctable, ct_len, f, g) <= BUF_SIZE + 1
      BY DEF ScoreFits
    <2>1. Len(ctable) \in Nat /\ ct_len = Len(ctable) /\ Len(Stored) \in Nat
      BY InitCounts DEF Inv, TypeOK
    <2>2. Len(ctable) <= BUF_SIZE + 1
      BY <2>1, BufAssumption DEF Inv, Capacity, MaxLen
    <2>3. PICK d \in Nat : d = BUF_SIZE - ct_len + 1 /\ d <= BUF_SIZE + 1
      BY <2>1, <2>2, BufAssumption
    <2>4. d % U32 <= d /\ d % U32 \in Nat
      BY U32Assumption
    <2>5. getScore(ctable, ct_len, f, g) \in {0, d % U32}
      BY <2>3 DEF getScore
    <2> QED
      BY <2>3, <2>4, <2>5, BufAssumption
  <1> QED
    BY <1>1, Invariance, PTL

\* A node that bids can take the fragment: if the buffer exceeds what is
\* stored there is a free slot or an entry retrieve_frag may evict.
THEOREM BidsAreHonoured == Spec => []BidHonoured
  <1>1. Inv => BidHonoured
    <2> SUFFICES ASSUME Inv, Len(Stored) < BUF_SIZE, NEW f \in Files, NEW g \in Frags,
                        getScore(ctable, ct_len, f, g) > 0
                 PROVE  CanStore(f)
      BY DEF BidHonoured
    <2>1. ~ReachedK(ctable, f)
      BY DEF getScore
    <2>2. ASSUME ~(ct_len < BUF_SIZE), Evictable(ctable) = {}
          PROVE  FALSE
      <3>1. ctable \in Seq(Entry) /\ Len(ctable) \in Nat /\ ct_len = Len(ctable)
        BY DEF Inv, TypeOK
      <3>2. \A i \in 1 .. Len(ctable) : ctable[i].sc = 1
        <4> TAKE i \in 1 .. Len(ctable)
        <4>1. ctable[i] \in Entry /\ i \in DOMAIN ctable
          BY <3>1
        <4>2. ctable[i].sc \in {0, 1}
          BY <4>1 DEF Entry
        <4>3. ctable[i].sc # 0
          BY <2>2, <4>1 DEF Evictable
        <4> QED
          BY <4>2, <4>3
      <3>3. Marked(ctable) = 1 .. Len(ctable)
        BY <3>1, <3>2 DEF Marked
      <3>4. Cardinality(1 .. Len(ctable)) = Len(ctable)
        BY <3>1, IntervalCount
      <3> QED
        BY <2>2, <3>1, <3>3, <3>4, InitCounts, BufAssumption DEF Inv, MarksStored
    <2> QED
      BY <2>1, <2>2 DEF CanStore
  <1> QED
    BY <1>1, Invariance, PTL
=============================================================================
