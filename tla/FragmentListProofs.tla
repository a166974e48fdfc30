------------------------- MODULE FragmentListProofs -------------------------
(***************************************************************************)
(* What the list operations of FragmentList return, for every list.        *)
(***************************************************************************)
EXTENDS FragmentList, FiniteSetTheorems, TLAPS

\* A list built by index (a table or a part of it) is a sequence of entries.
LEMMA SeqByIndex ==
    ASSUME NEW S, NEW n \in Nat, NEW s \in [1 .. n -> S]
    PROVE  s \in Seq(S) /\ Len(s) = n
  OBVIOUS

\* create_cache puts one entry in front and keeps the others in their order.
LEMMA CreateCache ==
    ASSUME NEW t \in Seq(Entry), NEW f \in Files, NEW g \in Frags, NEW flag \in {0, 1}
    PROVE  LET c == create_cache(t, f, g, flag)
           IN  /\ c \in Seq(Entry)
               /\ Len(c) = Len(t) + 1
               /\ c[1].file = f /\ c[1].frag = g /\ c[1].sc = flag
               /\ \A i \in 1 .. Len(t) : c[i + 1] = t[i]
  <1> DEFINE e == [file |-> f, frag |-> g, refs |-> 0, sc |-> flag]
  <1>1. e \in Entry /\ e.file = f /\ e.frag = g /\ e.sc = flag
    BY U32Assumption DEF Entry
  <1>2. <<e>> \in Seq(Entry) /\ Len(<<e>>) = 1 /\ <<e>>[1] = e
    BY <1>1
  <1> HIDE DEF e
  <1>3. create_cache(t, f, g, flag) = <<e>> \o t
    BY DEF create_cache, e
  <1>4. /\ <<e>> \o t \in Seq(Entry)
        /\ Len(<<e>> \o t) = Len(t) + 1
        /\ (<<e>> \o t)[1] = e
        /\ \A i \in 1 .. Len(t) : (<<e>> \o t)[i + 1] = t[i]
    BY <1>1, <1>2
  <1> QED
    BY <1>1, <1>3, <1>4

\* remove_cache takes entry i out and keeps the others in their order.
LEMMA RemoveCache ==
    ASSUME NEW t \in Seq(Entry), NEW i \in DOMAIN t
    PROVE  LET r == remove_cache(t, i)
           IN  /\ r \in Seq(Entry)
               /\ Len(r) = Len(t) - 1
               /\ \A j \in 1 .. Len(t) - 1 : r[j] = IF j < i THEN t[j] ELSE t[j + 1]
  <1>1. Len(t) \in Nat /\ DOMAIN t = 1 .. Len(t) /\ Len(t) - 1 \in Nat
    OBVIOUS
  <1>2. remove_cache(t, i) \in [1 .. Len(t) - 1 -> Entry]
    <2> SUFFICES ASSUME NEW j \in 1 .. Len(t) - 1
                 PROVE  (IF j < i THEN t[j] ELSE t[j + 1]) \in Entry
      BY DEF remove_cache
    <2>1. j \in DOMAIN t /\ j + 1 \in DOMAIN t
      BY <1>1
    <2> QED
      BY <2>1
  <1>3. remove_cache(t, i) \in Seq(Entry) /\ Len(remove_cache(t, i)) = Len(t) - 1
    BY <1>1, <1>2, SeqByIndex
  <1>4. \A j \in 1 .. Len(t) - 1 :
            remove_cache(t, i)[j] = IF j < i THEN t[j] ELSE t[j + 1]
    BY DEF remove_cache
  <1> QED
    BY <1>3, <1>4

\* update_ref and local_hits change nothing but reference counts.
SameButRefs(u, t) ==
    /\ u \in Seq(Entry)
    /\ Len(u) = Len(t)
    /\ \A i \in 1 .. Len(t) : u[i].file = t[i].file /\ u[i].frag = t[i].frag /\ u[i].sc = t[i].sc

\* One more count in refs, modulo U32, leaves an entry an entry of the same
\* fragment and origin.
LEMMA BumpRefs ==
    ASSUME NEW e \in Entry, NEW k \in Nat
    PROVE  /\ Bumped(e, k) \in Entry
           /\ Bumped(e, k).file = e.file
           /\ Bumped(e, k).frag = e.frag
           /\ Bumped(e, k).sc = e.sc
  <1>1. (e.refs + k) % U32 \in 0 .. U32 - 1
    BY U32Assumption DEF Entry
  <1> QED
    BY <1>1 DEF Entry, Bumped

\* A fragment request changes a reference count and nothing else.
LEMMA UpdateRefEffect ==
    ASSUME NEW t \in Seq(Entry), NEW f \in Files, NEW g \in Frags
    PROVE  SameButRefs(update_ref(t, f, g), t)
  <1> DEFINE u == update_ref(t, f, g)
  <1>1. Len(t) \in Nat /\ DOMAIN t = 1 .. Len(t) /\ DOMAIN u = 1 .. Len(t)
    BY DEF update_ref
  <1>2. ASSUME NEW i \in 1 .. Len(t)
        PROVE  u[i] \in Entry /\ u[i].file = t[i].file /\ u[i].frag = t[i].frag /\ u[i].sc = t[i].sc
    <2>1. t[i] \in Entry
      BY <1>1
    <2>2. CASE IsFirst(t, i, f, g)
      <3>1. u[i] = Bumped(t[i], 1)
        BY <1>1, <2>2 DEF update_ref
      <3> QED
        BY <2>1, <3>1, BumpRefs
    <2>3. CASE ~IsFirst(t, i, f, g)
      <3>1. u[i] = t[i]
        BY <1>1, <2>3 DEF update_ref
      <3> QED
        BY <2>1, <3>1
    <2> QED
      BY <2>2, <2>3
  <1>3. u = [i \in 1 .. Len(t) |-> u[i]]
    BY <1>1 DEF update_ref
  <1> HIDE DEF u
  <1>4. u \in [1 .. Len(t) -> Entry]
    BY <1>2, <1>3
  <1>5. SameButRefs(u, t)
    BY <1>1, <1>2, <1>4, SeqByIndex DEF SameButRefs
  <1> QED
    BY <1>5 DEF u

\* So does a look-up by the node itself, however many duplicates it counts.
LEMMA LocalHitsEffect ==
    ASSUME NEW t \in Seq(Entry), NEW f \in Files
    PROVE  SameButRefs(local_hits(t, f), t)
  <1> DEFINE u == local_hits(t, f)
             Dup(i) == {j \in Own(t, f) : t[j].frag = t[i].frag}
  <1>1. Len(t) \in Nat /\ DOMAIN t = 1 .. Len(t) /\ DOMAIN u = 1 .. Len(t)
    BY DEF local_hits
  <1>2. ASSUME NEW i \in 1 .. Len(t)
        PROVE  u[i] \in Entry /\ u[i].file = t[i].file /\ u[i].frag = t[i].frag /\ u[i].sc = t[i].sc
    <2>1. t[i] \in Entry
      BY <1>1
    <2>2. CASE IsFirst(t, i, f, t[i].frag)
      <3>1. IsFiniteSet(1 .. Len(t))
        BY <1>1, FS_Interval
      <3>2. Dup(i) \in SUBSET (1 .. Len(t))
        BY <1>1 DEF Own, Positions
      <3>3. IsFiniteSet(Dup(i))
        BY <3>1, <3>2, FS_Subset
      <3>4. Cardinality(Dup(i)) \in Nat
        BY <3>3, FS_CardinalityType
      <3>5. u[i] = Bumped(t[i], Cardinality(Dup(i)))
        BY <1>1, <2>2 DEF local_hits
      <3>6. PICK k \in Nat : u[i] = Bumped(t[i], k)
        BY <3>4, <3>5
      <3>7. /\ Bumped(t[i], k) \in Entry
            /\ Bumped(t[i], k).file = t[i].file
            /\ Bumped(t[i], k).frag = t[i].frag
            /\ Bumped(t[i], k).sc = t[i].sc
        BY <2>1, BumpRefs
      <3> HIDE DEF u
      <3> QED
        BY <3>6, <3>7
    <2>3. CASE ~IsFirst(t, i, f, t[i].frag)
      <3>1. u[i] = t[i]
        BY <1>1, <2>3 DEF local_hits
      <3> QED
        BY <2>1, <3>1
    <2> QED
      BY <2>2, <2>3
  <1>3. u = [i \in 1 .. Len(t) |-> u[i]]
    BY <1>1 DEF local_hits
  <1> HIDE DEF u
  <1>4. u \in [1 .. Len(t) -> Entry]
    BY <1>2, <1>3
  <1>5. SameButRefs(u, t)
    BY <1>1, <1>2, <1>4, SeqByIndex DEF SameButRefs
  <1> QED
    BY <1>5 DEF u

\* With a full buffer the new entry takes the front and entry i is gone; all
\* the others are kept, the ones behind i at the same place.
LEMMA Replace ==
    ASSUME NEW t \in Seq(Entry), NEW i \in DOMAIN t, NEW f \in Files, NEW g \in Frags
    PROVE  LET c == create_cache(remove_cache(t, i), f, g, 0)
           IN  /\ c \in Seq(Entry)
               /\ Len(c) = Len(t)
               /\ c[1].file = f /\ c[1].frag = g /\ c[1].sc = 0
               /\ \A j \in 2 .. Len(t) : c[j] = t[IF j <= i THEN j - 1 ELSE j]
  <1> DEFINE r == remove_cache(t, i)
             c == create_cache(r, f, g, 0)
  <1>1. Len(t) \in Nat /\ i \in 1 .. Len(t)
    OBVIOUS
  <1>2. /\ r \in Seq(Entry)
        /\ Len(r) = Len(t) - 1
        /\ \A j \in 1 .. Len(t) - 1 : r[j] = IF j < i THEN t[j] ELSE t[j + 1]
    BY RemoveCache
  <1> HIDE DEF r
  <1>3. /\ c \in Seq(Entry)
        /\ Len(c) = Len(r) + 1
        /\ c[1].file = f /\ c[1].frag = g /\ c[1].sc = 0
        /\ \A k \in 1 .. Len(r) : c[k + 1] = r[k]
    BY <1>2, CreateCache
  <1> HIDE DEF c
  <1>4. Len(c) = Len(t)
    BY <1>1, <1>2, <1>3
  <1>5. ASSUME NEW j \in 2 .. Len(t)
        PROVE  c[j] = t[IF j <= i THEN j - 1 ELSE j]
    <2>1. j - 1 \in 1 .. Len(r) /\ j - 1 \in 1 .. Len(t) - 1 /\ (j - 1) + 1 = j
      BY <1>1, <1>2
    <2>2. c[(j - 1) + 1] = r[j - 1]
      BY <1>3, <2>1
    <2>3. r[j - 1] = IF j - 1 < i THEN t[j - 1] ELSE t[(j - 1) + 1]
      BY <1>2, <2>1
    <2>4. CASE j <= i
      BY <1>1, <2>1, <2>2, <2>3, <2>4
    <2>5. CASE ~(j <= i)
      BY <1>1, <2>1, <2>2, <2>3, <2>5
    <2> QED
      BY <2>4, <2>5
  <1> QED
    BY <1>3, <1>4, <1>5 DEF c, r

\* The table a daemon starts with holds what /myfs holds, last name first.
LEMMA InitTable ==
    ASSUME NEW stored \in Seq(Pairs)
    PROVE  LET t == init_cache_table(stored)
           IN  /\ t \in Seq(Entry)
               /\ Len(t) = Len(stored)
               /\ \A i \in 1 .. Len(stored) :
                     /\ t[i].file = stored[Len(stored) + 1 - i][1]
                     /\ t[i].frag = stored[Len(stored) + 1 - i][2]
                     /\ t[i].sc = 1
  <1> DEFINE t == init_cache_table(stored)
  <1>1. Len(stored) \in Nat /\ DOMAIN stored = 1 .. Len(stored)
    OBVIOUS
  <1>2. ASSUME NEW i \in 1 .. Len(stored)
        PROVE  stored[Len(stored) + 1 - i][1] \in Files /\ stored[Len(stored) + 1 - i][2] \in Frags
    <2>1. Len(stored) + 1 - i \in 1 .. Len(stored)
      BY <1>1
    <2>2. stored[Len(stored) + 1 - i] \in Files \X Frags
      BY <1>1, <2>1 DEF Pairs
    <2> QED
      BY <2>2
  <1>3. t \in [1 .. Len(stored) -> Entry]
    BY <1>2, U32Assumption DEF init_cache_table, Entry
  <1>4. \A i \in 1 .. Len(stored) :
          /\ t[i].file = stored[Len(stored) + 1 - i][1]
          /\ t[i].frag = stored[Len(stored) + 1 - i][2]
          /\ t[i].sc = 1
    BY DEF init_cache_table
  <1> HIDE DEF t
  <1>5. t \in Seq(Entry) /\ Len(t) = Len(stored)
    BY <1>1, <1>3, SeqByIndex
  <1> QED
    BY <1>4, <1>5 DEF t
=============================================================================
