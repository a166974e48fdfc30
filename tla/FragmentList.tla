---------------------------- MODULE FragmentList ----------------------------
(***************************************************************************)
(* The linked list of a daemon's fragment cache: what the functions of     *)
(* caching/src/cacheTable.c compute on it, and what cExchange.c (getScore, *)
(* retrieve_frag) and cFileRep.c (gen_flrep, process_flrep) read off it.   *)
(*                                                                         *)
(* The list ctable is the sequence of its entries, head first.  An entry   *)
(* keeps the fields of cacheTable except prev and next.  u_int32_t values  *)
(* are kept modulo U32.                                                    *)
(***************************************************************************)
EXTENDS Integers, Sequences, FiniteSets

CONSTANTS
    Files,      \* the file_id values
    Frags,      \* the frag_id values
    KVAL,       \* module parameter kval: fragments needed to rebuild a file
    BUF_SIZE,   \* module parameter buf: capacity of the cache
    U32         \* the modulus of u_int32_t (2^32 in the code)

Pairs == Files \X Frags

ASSUME KvalAssumption == KVAL \in Nat \ {0}
ASSUME BufAssumption  == BUF_SIZE \in Nat
ASSUME U32Assumption  == U32 \in Nat \ {0}

Entry == [file : Files, frag : Frags, refs : 0 .. U32 - 1, sc : {0, 1}]

\* The entries a walk with find_cache_by_fl visits.
Positions(t, f) == {i \in DOMAIN t : t[i].file = f}

\* The entry find_cache_by_fr returns, if there is one.
Holds(t, f, g) == \E i \in DOMAIN t : t[i].file = f /\ t[i].frag = g

IsFirst(t, i, f, g) ==
    /\ t[i].file = f /\ t[i].frag = g
    /\ \A j \in DOMAIN t : j < i => ~(t[j].file = f /\ t[j].frag = g)

\* The first KVAL entries of the file: what gen_flrep advertises and what
\* process_flrep counts as its own.
Own(t, f) == {i \in Positions(t, f) : Cardinality({j \in Positions(t, f) : j < i}) < KVAL}

create_cache(t, f, g, flag) == <<[file |-> f, frag |-> g, refs |-> 0, sc |-> flag]>> \o t

remove_cache(t, i) == [j \in 1 .. Len(t) - 1 |-> IF j < i THEN t[j] ELSE t[j + 1]]

\* References are counted in a u_int32_t.
Bumped(e, k) == [e EXCEPT !.refs = (@ + k) % U32]

update_ref(t, f, g) ==
    [i \in DOMAIN t |-> IF IsFirst(t, i, f, g) THEN Bumped(t[i], 1) ELSE t[i]]

\* update_ref once for every entry of Own(t, f): duplicates all hit the first.
local_hits(t, f) ==
    [i \in DOMAIN t |->
        IF IsFirst(t, i, f, t[i].frag)
        THEN Bumped(t[i], Cardinality({j \in Own(t, f) : t[j].frag = t[i].frag}))
        ELSE t[i]]

\* Mutant: the scan does not skip the service center's own entries.
EvictableMutant(t) == DOMAIN t

Evictable(t) == {i \in DOMAIN t : t[i].sc = 0}

\* The entry the scan of retrieve_frag stops with: the first of the least
\* referenced entries that are not the service center's own.
IsVictim(t, i) ==
    /\ i \in Evictable(t)
    /\ \A j \in Evictable(t) : t[i].refs < t[j].refs \/ (t[i].refs = t[j].refs /\ i <= j)

\* Mutant: off by one, the node may gather KVAL fragments.
ReachedKMutant(t, f) == Cardinality(Positions(t, f)) >= KVAL

ReachedK(t, f) == Cardinality(Positions(t, f)) >= KVAL - 1

\* Mutant: the bid does not look at the fragments of the file held already.
getScoreMutant(t, len, f, g) ==
    IF Holds(t, f, g) THEN 0 ELSE (BUF_SIZE - len + 1) % U32

getScore(t, len, f, g) ==
    IF Holds(t, f, g) \/ ReachedK(t, f) THEN 0 ELSE (BUF_SIZE - len + 1) % U32

\* The table of a daemon that finds the names stored under /myfs.
init_cache_table(stored) == [i \in 1 .. Len(stored) |->
    LET name == stored[Len(stored) + 1 - i]
    IN  [file |-> name[1], frag |-> name[2], refs |-> 0, sc |-> 1]]
=============================================================================
