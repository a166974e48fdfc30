---------------------------- MODULE CacheTable ----------------------------
(***************************************************************************)
(* The fragment cache of one caching daemon: caching/src/cacheTable.c and  *)
(* the parts of cExchange.c that read and fill it (getScore and            *)
(* retrieve_frag), on the lists of FragmentList.  The environment is every *)
(* message the daemon may be given: any fragment may be requested or       *)
(* pushed to it at any time.  The module is also the abstract              *)
(* specification that CacheNetwork is shown to implement, once per node.   *)
(***************************************************************************)
EXTENDS FragmentList

CONSTANT
    Stored      \* the <<file, frag>> names under /myfs, in directory order

ASSUME StoredAssumption == Stored \in Seq(Pairs)

VARIABLES
    ctable,     \* the list, head (newest entry) first
    ct_len      \* the length the code keeps beside it

vars == <<ctable, ct_len>>

-----------------------------------------------------------------------------
(* The operations.                                                         *)

Init == /\ ctable = init_cache_table(Stored)
        /\ ct_len = Len(Stored)

\* A fragment request for this node arrives (recv_frreq_ori, recv_frreq_fwd).
UpdateRef(f, g) == /\ ctable' = update_ref(ctable, f, g)
                   /\ UNCHANGED ct_len

\* This node looks the file up for itself (the first loop of process_flrep).
LocalHits(f) == /\ ctable' = local_hits(ctable, f)
                /\ UNCHANGED ct_len

\* Mutant: room is taken to be there when the buffer is exactly full.
StoreFreeMutant(f, g) == /\ ~ReachedK(ctable, f)
                         /\ ct_len <= BUF_SIZE
                         /\ ctable' = create_cache(ctable, f, g, 0)
                         /\ ct_len' = ct_len + 1

\* retrieve_frag with room in the buffer.
StoreFree(f, g) == /\ ~ReachedK(ctable, f)
                   /\ ct_len < BUF_SIZE
                   /\ ctable' = create_cache(ctable, f, g, 0)
                   /\ ct_len' = ct_len + 1

\* Mutant: remove_cache forgets to count the entry out.
StoreEvictMutant(f, g) == /\ ~ReachedK(ctable, f)
                          /\ ct_len >= BUF_SIZE
                          /\ \E i \in DOMAIN ctable :
                                /\ IsVictim(ctable, i)
                                /\ ctable' = create_cache(remove_cache(ctable, i), f, g, 0)
                                /\ ct_len' = ct_len + 1

\* retrieve_frag with a full buffer: remove_cache, then create_cache.
StoreEvict(f, g) == /\ ~ReachedK(ctable, f)
                    /\ ct_len >= BUF_SIZE
                    /\ \E i \in DOMAIN ctable :
                          /\ IsVictim(ctable, i)
                          /\ ctable' = create_cache(remove_cache(ctable, i), f, g, 0)
                          /\ ct_len' = ct_len - 1 + 1

\* The module is unloaded and loaded again: the table is rebuilt from /myfs.
Reload == /\ ctable' = init_cache_table(Stored)
          /\ ct_len' = Len(Stored)

Next == \/ \E f \in Files, g \in Frags : UpdateRef(f, g) \/ StoreFree(f, g) \/ StoreEvict(f, g)
        \/ \E f \in Files : LocalHits(f)
        \/ Reload

Spec == Init /\ [][Next]_vars

-----------------------------------------------------------------------------
(* Properties.                                                             *)

\* Every variable has its type, and ct_len, which the code updates outside
\* the lock and apart from the list, is the length of the list.
TypeOK == /\ ctable \in Seq(Entry)
          /\ ct_len = Len(ctable)

MaxLen == IF Len(Stored) > BUF_SIZE THEN Len(Stored) ELSE BUF_SIZE

\* Prefetching never makes the table outgrow its buffer: only the fragments
\* the node stores itself may take it beyond BUF_SIZE.
Capacity == Len(ctable) <= MaxLen

\* Eviction never costs the network a stored fragment: a fragment in /myfs
\* stays in the table, marked as the service center's, whatever is pushed.
ServiceCenterKept ==
    \A n \in DOMAIN Stored :
        \E i \in DOMAIN ctable : /\ ctable[i].sc = 1
                                 /\ <<ctable[i].file, ctable[i].frag>> = Stored[n]

StoredCount(f) == Cardinality({n \in DOMAIN Stored : Stored[n][1] = f})

\* Prefetching never lets a node gather a whole file: a node holds KVAL
\* entries of a file only if it stores that many itself.
BelowK ==
    \A f \in Files :
        Cardinality(Positions(ctable, f))
            <= IF StoredCount(f) > KVAL - 1 THEN StoredCount(f) ELSE KVAL - 1

\* The unsigned subtraction in getScore never wraps around when the stored
\* fragments fit the buffer: no node bids more than an empty one would.
ScoreFits ==
    Len(Stored) <= BUF_SIZE + 1 =>
        \A f \in Files, g \in Frags :
            getScore(ctable, ct_len, f, g) <= BUF_SIZE + 1

\* retrieve_frag would store a fragment of f: it does not return early.
CanStore(f) == /\ ~ReachedK(ctable, f)
               /\ ct_len < BUF_SIZE \/ Evictable(ctable) # {}

\* A positive bid is one the bidder can honour at once: retrieve_frag would
\* find a free slot or an entry to evict.  It needs one slot beyond the
\* stored fragments.
BidHonoured ==
    Len(Stored) < BUF_SIZE =>
        \A f \in Files, g \in Frags :
            getScore(ctable, ct_len, f, g) > 0 => CanStore(f)
=============================================================================
