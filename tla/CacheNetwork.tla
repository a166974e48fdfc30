--------------------------- MODULE CacheNetwork ---------------------------
(***************************************************************************)
(* The caching daemons of a network: file request flooding (cFileReq.c),   *)
(* file replies and retrieval (cFileRep.c), fragment requests counted      *)
(* where they pass (cFragReq.c, cReqList.c, cPacketIn.c), the exchange     *)
(* that picks an agent to prefetch a popular fragment (cExchange.c) and    *)
(* each node's cache (CacheTable).                                         *)
(*                                                                         *)
(* A node's handlers run one at a time in its cache thread (cThread.c), so *)
(* a handler is one action.  A message in net is on the air or in its      *)
(* receiver's task queue; it is delivered at any time, in any order, or    *)
(* never (lost).  Only a fragment request needs the two apart: the         *)
(* netfilter hook queues a task and then decides whether the packet goes   *)
(* on, and the thread may run in between.                                  *)
(*                                                                         *)
(* Expired entries of rinfo and extable are skipped by every reader until  *)
(* TASK_CLEAN_UP frees them: they are dropped from the model when they     *)
(* expire.                                                                 *)
(***************************************************************************)
EXTENDS FragmentList, Sublists, Bags

CONSTANTS
    Nodes,        \* the ip addresses
    Neigh,        \* Neigh[n]: the nodes that hear a local broadcast of n
    Route,        \* Route[n][d]: next hop of a packet for d at n (external)
    Stored,       \* Stored[n]: the fragments under /myfs of node n
    THRESHOLD,    \* module parameter theta
    ActOn,        \* the nodes with module parameter act = "on"
    NET_DIAMETER, \* ttl of the messages
    Asks,         \* bound: the <<node, file>> the users ask for, in order
    MaxAir,       \* bound: messages on the air when a user asks
    MaxReloads    \* bound: module reloads

ASSUME NodesAssumption ==
    /\ IsFiniteSet(Nodes)
    /\ Neigh \in [Nodes -> SUBSET Nodes]
    /\ Route \in [Nodes -> [Nodes -> Nodes]]
ASSUME FragIdsAssumption ==        \* ids are u_int32_t values
    /\ Files \subseteq Nat /\ IsFiniteSet(Files)
    /\ Frags \subseteq Nat /\ IsFiniteSet(Frags)
ASSUME ParamsAssumption ==
    /\ KVAL <= 8                    \* fileRepInfo.map has 8 slots
    /\ U32 > 1 /\ THRESHOLD \in 0 .. U32 - 1      \* theta is an int
    /\ NET_DIAMETER \in Nat \ {0} /\ ActOn \subseteq Nodes
    /\ Stored \in [Nodes -> Seq(Pairs)]
ASSUME AsksAssumption == Asks \in Seq(Nodes \X Files)

VARIABLES
    ctable, ct_len,  \* per node, see CacheTable
    crlist,          \* crlist[n][f, g]: requests counted, NoCreq when not listed
    rinfo,           \* rinfo[n]: the list of unexpired file replies, head first
    extable,         \* extable[n]: the list of unexpired bids, head first
    flood,           \* flood[n]: the <<source, seq>> of the requests seen
    timers,          \* bag of the pending timer tasks of all nodes
    tasks,           \* bag of the fragment request tasks queued at node m.to
    hook,            \* bag of the fragment requests waiting for the verdict of node m.to
    net,             \* bag of messages on the air
    cSuccess,        \* cSuccess[n]: retrievals the node counted as successful
    seq,             \* file requests issued so far, the last sequence number
    reloads,         \* module reloads so far
    \* Observers: read by the properties only.
    buf,             \* buf[n]: the fragments of the last successful retrieval
    counted,         \* fragment requests counted in a crlist
    stores           \* fragments stored by retrieve_frag

tableVars == <<ctable, ct_len>>
vars == <<ctable, ct_len, crlist, rinfo, extable, flood, timers, tasks, hook, net,
          cSuccess, seq, reloads, buf, counted, stores>>

Cache(n) == INSTANCE CacheTable WITH
    Stored <- Stored[n], ctable <- ctable[n], ct_len <- ct_len[n]

NoCreq == -1

-----------------------------------------------------------------------------
(* Messages and timers.                                                    *)

Flreq(to, src, f, s, metric, ttl) ==
    [type |-> "flreq", to |-> to, src |-> src, file |-> f, seq |-> s, metric |-> metric, ttl |-> ttl]
Flrep(src, dst, f, dist, frags) ==
    [type |-> "flrep", to |-> dst, src |-> src, file |-> f, dist |-> dist, frags |-> frags]
Frreq(type, at, src, dst, f, g, ttl) ==
    [type |-> type, to |-> at, src |-> src, dst |-> dst, file |-> f, frag |-> g, ttl |-> ttl]
Exreq(to, src, dst, f, g) ==
    [type |-> "exreq", to |-> to, src |-> src, dst |-> dst, file |-> f, frag |-> g]
Exrep(at, ip, src, f, g, score) ==
    [type |-> "exrep", to |-> at, ip |-> ip, src |-> src, file |-> f, frag |-> g, score |-> score]
Addcache(at, ip, dst, f, g) ==
    [type |-> "addcache", to |-> at, ip |-> ip, dst |-> dst, file |-> f, frag |-> g]

\* to is the node a message reaches next, ip (for the last two) the address it
\* is sent to: a daemon reads every packet that passes, not only its own.

FragReqSend(n, f)        == [type |-> "FRAG_REQ_SEND", node |-> n, file |-> f]
AddCacheSend(n, d, f, g) == [type |-> "ADD_CACHE_SEND", node |-> n, dst |-> d, file |-> f, frag |-> g]

\* net after message m is taken out and the messages of set S are sent.
Deliver(m, S) == net' = (net (-) SetToBag({m})) (+) SetToBag(S)

Send(S) == net' = net (+) SetToBag(S)

\* local_broadcast by n: a copy for every node in range, none if ttl is 0.
local_broadcast(n, ttl, m) == IF ttl < 1 THEN {} ELSE {[m EXCEPT !.to = x] : x \in Neigh[n]}

\* send_message: nothing goes out with ttl 0.
send_message(ttl, m) == IF ttl = 0 THEN {} ELSE {m}

Inserted(bag, t) == bag (+) SetToBag({t})
Taken(bag, t)    == bag (-) SetToBag({t})
Elsewhere(bag, S) == [m \in DOMAIN bag \ S |-> bag[m]]

-----------------------------------------------------------------------------
(* The user (simpleFS) and the file request flood.                         *)

Init ==
    /\ ctable = [n \in Nodes |-> init_cache_table(Stored[n])]
    /\ ct_len = [n \in Nodes |-> Len(Stored[n])]
    /\ crlist = [n \in Nodes |-> [p \in Pairs |-> NoCreq]]
    /\ rinfo = [n \in Nodes |-> <<>>]
    /\ extable = [n \in Nodes |-> <<>>]
    /\ flood = [n \in Nodes |-> {}]
    /\ timers = EmptyBag
    /\ tasks = EmptyBag
    /\ hook = EmptyBag
    /\ net = EmptyBag
    /\ cSuccess = [n \in Nodes |-> 0]
    /\ buf = [n \in Nodes |-> {}]
    /\ seq = 0 /\ reloads = 0 /\ counted = 0 /\ stores = 0

\* The user of node n asks for a file, with a fresh sequence number.
gen_flreq(n, f) ==
    /\ seq < Len(Asks) /\ Asks[seq + 1] = <<n, f>>
    /\ BagCardinality(net) <= MaxAir
    /\ seq' = seq + 1
    /\ Send(local_broadcast(n, NET_DIAMETER, Flreq(n, n, f, seq + 1, 0, NET_DIAMETER)))
    /\ UNCHANGED <<ctable, ct_len, crlist, rinfo, extable, flood, timers, tasks, hook,
                   cSuccess, reloads, buf, counted, stores>>

\* The frag_ids gen_flrep puts in a reply: the node's first KVAL entries.
ReplyFrags(n, f) ==
    LET own == Kept(ctable[n], Own(ctable[n], f))
    IN  [k \in DOMAIN own |-> own[k].frag]

gen_flrep(n, dst, f, dist) ==
    IF ReplyFrags(n, f) = <<>> THEN {}
    ELSE send_message(NET_DIAMETER, Flrep(n, dst, f, dist, ReplyFrags(n, f)))

find_flood_id(n, src, s) == <<src, s>> \in flood[n]
insert_flood_id(queue, src, s) == queue \cup {<<src, s>>}

\* Mutant: a request is answered and forwarded although it is known.
DropFlreqMutant(n, m) == m.src = n \/ m.ttl <= 1

\* The three early returns: the node's own request comes back
\* (valid_cache_packet), the ttl has expired, the request is known.
DropFlreq(n, m) == m.src = n \/ m.ttl <= 1 \/ find_flood_id(n, m.src, m.seq)

recv_flreq(n, m) ==
    /\ m.type = "flreq" /\ m.to = n
    /\ IF DropFlreq(n, m)
       THEN Deliver(m, {}) /\ UNCHANGED flood
       ELSE /\ flood' = [flood EXCEPT ![n] = insert_flood_id(@, m.src, m.seq)]
            /\ Deliver(m, gen_flrep(n, m.src, m.file, m.metric + 1)
                    \cup local_broadcast(n, m.ttl - 1,
                            Flreq(n, m.src, m.file, m.seq, m.metric + 1, m.ttl - 1)))
    /\ UNCHANGED <<ctable, ct_len, crlist, rinfo, extable, timers, tasks, hook,
                   cSuccess, seq, reloads, buf, counted, stores>>

-----------------------------------------------------------------------------
(* File replies and retrieval.                                             *)

\* A reply goes in at the head of the list.
create_rinfo(list, m) ==
    <<[file |-> m.file, dst |-> m.src, dist |-> m.dist, frags |-> m.frags]>> \o list

\* What is left of the replies once the ones for a file have expired:
\* find_rinfo skips a reply from the mark on, the next TASK_CLEAN_UP frees it.
flush_rinfo(list, f) == Kept(list, {i \in DOMAIN list : list[i].file # f})

\* The entries a walk with find_rinfo visits.
Replies(n, f) == {i \in DOMAIN rinfo[n] : rinfo[n][i].file = f}

\* Mutant: every reply starts a timer.
recv_flrepMutant(n, m) ==
    /\ m.type = "flrep" /\ m.to = n
    /\ timers' = Inserted(timers, FragReqSend(n, m.file))
    /\ rinfo' = [rinfo EXCEPT ![n] = create_rinfo(@, m)]
    /\ Deliver(m, {})
    /\ UNCHANGED <<ctable, ct_len, crlist, extable, flood, tasks, hook,
                   cSuccess, seq, reloads, buf, counted, stores>>

\* The first reply for a file starts the timer that ends the collection.
recv_flrep(n, m) ==
    /\ m.type = "flrep" /\ m.to = n
    /\ timers' = IF Replies(n, m.file) = {}
                 THEN Inserted(timers, FragReqSend(n, m.file))
                 ELSE timers
    /\ rinfo' = [rinfo EXCEPT ![n] = create_rinfo(@, m)]
    /\ Deliver(m, {})
    /\ UNCHANGED <<ctable, ct_len, crlist, extable, flood, tasks, hook,
                   cSuccess, seq, reloads, buf, counted, stores>>

OwnFrags(n, f) == {ReplyFrags(n, f)[k] : k \in DOMAIN ReplyFrags(n, f)}
Offered(n, i) == {rinfo[n][i].frags[k] : k \in DOMAIN rinfo[n][i].frags}

\* Mutant: the own fragments are left out of the check for repeats.
NewFragsMutant(n, f) == UNION {Offered(n, i) : i \in Replies(n, f)}

\* Fragments the replies offer beyond the node's own.
NewFrags(n, f) == (UNION {Offered(n, i) : i \in Replies(n, f)}) \ OwnFrags(n, f)

\* Replies are used nearest first, the newer of two equally near ones first.
Nearer(n, i, j) == \/ rinfo[n][i].dist < rinfo[n][j].dist
                   \/ rinfo[n][i].dist = rinfo[n][j].dist /\ i < j

\* The reply the fragment is taken from.
Provider(n, f, g) ==
    CHOOSE i \in Replies(n, f) :
        /\ g \in Offered(n, i)
        /\ \A j \in Replies(n, f) : g \in Offered(n, j) => i = j \/ Nearer(n, i, j)

Slot(n, f, g) ==
    CHOOSE k \in DOMAIN rinfo[n][Provider(n, f, g)].frags :
        /\ rinfo[n][Provider(n, f, g)].frags[k] = g
        /\ \A l \in 1 .. k - 1 : rinfo[n][Provider(n, f, g)].frags[l] # g

TakenBefore(n, f, h, g) ==
    \/ Nearer(n, Provider(n, f, h), Provider(n, f, g))
    \/ Provider(n, f, h) = Provider(n, f, g) /\ Slot(n, f, h) < Slot(n, f, g)

\* Mutant: the walk stops one fragment early.
NeedMutant(n, f) == KVAL - 1 - Len(ReplyFrags(n, f))

\* What is missing: own entries are counted, equal fragments included.
Need(n, f) == KVAL - Len(ReplyFrags(n, f))

Chosen(n, f) ==
    {g \in NewFrags(n, f) :
        Cardinality({h \in NewFrags(n, f) : TakenBefore(n, f, h, g)}) < Need(n, f)}

\* Mutant: a fragment that is not listed counts as popular.
reachThresholdMutant(n, f, g) ==
    crlist[n][f, g] = NoCreq \/ crlist[n][f, g] >= (THRESHOLD - 1) % U32

reachThreshold(n, f, g) ==
    /\ crlist[n][f, g] # NoCreq
    /\ crlist[n][f, g] >= (THRESHOLD - 1) % U32

\* One fragment request counted at n: listed with count 1, one more, or back
\* to 0 when the threshold is reached.
Count(n, f, g) == IF crlist[n][f, g] = NoCreq THEN 1
                  ELSE IF reachThreshold(n, f, g) THEN 0
                  ELSE (crlist[n][f, g] + 1) % U32

process_flrep(n, f) ==
    LET chosen == Chosen(n, f)
        dst(g) == rinfo[n][Provider(n, f, g)].dst
        popular == IF n \in ActOn THEN {g \in chosen : reachThreshold(n, f, g)} ELSE {}
        enough == Cardinality(NewFrags(n, f)) >= Need(n, f)
    IN
    /\ BagIn(FragReqSend(n, f), timers)
    /\ ctable' = IF n \in ActOn THEN [ctable EXCEPT ![n] = local_hits(@, f)] ELSE ctable
    /\ rinfo' = [rinfo EXCEPT ![n] = flush_rinfo(@, f)]
    /\ IF enough
       THEN /\ cSuccess' = [cSuccess EXCEPT ![n] = @ + 1]
            /\ buf' = [buf EXCEPT ![n] = OwnFrags(n, f) \cup chosen]
            /\ Send({Frreq("ori", Route[n][dst(g)], n, dst(g), f, g, NET_DIAMETER) : g \in chosen}
                 \cup UNION {local_broadcast(n, 1, Exreq(n, n, dst(g), f, g)) : g \in popular})
            /\ timers' = Taken(timers, FragReqSend(n, f))
                            (+) SetToBag({AddCacheSend(n, dst(g), f, g) : g \in popular})
            /\ crlist' = IF n \in ActOn
                         THEN [crlist EXCEPT ![n] = [p \in Pairs |->
                                 IF p[1] = f /\ p[2] \in chosen THEN Count(n, f, p[2]) ELSE @[p]]]
                         ELSE crlist
            /\ counted' = IF n \in ActOn THEN counted + Cardinality(chosen) ELSE counted
       ELSE /\ timers' = Taken(timers, FragReqSend(n, f))
            /\ UNCHANGED <<cSuccess, buf, net, crlist, counted>>
    /\ UNCHANGED <<ct_len, extable, flood, tasks, hook, seq, reloads, stores>>

-----------------------------------------------------------------------------
(* Fragment requests.                                                      *)

\* The byte packet_in reads where a network order u_int32_t starts.
HighByte(id) == id \div 16777216

\* A packet goes on to the next hop (external: IP forwarding).
Forward(n, m) == IF m.ttl <= 1 THEN {} ELSE {[m EXCEPT !.to = Route[n][m.dst], !.ttl = @ - 1]}

\* The hook sees a fragment request: insert_task.  A request of type "ori"
\* for another node then waits for the verdict.
packet_in(n, m) ==
    /\ m.type \in {"ori", "fwd"} /\ m.to = n
    /\ tasks' = Inserted(tasks, m)
    /\ IF m.type = "ori" /\ m.dst # n
       THEN hook' = Inserted(hook, m) /\ Deliver(m, {})
       ELSE UNCHANGED hook /\ Deliver(m, IF m.dst = n THEN {} ELSE Forward(n, m))
    /\ UNCHANGED <<ctable, ct_len, crlist, rinfo, extable, flood, timers,
                   cSuccess, seq, reloads, buf, counted, stores>>

\* The verdict: NF_DROP when the request list entry for the two bytes read
\* has reached the threshold.
Dropped(n, m) ==
    /\ n \in ActOn
    /\ <<HighByte(m.file), HighByte(m.frag)>> \in Pairs
    /\ reachThreshold(n, HighByte(m.file), HighByte(m.frag))

packet_verdict(n, m) ==
    /\ m.to = n
    /\ hook' = Taken(hook, m)
    /\ Send(IF Dropped(n, m) THEN {} ELSE Forward(n, m))
    /\ UNCHANGED <<ctable, ct_len, crlist, rinfo, extable, flood, timers, tasks,
                   cSuccess, seq, reloads, buf, counted, stores>>

\* A request for a fragment this node advertised.
ServeFragment(n, m) ==
    /\ m.dst = n
    /\ ctable' = IF n \in ActOn \/ m.type = "fwd"
                 THEN [ctable EXCEPT ![n] = update_ref(@, m.file, m.frag)] ELSE ctable
    /\ UNCHANGED <<crlist, timers, net, counted>>

\* A request that passes by is counted; at the threshold it is sent on as
\* "fwd" and the neighbours are asked for bids.
CountPassing(n, m) ==
    LET popular == reachThreshold(n, m.file, m.frag)
    IN
    /\ m.dst # n /\ n \in ActOn
    /\ crlist' = [crlist EXCEPT ![n][<<m.file, m.frag>>] = Count(n, m.file, m.frag)]
    /\ counted' = counted + 1
    /\ Send(IF popular
            THEN send_message(m.ttl - 1,
                    Frreq("fwd", Route[n][m.dst], m.src, m.dst, m.file, m.frag, m.ttl - 1))
                 \cup local_broadcast(n, 1, Exreq(n, n, m.dst, m.file, m.frag))
            ELSE {})
    /\ timers' = IF popular
                 THEN Inserted(timers, AddCacheSend(n, m.dst, m.file, m.frag))
                 ELSE timers
    /\ UNCHANGED ctable

recv_frreq_ori(n, m) ==
    /\ m.to = n /\ m.type = "ori"
    /\ tasks' = Taken(tasks, m)
    /\ \/ ServeFragment(n, m)
       \/ CountPassing(n, m)
       \/ m.dst # n /\ n \notin ActOn /\ UNCHANGED <<ctable, crlist, timers, net, counted>>
    /\ UNCHANGED <<ct_len, rinfo, extable, flood, hook, cSuccess, seq, reloads, buf, stores>>

\* A request already taken care of upstream resets the count.
FlushPassing(n, m) ==
    /\ m.dst # n
    /\ crlist' = [crlist EXCEPT ![n][<<m.file, m.frag>>] = IF @ = NoCreq THEN NoCreq ELSE 0]
    /\ UNCHANGED <<ctable, timers, net, counted>>

recv_frreq_fwd(n, m) ==
    /\ m.to = n /\ m.type = "fwd"
    /\ tasks' = Taken(tasks, m)
    /\ ServeFragment(n, m) \/ FlushPassing(n, m)
    /\ UNCHANGED <<ct_len, rinfo, extable, flood, hook, cSuccess, seq, reloads, buf, stores>>

-----------------------------------------------------------------------------
(* The exchange.                                                           *)

Score(n, f, g) == getScore(ctable[n], ct_len[n], f, g)

recv_exreq(n, m) ==
    /\ m.type = "exreq" /\ m.to = n
    /\ Deliver(m, send_message(NET_DIAMETER,
                    Exrep(Route[n][m.src], m.src, n, m.file, m.frag, Score(n, m.file, m.frag))))
    /\ UNCHANGED <<ctable, ct_len, crlist, rinfo, extable, flood, timers, tasks, hook,
                   cSuccess, seq, reloads, buf, counted, stores>>

\* The packet itself travels on when it is not for this node.
Onward(n, m) == IF m.ip = n THEN {} ELSE {[m EXCEPT !.to = Route[n][m.ip]]}

create_extable(list, m) ==
    <<[file |-> m.file, frag |-> m.frag, neigh |-> m.src, score |-> m.score]>> \o list

\* What is left of the bids once the ones for a fragment have expired, in the
\* same way.
flush_extable(list, f, g) ==
    Kept(list, {i \in DOMAIN list : list[i].file # f \/ list[i].frag # g})

recv_exrep(n, m) ==
    /\ m.type = "exrep" /\ m.to = n
    /\ extable' = [extable EXCEPT ![n] = create_extable(@, m)]
    /\ Deliver(m, Onward(n, m))
    /\ UNCHANGED <<ctable, ct_len, crlist, rinfo, flood, timers, tasks, hook,
                   cSuccess, seq, reloads, buf, counted, stores>>

\* Mutant: a buffer that is exactly full is taken to have room.
retrieve_fragMutant(n, f, g) ==
    /\ ~ReachedK(ctable[n], f) /\ ct_len[n] <= BUF_SIZE
    /\ ctable' = [ctable EXCEPT ![n] = create_cache(@, f, g, 0)]
    /\ ct_len' = [ct_len EXCEPT ![n] = @ + 1]
    /\ stores' = stores + 1

\* Mutant: the entry evicted is not counted out.
retrieve_fragCountMutant(n, f, g) ==
    /\ ~ReachedK(ctable[n], f)
    /\ \/ /\ ct_len[n] < BUF_SIZE
          /\ ctable' = [ctable EXCEPT ![n] = create_cache(@, f, g, 0)]
       \/ /\ ct_len[n] >= BUF_SIZE
          /\ \E i \in DOMAIN ctable[n] :
                /\ IsVictim(ctable[n], i)
                /\ ctable' = [ctable EXCEPT ![n] =
                       create_cache(remove_cache(@, i), f, g, 0)]
    /\ ct_len' = [ct_len EXCEPT ![n] = @ + 1]
    /\ stores' = stores + 1

\* retrieve_frag: return early, use a free slot, or replace the victim.
retrieve_frag(n, f, g) ==
    \/ /\ \/ ReachedK(ctable[n], f)
          \/ ct_len[n] >= BUF_SIZE /\ Evictable(ctable[n]) = {}
       /\ UNCHANGED <<ctable, ct_len, stores>>
    \/ /\ ~ReachedK(ctable[n], f) /\ ct_len[n] < BUF_SIZE
       /\ ctable' = [ctable EXCEPT ![n] = create_cache(@, f, g, 0)]
       /\ ct_len' = [ct_len EXCEPT ![n] = @ + 1]
       /\ stores' = stores + 1
    \/ /\ ~ReachedK(ctable[n], f) /\ ct_len[n] >= BUF_SIZE
       /\ \E i \in DOMAIN ctable[n] :
             /\ IsVictim(ctable[n], i)
             /\ ctable' = [ctable EXCEPT ![n] =
                    create_cache(remove_cache(@, i), f, g, 0)]
       /\ UNCHANGED ct_len
       /\ stores' = stores + 1

recv_addcache(n, m) ==
    /\ m.type = "addcache" /\ m.to = n
    /\ retrieve_frag(n, m.file, m.frag)
    /\ Deliver(m, Onward(n, m))
    /\ UNCHANGED <<crlist, rinfo, extable, flood, timers, tasks, hook,
                   cSuccess, seq, reloads, buf, counted>>

Bids(n, f, g) == {i \in DOMAIN extable[n] : extable[n][i].file = f /\ extable[n][i].frag = g}

\* The neighbour the walk of select_agent ends with: the first in the list
\* whose score exceeds the node's own and is not exceeded by another's.
IsBest(n, f, g, i) ==
    /\ extable[n][i].score > Score(n, f, g)
    /\ \A j \in Bids(n, f, g) :
          \/ extable[n][j].score < extable[n][i].score
          \/ extable[n][j].score = extable[n][i].score /\ i <= j

select_agent(n, t) ==
    LET best == {i \in Bids(n, t.file, t.frag) : IsBest(n, t.file, t.frag, i)}
    IN
    /\ t.node = n /\ t.type = "ADD_CACHE_SEND"
    /\ timers' = Taken(timers, t)
    /\ extable' = [extable EXCEPT ![n] = flush_extable(@, t.file, t.frag)]
    /\ \/ \E i \in best :
             /\ Send(send_message(NET_DIAMETER,
                      Addcache(Route[n][extable[n][i].neigh], extable[n][i].neigh, t.dst, t.file, t.frag)))
             /\ UNCHANGED <<ctable, ct_len, stores>>
       \/ best = {} /\ retrieve_frag(n, t.file, t.frag) /\ UNCHANGED net
    /\ UNCHANGED <<crlist, rinfo, flood, tasks, hook, cSuccess, seq, reloads, buf, counted>>

-----------------------------------------------------------------------------

\* rmmod and insmod: cleanup_module frees every list, init_module starts over.
Reload(n) ==
    /\ reloads < MaxReloads
    /\ reloads' = reloads + 1
    /\ ctable' = [ctable EXCEPT ![n] = init_cache_table(Stored[n])]
    /\ ct_len' = [ct_len EXCEPT ![n] = Len(Stored[n])]
    /\ crlist' = [crlist EXCEPT ![n] = [p \in Pairs |-> NoCreq]]
    /\ rinfo' = [rinfo EXCEPT ![n] = <<>>]
    /\ extable' = [extable EXCEPT ![n] = <<>>]
    /\ flood' = [flood EXCEPT ![n] = {}]
    /\ timers' = Elsewhere(timers, {t \in DOMAIN timers : t.node = n})
    /\ tasks' = Elsewhere(tasks, {m \in DOMAIN tasks : m.to = n})
    /\ hook' = Elsewhere(hook, {m \in DOMAIN hook : m.to = n})
    /\ cSuccess' = [cSuccess EXCEPT ![n] = 0]
    /\ UNCHANGED <<net, seq, buf, counted, stores>>

Next ==
    \E n \in Nodes :
        \/ \E f \in Files : gen_flreq(n, f) \/ process_flrep(n, f)
        \/ \E m \in DOMAIN net :
              \/ recv_flreq(n, m) \/ recv_flrep(n, m) \/ packet_in(n, m)
              \/ recv_exreq(n, m) \/ recv_exrep(n, m) \/ recv_addcache(n, m)
        \/ \E m \in DOMAIN hook : packet_verdict(n, m)
        \/ \E m \in DOMAIN tasks : recv_frreq_ori(n, m) \/ recv_frreq_fwd(n, m)
        \/ \E t \in DOMAIN timers : select_agent(n, t)
        \/ Reload(n)

Spec == Init /\ [][Next]_vars

-----------------------------------------------------------------------------
(* Properties.                                                             *)

Offers == {s \in Seq(Frags) : Len(s) \in 1 .. KVAL}

Reply == [file : Files, dst : Nodes, dist : Nat, frags : Offers]
Bid   == [file : Files, frag : Frags, neigh : Nodes, score : 0 .. U32 - 1]

FragmentRequest ==
    [type : {"ori", "fwd"}, to : Nodes, src : Nodes, dst : Nodes, file : Files, frag : Frags,
     ttl : Nat \ {0}]

Message ==
    FragmentRequest
    \cup [type : {"flreq"}, to : Nodes, src : Nodes, file : Files, seq : 1 .. Len(Asks),
          metric : Nat, ttl : Nat]
    \cup [type : {"flrep"}, to : Nodes, src : Nodes, file : Files, dist : Nat, frags : Offers]
    \cup [type : {"exreq"}, to : Nodes, src : Nodes, dst : Nodes, file : Files, frag : Frags]
    \cup [type : {"exrep"}, to : Nodes, ip : Nodes, src : Nodes, file : Files, frag : Frags,
          score : 0 .. U32 - 1]
    \cup [type : {"addcache"}, to : Nodes, ip : Nodes, dst : Nodes, file : Files, frag : Frags]

Timer == [type : {"FRAG_REQ_SEND"}, node : Nodes, file : Files]
         \cup [type : {"ADD_CACHE_SEND"}, node : Nodes, dst : Nodes, file : Files, frag : Frags]

\* Every variable has its type: what is on the air, queued or timed is a
\* message or a timer of a node about a file and a fragment there are, a reply
\* offers one to KVAL fragments (fileRepInfo.map has eight slots), and every
\* node's ct_len is the length of its list.
TypeOK ==
    /\ ctable \in [Nodes -> Seq(Entry)]
    /\ ct_len = [n \in Nodes |-> Len(ctable[n])]
    /\ crlist \in [Nodes -> [Pairs -> NoCreq .. U32 - 1]]
    /\ rinfo \in [Nodes -> Seq(Reply)]
    /\ extable \in [Nodes -> Seq(Bid)]
    /\ flood \in [Nodes -> SUBSET (Nodes \X (1 .. Len(Asks)))]
    /\ IsABag(net) /\ DOMAIN net \subseteq Message
    /\ IsABag(tasks) /\ DOMAIN tasks \subseteq FragmentRequest
    /\ IsABag(hook) /\ DOMAIN hook \subseteq FragmentRequest
    /\ IsABag(timers) /\ DOMAIN timers \subseteq Timer
    /\ cSuccess \in [Nodes -> Nat] /\ buf \in [Nodes -> SUBSET Frags]
    /\ seq \in 0 .. Len(Asks) /\ reloads \in Nat
    /\ counted \in Nat /\ stores \in Nat

\* A table of the network behaves as the cache of one daemon promises,
\* whatever the others do (refinement of CacheTable, one instance per node).
TablesRefine ==
    /\ \A n \in Nodes : Cache(n)!Init
    /\ [][\A n \in Nodes : Cache(n)!Next \/ UNCHANGED Cache(n)!vars]_tableVars

\* Replies waiting at a node always have exactly one timer that will look at
\* them, and a timer never fires without a reply: recv_flrep arms it only
\* for the first reply, process_flrep must leave none behind.
CollectionTimed ==
    \A n \in Nodes, f \in Files :
        IF Replies(n, f) = {} THEN ~BagIn(FragReqSend(n, f), timers)
        ELSE BagIn(FragReqSend(n, f), timers) /\ timers[FragReqSend(n, f)] = 1

\* Number of copies of the members of S in a bag.
Copies(bag, S) == Cardinality(UNION {{m} \X (1 .. bag[m]) : m \in S})

\* Prefetching is paid for by demand: every fragment stored, about to be
\* stored or still being bid for took THRESHOLD requests of its own.  (Where
\* neighbours are reached directly: a relay that recv_addcache passes on its
\* way stores the fragment, too.)
PrefetchBudget ==
    THRESHOLD * (stores + Copies(timers, {t \in DOMAIN timers : t.type = "ADD_CACHE_SEND"})
                        + Copies(net, {m \in DOMAIN net : m.type = "addcache"})) <= counted

\* A node answers a flooded file request once, however many copies reach it:
\* the answers of n that d has, or that are on their way, are no more than
\* the requests of d that n has seen.  (A reload makes n forget them.)
AnsweredOnce ==
    reloads = 0 => \A n \in Nodes, d \in Nodes :
        Cardinality({i \in DOMAIN rinfo[d] : rinfo[d][i].dst = n})
          + Copies(net, {m \in DOMAIN net : m.type = "flrep" /\ m.src = n /\ m.to = d})
        <= Cardinality({r \in flood[n] : r[1] = d})

\* k-out-of-n: a retrieval that counts as a success has KVAL different
\* fragments of the file, own and requested together.
KDistinct == \A n \in Nodes : cSuccess[n] > 0 => Cardinality(buf[n]) >= KVAL

\* No fragment is twice in a list.
NoRepeats(t) == \A i, j \in DOMAIN t : t[i].file = t[j].file /\ t[i].frag = t[j].frag => i = j

\* process_flrep counts a success only where it goes on to request as many
\* fragments as it lacks for KVAL different ones: its walk through the replies
\* takes no fragment twice and none of the node's own, whoever answered and
\* with whatever overlap.  Only a fragment cached twice at the node itself is
\* counted for two.
RetrievalsWhole ==
    [][\A n \in Nodes :
         cSuccess'[n] > cSuccess[n] /\ NoRepeats(ctable[n]) => Cardinality(buf'[n]) >= KVAL]_vars
=============================================================================
