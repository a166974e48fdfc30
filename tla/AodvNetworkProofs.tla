------------------------- MODULE AodvNetworkProofs -------------------------
(***************************************************************************)
(* Proofs about the network of routing daemons of AodvNetwork, for every   *)
(* set of nodes and links, with any losses, moves, restarts, expiries and  *)
(* interleavings of the output hook.                                       *)
(***************************************************************************)
EXTENDS AodvNetwork, SublistProofs, SequenceTheorems

-----------------------------------------------------------------------------
(* The invariant.                                                          *)

\* The largest sequence number that d has given out.
Hi(d) == IF rt[d][d].seq > issued[d] THEN rt[d][d].seq ELSE issued[d]

\* A table that n may have: it lists a valid route to n itself.
OwnTable(n, t) ==
    /\ DOMAIN t \subseteq Nodes /\ t \in [DOMAIN t -> Routes]
    /\ n \in DOMAIN t /\ t[n].valid

\* Routes the kernel may have, next to the table t: to what t lists.
KernelTable(g, t) == DOMAIN g \subseteq DOMAIN t /\ g \in [DOMAIN g -> Nodes]

TablesInv ==
    /\ DOMAIN rt = Nodes /\ DOMAIN krt = Nodes /\ issued \in [Nodes -> Nat]
    /\ \A n \in Nodes : OwnTable(n, rt[n]) /\ KernelTable(krt[n], rt[n])
    /\ \A n \in Nodes : \A d \in DOMAIN rt[n] : rt[n][d].valid => rt[n][d].seq <= Hi(d)
    /\ OwnRoute

NeighInv ==
    /\ rreq_id \in [Nodes -> Nat] /\ flood \in [Nodes -> SUBSET (Nodes \X Nat)]
    /\ neigh \in [Nodes -> SUBSET Nodes] /\ fresh \in [Nodes -> SUBSET Nodes]
    /\ \A n \in Nodes : n \notin neigh[n] /\ fresh[n] \subseteq neigh[n]

TimersInv ==
    /\ DOMAIN timers = Nodes /\ DOMAIN due = Nodes
    /\ \A n \in Nodes : /\ IsABag(timers[n]) /\ DOMAIN timers[n] \subseteq Tasks
                        /\ IsABag(due[n]) /\ DOMAIN due[n] \subseteq Tasks

\* The replies a node may hold, and the messages that may be on a hop: none
\* tells of a sequence number that its node has not given out.
KnownPackets == {p \in Packets : p.type = "RREP" => p.dst_seq <= Hi(p.dst)}
Heard == [l \in Hops |->
    {m \in Messages : /\ m.type = "RREP" => m.dst_seq <= Hi(m.dst)
                      /\ m.type = "RREQ" => m.src_seq <= Hi(m.src) /\ m.from = l[1]
                      /\ m.type = "HELLO" => m.dst_seq <= Hi(m.from) /\ m.from = l[1]
                      /\ m.type = "RERR" => m.from = l[1]}]

\* The hops c with messages of S[l] on hop l.
OnAir(c, S) == DOMAIN c = Hops /\ \A l \in Hops : c[l] \in Seq(S[l])

HookInv == out \in [Nodes -> SUBSET [p : KnownPackets, queue : BOOLEAN]]
QueueInv == /\ ipq \in [Nodes -> Seq(KnownPackets)]
            /\ \A n \in Nodes : Len(ipq[n]) <= QMAX
AirInv == OnAir(air, Heard)

CountersInv ==
    /\ link \subseteq Link \cup Movable
    /\ sent \in 0 .. Len(Sends) /\ hellos \in Nat /\ expiries \in Nat /\ moves \in Nat

Inv == /\ TablesInv /\ NeighInv /\ TimersInv /\ HookInv /\ QueueInv /\ AirInv
       /\ CountersInv

\* What the thread of n may be in: a handler of a message it has heard, about
\* a destination the table lists as long as that matters, or of a timer.
Working(n, w) ==
    /\ w \in Works
    /\ w.todo # "drop" => \E l \in Hops : w.m \in Heard[l]
    /\ w.todo # "drop" /\ w.m.type = "RREQ" => w.m.ttl > 1
    /\ w.todo \in {"route", "send"} => w.ip \in DOMAIN rt[n]

TaskInv ==
    /\ DOMAIN task = Nodes
    /\ \A n \in Nodes : /\ \A w \in task[n] : Working(n, w)
                        /\ \A w, v \in task[n] : w = v

\* No node takes a sequence number back.
Grown == \A d \in Nodes : Hi(d) <= Hi(d)'

-----------------------------------------------------------------------------
(* Helpers.                                                                *)

\* A table with one more or one other route.
LEMMA PutType ==
    ASSUME NEW S, NEW t, t \in [DOMAIN t -> S], NEW d, NEW v \in S
    PROVE  Put(t, d, v) \in [DOMAIN t \cup {d} -> S]
  BY DEF Put

\* Taking a message off a hop.
LEMMA OnAirRest ==
    ASSUME NEW S, OnAir(air, S), NEW l \in Hops, air[l] # <<>>
    PROVE  /\ Head(air[l]) \in S[l]
           /\ OnAir([air EXCEPT ![l] = Tail(@)], S)
  <1>1. air[l] \in Seq(S[l])
    BY DEF OnAir
  <1>2. Head(air[l]) \in S[l] /\ Tail(air[l]) \in Seq(S[l])
    BY <1>1, HeadTailProperties
  <1> QED
    BY <1>2 DEF OnAir

\* What may be on a hop may be more.
LEMMA OnAirGrows ==
    ASSUME NEW c, NEW S, NEW T, OnAir(c, S), \A l \in Hops : S[l] \subseteq T[l]
    PROVE  OnAir(c, T)
  <1>1. ASSUME NEW l \in Hops
        PROVE  c[l] \in Seq(T[l])
    <2>1. c[l] \in Seq(S[l]) /\ S[l] \subseteq T[l]
      BY DEF OnAir
    <2> QED
      BY <2>1
  <1> QED
    BY <1>1 DEF OnAir

\* A broadcast reaches the nodes in range.
LEMMA OnAirBroadcast ==
    ASSUME NEW c, NEW S, OnAir(c, S), NEW n, NEW m, \A l \in Hops : l[1] = n => m \in S[l]
    PROVE  OnAir(local_broadcast(c, n, m), S)
  <1>1. ASSUME NEW l \in Hops
        PROVE  local_broadcast(c, n, m)[l] \in Seq(S[l])
    <2>1. c[l] \in Seq(S[l]) /\ l \in DOMAIN c
      BY DEF OnAir
    <2>2. CASE l[1] = n /\ l[2] \in Hear(n)
      <3>1. local_broadcast(c, n, m)[l] = Append(c[l], m)
        BY <2>1, <2>2 DEF local_broadcast
      <3> QED
        BY <2>1, <2>2, <3>1
    <2>3. CASE ~(l[1] = n /\ l[2] \in Hear(n))
      BY <2>1, <2>3 DEF local_broadcast
    <2> QED
      BY <2>2, <2>3
  <1>2. DOMAIN local_broadcast(c, n, m) = Hops
    BY DEF OnAir, local_broadcast
  <1> QED
    BY <1>1, <1>2 DEF OnAir

\* Packets go to one neighbour, in their order.
LEMMA OnAirTransmit ==
    ASSUME NEW c, NEW S, OnAir(c, S), NEW n, NEW x, NEW P, NEW ms \in Seq(P),
           \A l \in Hops : P \subseteq S[l]
    PROVE  OnAir(Transmit(c, n, x, ms), S)
  <1>1. CASE x \notin Hear(n)
    BY <1>1 DEF Transmit
  <1>2. CASE x \in Hear(n)
    <2> DEFINE h == <<n, x>>
               d == [c EXCEPT ![h] = @ \o ms]
    <2>1. Transmit(c, n, x, ms) = d
      BY <1>2 DEF Transmit
    <2>2. ASSUME NEW l \in Hops
          PROVE  d[l] \in Seq(S[l])
      <3>1. c[l] \in Seq(S[l]) /\ l \in DOMAIN c /\ P \subseteq S[l]
        BY DEF OnAir
      <3>2. ms \in Seq(S[l])
        BY <3>1
      <3>3. c[l] \o ms \in Seq(S[l])
        BY <3>1, <3>2, ConcatProperties
      <3> HIDE DEF h
      <3>4. d[l] = IF l = h THEN c[l] \o ms ELSE c[l]
        BY <3>1
      <3> QED
        BY <3>1, <3>3, <3>4
    <2>3. DOMAIN d = Hops
      BY DEF OnAir
    <2> QED
      BY <2>1, <2>2, <2>3 DEF OnAir
  <1> QED
    BY <1>1, <1>2

\* A queue without some of its packets.
LEMMA QueueLeft ==
    ASSUME NEW P, NEW q \in Seq(P), NEW K \in SUBSET DOMAIN q
    PROVE  Kept(q, K) \in Seq(P) /\ Len(Kept(q, K)) <= Len(q)
  <1>1. Kept(q, K) \in Seq(P) /\ Len(Kept(q, K)) = Cardinality(K)
    BY KeptEntries
  <1>2. Len(q) \in Nat /\ DOMAIN q = 1 .. Len(q)
    OBVIOUS
  <1>3. Cardinality(K) <= Len(q)
    <2>1. IsFiniteSet(1 .. Len(q)) /\ Cardinality(1 .. Len(q)) = Len(q)
      <3>1. /\ IsFiniteSet(1 .. Len(q))
            /\ Cardinality(1 .. Len(q)) = IF 1 > Len(q) THEN 0 ELSE Len(q) - 1 + 1
        BY <1>2, FS_Interval
      <3> QED
        BY <1>2, <3>1
    <2>2. K \subseteq 1 .. Len(q)
      BY <1>2
    <2> QED
      BY <2>1, <2>2, FS_Subset
  <1> QED
    BY <1>1, <1>3

\* A message leaves a route, or its number, or takes a new one.
LEMMA RouteTypes ==
    ASSUME NEW r \in Routes
    PROVE  /\ r.seq \in Nat /\ r.next_hop \in Nodes /\ r.metric \in Nat /\ r.valid \in BOOLEAN
           /\ \A s \in Nat : [r EXCEPT !.seq = s] \in Routes
           /\ expire_aodv_route(r) \in Routes /\ ~expire_aodv_route(r).valid
  <1>1. /\ r.seq \in Nat /\ r.next_hop \in Nodes /\ r.metric \in Nat /\ r.valid \in BOOLEAN
        /\ r = [seq |-> r.seq, next_hop |-> r.next_hop, metric |-> r.metric, valid |-> r.valid]
    BY DEF Routes
  <1>2. ASSUME NEW s \in Nat
        PROVE  [r EXCEPT !.seq = s] \in Routes
    BY <1>1 DEF Routes
  <1>3. r.seq + 1 \in Nat
    BY <1>1
  <1>4. /\ [r EXCEPT !.seq = r.seq + 1, !.valid = FALSE] \in Routes
        /\ ~[r EXCEPT !.seq = r.seq + 1, !.valid = FALSE].valid
    BY <1>3 DEF Routes
  <1> QED
    BY <1>1, <1>2, <1>4, Zenon DEF expire_aodv_route

\* The entry made by a learned route.
LEMMA RouteType ==
    ASSUME NEW s \in Nat, NEW x \in Nodes, NEW m \in Nat
    PROVE  /\ Route(s, x, m) \in Routes
           /\ Route(s, x, m).seq = s /\ Route(s, x, m).valid
  BY DEF Route, Routes

\* What a handler may assume of the tables.
LEMMA TableFacts ==
    ASSUME TablesInv, NEW n \in Nodes
    PROVE  /\ OwnTable(n, rt[n])
           /\ rt[n][n] \in Routes /\ rt[n][n].seq \in Nat /\ rt[n][n].seq <= Hi(n)
           /\ issued[n] \in Nat /\ Hi(n) \in Nat
           /\ issued[n] = 0 => Hi(n) = rt[n][n].seq /\ rt[n][n] = Route(rt[n][n].seq, n, 0)
           /\ \A d \in DOMAIN rt[n] : /\ d \in Nodes /\ rt[n][d] \in Routes
                                      /\ rt[n][d].valid => rt[n][d].seq <= Hi(d)
  <1>1. OwnTable(n, rt[n]) /\ issued[n] \in Nat
    BY DEF TablesInv
  <1>2. \A d \in DOMAIN rt[n] : d \in Nodes /\ rt[n][d] \in Routes
    BY <1>1 DEF OwnTable
  <1>3. rt[n][n] \in Routes
    BY <1>1, <1>2 DEF OwnTable
  <1>4. rt[n][n].seq \in Nat
    BY <1>3, RouteTypes
  <1>5. Hi(n) \in Nat /\ rt[n][n].seq <= Hi(n) /\ (issued[n] = 0 => Hi(n) = rt[n][n].seq)
    BY <1>1, <1>4 DEF Hi
  <1>6. /\ issued[n] = 0 => rt[n][n] = Route(rt[n][n].seq, n, 0)
        /\ \A d \in DOMAIN rt[n] : rt[n][d].valid => rt[n][d].seq <= Hi(d)
    BY DEF TablesInv, OwnRoute
  <1> QED
    BY <1>1, <1>2, <1>3, <1>4, <1>5, <1>6

\* The tables t, k that n may come to have: its own route has no lower number,
\* and nothing in it is newer than its destination.
NewTables(n, t, k) ==
    /\ OwnTable(n, t) /\ t[n].seq >= rt[n][n].seq
    /\ \A d \in DOMAIN t : d # n /\ t[d].valid => t[d].seq <= Hi(d)
    /\ issued[n] = 0 => t[n] = Route(t[n].seq, n, 0)
    /\ DOMAIN k = Nodes /\ KernelTable(k[n], t)
    /\ \A y \in Nodes \ {n} : k[y] = krt[y]

\* A step that gives one node another table.
LEMMA TableStep ==
    ASSUME TablesInv, NEW n \in Nodes, NEW t, NEW k, NewTables(n, t, k),
           rt' = [rt EXCEPT ![n] = t] \/ (UNCHANGED rt /\ t = rt[n]), krt' = k, UNCHANGED issued
    PROVE  TablesInv' /\ Grown
  <1> USE DEF NewTables
  <1>0. DOMAIN rt' = Nodes /\ rt'[n] = t /\ \A y \in Nodes \ {n} : rt'[y] = rt[y]
    BY DEF TablesInv
  <1>1. t[n] \in Routes /\ t[n].seq \in Nat
    BY RouteTypes DEF OwnTable
  <1>2. \A d \in Nodes : Hi(d) \in Nat /\ issued[d] \in Nat /\ rt[d][d].seq \in Nat
    BY TableFacts
  <1>3. \A d \in Nodes : /\ Hi(d)' = IF rt'[d][d].seq > issued[d] THEN rt'[d][d].seq ELSE issued[d]
                         /\ Hi(d) = IF rt[d][d].seq > issued[d] THEN rt[d][d].seq ELSE issued[d]
    BY DEF Hi
  <1>4. \A d \in Nodes : d # n => Hi(d)' = Hi(d)
    BY <1>0, <1>3
  <1>5. Hi(n)' >= Hi(n) /\ Hi(n)' >= t[n].seq /\ Hi(n)' \in Nat
    BY <1>0, <1>1, <1>2, <1>3
  <1>6. \A d \in Nodes : Hi(d) <= Hi(d)' /\ Hi(d)' \in Nat
    BY <1>2, <1>4, <1>5
  <1>7. \A y \in Nodes : OwnTable(y, rt'[y]) /\ KernelTable(krt'[y], rt'[y])
    BY <1>0 DEF TablesInv
  <1>8. ASSUME NEW y \in Nodes, NEW d \in DOMAIN rt'[y], rt'[y][d].valid
        PROVE  rt'[y][d].seq <= Hi(d)'
    <2>1. d \in Nodes /\ rt'[y][d].seq \in Nat
      BY <1>7, RouteTypes DEF OwnTable
    <2>2. CASE y # n
      <3>1. rt'[y][d].seq <= Hi(d)
        BY <1>0, <1>8, <2>2 DEF TablesInv
      <3> QED
        BY <1>2, <1>6, <2>1, <3>1
    <2>3. CASE y = n /\ d # n
      <3>1. rt'[y][d].seq <= Hi(d)
        BY <1>0, <1>8, <2>3
      <3> QED
        BY <1>2, <1>6, <2>1, <3>1
    <2>4. CASE y = n /\ d = n
      BY <1>0, <1>5, <2>4
    <2> QED
      BY <2>2, <2>3, <2>4
  <1>9. OwnRoute'
    BY <1>0 DEF TablesInv, OwnRoute
  <1>10. issued' \in [Nodes -> Nat]
    BY DEF TablesInv
  <1>11. Grown
    BY <1>6 DEF Grown
  <1>12. TablesInv'
    BY <1>0, <1>7, <1>8, <1>9, <1>10, Zenon DEF TablesInv
  <1> QED
    BY <1>11, <1>12

\* A step that leaves the tables alone.
LEMMA TablesKept ==
    ASSUME TablesInv, UNCHANGED <<rt, krt, issued>>
    PROVE  TablesInv' /\ Grown
  <1>1. \A d \in Nodes : Hi(d)' = Hi(d) /\ Hi(d) \in Nat
    BY TableFacts DEF Hi
  <1>2. Grown
    BY <1>1 DEF Grown
  <1>3. TablesInv'
    BY <1>1, SMT DEF TablesInv, OwnRoute, OwnTable, KernelTable
  <1> QED
    BY <1>2, <1>3

\* What is known stays known: no node takes a number back.
LEMMA KnownGrows ==
    ASSUME TablesInv, TablesInv', Grown
    PROVE  /\ KnownPackets \subseteq KnownPackets'
           /\ \A l \in Hops : Heard[l] \subseteq Heard'[l]
  <1>1. \A d \in Nodes : Hi(d) \in Nat /\ Hi(d)' \in Nat /\ Hi(d) <= Hi(d)'
    <2>1. ASSUME NEW d \in Nodes
          PROVE  Hi(d)' \in Nat
      <3>1. OwnTable(d, rt'[d]) /\ issued'[d] \in Nat
        BY DEF TablesInv, OwnTable
      <3>2. rt'[d][d] \in Routes
        BY <3>1 DEF OwnTable
      <3>3. rt'[d][d].seq \in Nat
        BY <3>2, RouteTypes
      <3> QED
        BY <3>1, <3>3 DEF Hi
    <2> QED
      BY <2>1, TableFacts DEF Grown
  <1>2. \A m \in Messages : /\ m.type = "RREP" => m.dst \in Nodes /\ m.dst_seq \in Nat
                            /\ m.type = "RREQ" => m.src \in Nodes /\ m.src_seq \in Nat
                            /\ m.type = "HELLO" => m.from \in Nodes /\ m.dst_seq \in Nat
    BY DEF Messages, Packets
  <1>3. KnownPackets \subseteq KnownPackets'
    <2>1. Packets \subseteq Messages
      BY DEF Messages
    <2>2. \A s \in Nat, d \in Nodes : s <= Hi(d) => s <= Hi(d)'
      BY <1>1
    <2> QED
      BY <1>2, <2>1, <2>2 DEF KnownPackets
  <1>4. ASSUME NEW l \in Hops
        PROVE  Heard[l] \subseteq Heard'[l]
    <2>2. \A s \in Nat, d \in Nodes : s <= Hi(d) => s <= Hi(d)'
      BY <1>1
    <2> QED
      BY <1>2, <2>2 DEF Heard
  <1> QED
    BY <1>3, <1>4

-----------------------------------------------------------------------------
(* What the handlers do to tables, queues and hops.                        *)

\* update_aodv_route with a number that d has given out: the table is still
\* n's, and the node's own route is left alone unless it was restarted.
LEMMA UpdateTable ==
    ASSUME TablesInv, NEW n \in Nodes, NEW d \in Nodes, NEW x \in Nodes, NEW m \in Nat,
           NEW s \in Nat, s <= Hi(d)
    PROVE  NewTables(n, update_aodv_route(n, d, x, m, s), krt)
  <1> DEFINE t == update_aodv_route(n, d, x, m, s)
             u == Put(rt[n], d, Route(s, x, m))
  <1>1. /\ OwnTable(n, rt[n])
        /\ rt[n][n] \in Routes /\ rt[n][n].seq \in Nat
        /\ issued[n] = 0 => Hi(n) = rt[n][n].seq /\ rt[n][n] = Route(rt[n][n].seq, n, 0)
        /\ \A y \in DOMAIN rt[n] : rt[n][y].valid => rt[n][y].seq <= Hi(y)
    BY TableFacts
  <1>2. DOMAIN krt = Nodes /\ KernelTable(krt[n], rt[n])
    BY DEF TablesInv
  <1>3. CASE Refused(n, d, x, m, s)
    <2>1. t = rt[n]
      BY <1>3 DEF update_aodv_route
    <2> HIDE DEF t
    <2>2. NewTables(n, t, krt)
      BY <1>1, <1>2, <2>1 DEF NewTables, OwnTable
    <2> QED
      BY <2>2 DEF t
  <1>4. CASE ~Refused(n, d, x, m, s)
    <2>1. t = u
      BY <1>4 DEF update_aodv_route
    <2>2. Route(s, x, m) \in Routes /\ Route(s, x, m).seq = s /\ Route(s, x, m).valid
      BY RouteType
    <2>3. /\ DOMAIN u = DOMAIN rt[n] \cup {d} /\ u[d] = Route(s, x, m)
          /\ \A y \in DOMAIN rt[n] : y # d => u[y] = rt[n][y]
      BY DEF Put
    <2>4. u \in [DOMAIN rt[n] \cup {d} -> Routes]
      <3>1. rt[n] \in [DOMAIN rt[n] -> Routes]
        BY <1>1 DEF OwnTable
      <3> QED
        BY <2>2, <3>1, PutType
    <2> HIDE DEF u
    <2>5. KernelTable(krt[n], u)
      BY <1>2, <2>3 DEF KernelTable
    <2>6. OwnTable(n, u)
      BY <1>1, <2>2, <2>3, <2>4 DEF OwnTable
    <2>7. d = n => rt[n][n].seq < s
      BY <1>1, <1>4 DEF Refused, seq_greater, OwnTable
    <2>8. u[n].seq >= rt[n][n].seq
      BY <1>1, <2>2, <2>3, <2>7 DEF OwnTable
    <2>9. \A y \in DOMAIN u : y # n /\ u[y].valid => u[y].seq <= Hi(y)
      BY <1>1, <2>2, <2>3
    <2>10. issued[n] = 0 => u[n] = Route(u[n].seq, n, 0)
      <3>1. issued[n] = 0 => d # n
        BY <1>1, <2>7
      <3> QED
        BY <1>1, <2>3, <3>1 DEF OwnTable
    <2> HIDE DEF t
    <2>11. NewTables(n, t, krt)
      BY <1>2, <2>1, <2>5, <2>6, <2>8, <2>9, <2>10 DEF NewTables
    <2> QED
      BY <2>11 DEF t
  <1> QED
    BY <1>3, <1>4

\* ipq_dequeue takes a packet of the queue, if one waits, and leaves the
\* others.
LEMMA Dequeued ==
    ASSUME QueueInv, NEW n \in Nodes, NEW d
    PROVE  /\ ipq_dequeue(ipq[n], d) \in Seq(KnownPackets) /\ Len(ipq_dequeue(ipq[n], d)) <= QMAX
           /\ Waits(n, d) => ipq[n][First(ipq[n], d)] \in KnownPackets
  <1> DEFINE q == ipq[n]
             K == DOMAIN q \ {First(q, d)}
             r == Kept(q, K)
  <1>1. q \in Seq(KnownPackets) /\ Len(q) <= QMAX /\ QMAX \in Nat
    BY AodvAssumption DEF QueueInv
  <1>2. K \in SUBSET DOMAIN q
    OBVIOUS
  <1> HIDE DEF K
  <1>3. r \in Seq(KnownPackets) /\ Len(r) <= Len(q)
    BY <1>1, <1>2, QueueLeft
  <1> HIDE DEF r
  <1>4. Len(r) \in Nat /\ Len(q) \in Nat
    BY <1>1, <1>3
  <1>5. r = ipq_dequeue(q, d)
    BY DEF r, K, ipq_dequeue
  <1>6. ASSUME Waits(n, d)
        PROVE  First(q, d) \in DOMAIN q
    <2> DEFINE S == {j \in DOMAIN q : q[j].ip_dst = d}
    <2>1. S \subseteq Nat /\ S # {}
      BY <1>1, <1>6 DEF Waits
    <2>2. PICK i \in S : \A j \in S : i <= j
      BY <2>1, LeastNat
    <2>3. \A j \in 1 .. i - 1 : q[j].ip_dst # d
      <3>1. DOMAIN q = 1 .. Len(q) /\ Len(q) \in Nat /\ i \in 1 .. Len(q)
        BY <1>1
      <3>2. \A j \in 1 .. i - 1 : j \in DOMAIN q /\ ~(i <= j)
        BY <3>1
      <3> QED
        BY <2>2, <3>2
    <2>4. \E h \in DOMAIN q : q[h].ip_dst = d /\ \A j \in 1 .. h - 1 : q[j].ip_dst # d
      BY <2>3
    <2> HIDE DEF q
    <2> QED
      BY <2>4, Zenon DEF First
  <1>7. Waits(n, d) => q[First(q, d)] \in KnownPackets
    BY <1>1, <1>6
  <1> QED
    BY <1>1, <1>3, <1>4, <1>5, <1>7

\* A step that changes one node's queue, or none.
LEMMA QueueStep ==
    ASSUME QueueInv, KnownPackets \subseteq KnownPackets',
           UNCHANGED ipq \/ (\E n \in Nodes : \E q \in Seq(KnownPackets) :
                                Len(q) <= QMAX /\ ipq' = [ipq EXCEPT ![n] = q])
    PROVE  QueueInv'
  <1>1. \A q \in Seq(KnownPackets) : q \in Seq(KnownPackets')
    OBVIOUS
  <1>2. \A n \in Nodes : ipq[n] \in Seq(KnownPackets) /\ Len(ipq[n]) <= QMAX
    BY DEF QueueInv
  <1>3. DOMAIN ipq = Nodes /\ ipq = [n \in Nodes |-> ipq[n]]
    BY DEF QueueInv
  <1>4. CASE UNCHANGED ipq
    <2>1. ipq' \in [Nodes -> Seq(KnownPackets')]
      BY <1>1, <1>2, <1>3, <1>4
    <2> QED
      BY <1>2, <1>4, <2>1, SMT DEF QueueInv
  <1>5. ASSUME NEW n \in Nodes, NEW q \in Seq(KnownPackets), Len(q) <= QMAX,
               ipq' = [ipq EXCEPT ![n] = q]
        PROVE  QueueInv'
    <2>1. \A y \in Nodes : ipq'[y] \in Seq(KnownPackets') /\ Len(ipq'[y]) <= QMAX
      BY <1>1, <1>2, <1>3, <1>5
    <2>2. ipq' \in [Nodes -> Seq(KnownPackets')]
      BY <1>3, <1>5, <2>1
    <2> QED
      BY <2>1, <2>2, SMT DEF QueueInv
  <1> QED
    BY <1>4, <1>5

\* A step that changes what is at one node's hook, or nobody's.
LEMMA HookStep ==
    ASSUME HookInv, KnownPackets \subseteq KnownPackets',
           UNCHANGED out \/ (\E n \in Nodes : \E o \in SUBSET [p : KnownPackets', queue : BOOLEAN] :
                                out' = [out EXCEPT ![n] = out[n] \cup o])
    PROVE  HookInv'
  <1>1. \A e \in [p : KnownPackets, queue : BOOLEAN] : e \in [p : KnownPackets', queue : BOOLEAN]
    OBVIOUS
  <1>2. \A n \in Nodes : out[n] \in SUBSET [p : KnownPackets', queue : BOOLEAN]
    BY <1>1 DEF HookInv
  <1>3. out = [n \in Nodes |-> out[n]]
    BY DEF HookInv
  <1>4. CASE UNCHANGED out
    BY <1>2, <1>3, <1>4 DEF HookInv
  <1>5. ASSUME NEW n \in Nodes, NEW o \in SUBSET [p : KnownPackets', queue : BOOLEAN],
               out' = [out EXCEPT ![n] = out[n] \cup o]
        PROVE  HookInv'
    <2>1. \A y \in Nodes : out'[y] \in SUBSET [p : KnownPackets', queue : BOOLEAN]
      BY <1>2, <1>3, <1>5
    <2>2. out' = [y \in Nodes |-> out'[y]]
      BY <1>3, <1>5
    <2> QED
      BY <2>1, <2>2 DEF HookInv
  <1> QED
    BY <1>4, <1>5

\* A step that takes packets from one node's hook.
LEMMA HookTakes ==
    ASSUME HookInv, KnownPackets \subseteq KnownPackets', NEW n \in Nodes,
           NEW o \in SUBSET [p : KnownPackets, queue : BOOLEAN], out' = [out EXCEPT ![n] = o]
    PROVE  HookInv'
  <1>1. \A e \in [p : KnownPackets, queue : BOOLEAN] : e \in [p : KnownPackets', queue : BOOLEAN]
    OBVIOUS
  <1>2. \A y \in Nodes : out[y] \in SUBSET [p : KnownPackets', queue : BOOLEAN]
    BY <1>1 DEF HookInv
  <1>3. out = [y \in Nodes |-> out[y]]
    BY DEF HookInv
  <1>4. o \in SUBSET [p : KnownPackets', queue : BOOLEAN]
    BY <1>1
  <1>5. \A y \in Nodes : out'[y] \in SUBSET [p : KnownPackets', queue : BOOLEAN]
    BY <1>2, <1>3, <1>4
  <1>6. out' = [y \in Nodes |-> out'[y]]
    BY <1>3
  <1> QED
    BY <1>5, <1>6 DEF HookInv

-----------------------------------------------------------------------------
(* Messages and timers.                                                    *)

\* What a handler may assume of a message it hears.
LEMMA HeardFields ==
    ASSUME NEW l \in Hops, NEW m \in Heard[l]
    PROVE  /\ l[1] \in Nodes /\ l[2] \in Nodes /\ l[1] # l[2]
           /\ m \in Messages
           /\ m.type \in {"data", "RREP"} => m \in KnownPackets /\ m.ip_dst \in Nodes
           /\ m.type = "data" => m.id \in 1 .. Len(Sends)
           /\ m.type = "RREP" => /\ m.from \in Nodes /\ m.src \in Nodes /\ m.dst \in Nodes
                                 /\ m.dst_seq \in Nat /\ m.metric \in Nat /\ m.dst_seq <= Hi(m.dst)
           /\ m.type = "RREQ" => /\ m.from = l[1] /\ m.src \in Nodes /\ m.dst \in Nodes
                                 /\ m.id \in Nat /\ m.src_seq \in Nat /\ m.dst_seq \in Nat
                                 /\ m.metric \in Nat /\ m.ttl \in Nat /\ m.src_seq <= Hi(m.src)
           /\ m.type = "HELLO" => m.from = l[1] /\ m.dst_seq \in Nat /\ m.dst_seq <= Hi(m.from)
           /\ m.type = "RERR" => m.from = l[1] /\ m.bad \in SUBSET (Nodes \X Nat)
  <1>1. m \in Messages
    BY DEF Heard
  <1>2. l[1] \in Nodes /\ l[2] \in Nodes /\ l[1] # l[2]
    BY DEF Hops
  <1>3. /\ m.type = "RREP" => m.dst_seq <= Hi(m.dst)
        /\ m.type = "RREQ" => m.src_seq <= Hi(m.src) /\ m.from = l[1]
        /\ m.type = "HELLO" => m.dst_seq <= Hi(m.from) /\ m.from = l[1]
        /\ m.type = "RERR" => m.from = l[1]
    BY DEF Heard
  <1>4. /\ m.type \in {"data", "RREP"} => m \in Packets /\ m.ip_dst \in Nodes
        /\ m.type = "data" => m.id \in 1 .. Len(Sends)
        /\ m.type = "RREP" => /\ m.from \in Nodes /\ m.src \in Nodes /\ m.dst \in Nodes
                              /\ m.dst_seq \in Nat /\ m.metric \in Nat
        /\ m.type = "RREQ" => /\ m.src \in Nodes /\ m.dst \in Nodes
                              /\ m.id \in Nat /\ m.src_seq \in Nat /\ m.dst_seq \in Nat
                              /\ m.metric \in Nat /\ m.ttl \in Nat
        /\ m.type = "HELLO" => m.dst_seq \in Nat
        /\ m.type = "RERR" => m.bad \in SUBSET (Nodes \X Nat)
    BY <1>1 DEF Messages, Packets
  <1>5. m.type \in {"data", "RREP"} => m \in KnownPackets
    BY <1>3, <1>4 DEF KnownPackets
  <1> QED
    BY <1>1, <1>2, <1>3, <1>4, <1>5

\* The next message from a to n, and what is left when it is taken.
LEMMA NextHeard ==
    ASSUME AirInv, NEW a \in Nodes, NEW n \in Nodes, NEW type, Next1(a, n, type)
    PROVE  /\ a # n /\ <<a, n>> \in Hops
           /\ Head(air[<<a, n>>]) \in Heard[<<a, n>>] /\ Head(air[<<a, n>>]).type = type
           /\ OnAir(Rest(a, n), Heard)
  <1> DEFINE l == <<a, n>>
  <1>1. l \in Hops /\ air[l] # <<>> /\ a # n /\ Head(air[l]).type = type
    BY DEF Hops, Next1
  <1>2. OnAir(air, Heard)
    BY DEF AirInv
  <1> HIDE DEF l
  <1>3. Head(air[l]) \in Heard[l] /\ OnAir([air EXCEPT ![l] = Tail(@)], Heard)
    BY <1>1, <1>2, OnAirRest
  <1> QED
    BY <1>1, <1>3 DEF Rest, l

\* A packet that is known may be on any hop.
LEMMA PacketsHeard ==
    /\ \A l \in Hops : KnownPackets \subseteq Heard[l]
    /\ \A l \in Hops : KnownPackets' \subseteq Heard'[l]
  <1>1. \A p \in Packets : p \in Messages /\ p.type \in {"data", "RREP"}
    BY DEF Messages, Packets
  <1> QED
    BY <1>1 DEF KnownPackets, Heard

\* The messages that the handlers make.
LEMMA DataKnown ==
    ASSUME NEW d \in Nodes, NEW i \in 1 .. Len(Sends)
    PROVE  Data(d, i) \in KnownPackets'
  BY DEF Data, Packets, KnownPackets

\* A reply a node makes about itself is no newer than the node.
LEMMA RrepKnown ==
    ASSUME NEW n \in Nodes, NEW x \in Nodes, NEW src \in Nodes, NEW s \in Nat, s <= Hi(n)',
           NEW m \in Nat
    PROVE  Rrep(n, x, src, n, s, m) \in KnownPackets'
  BY DEF Rrep, Packets, KnownPackets

\* A reply passed on says what it said.
LEMMA RrepOnward ==
    ASSUME NEW m \in KnownPackets', m.type = "RREP", m.metric \in Nat, NEW n \in Nodes, NEW x \in Nodes
    PROVE  [m EXCEPT !.from = n, !.ip_dst = x, !.metric = @ + 1] \in KnownPackets'
  <1> DEFINE q == [m EXCEPT !.from = n, !.ip_dst = x, !.metric = @ + 1]
  <1>1. m.metric + 1 \in Nat
    OBVIOUS
  <1>2. m \in Packets
    BY DEF KnownPackets
  <1>3. q \in Packets
    BY <1>1, <1>2 DEF Packets
  <1>4. q.type = m.type /\ q.dst = m.dst /\ q.dst_seq = m.dst_seq
    BY <1>2 DEF Packets
  <1> QED
    BY <1>3, <1>4 DEF KnownPackets

\* A request says no more of its source than the source has issued.
LEMMA RreqHeard ==
    ASSUME NEW n \in Nodes, NEW src \in Nodes, NEW id \in Nat, NEW ss \in Nat, ss <= Hi(src)',
           NEW d \in Nodes, NEW ds \in Nat, NEW m \in Nat, NEW t \in Nat
    PROVE  \A l \in Hops : l[1] = n => Rreq(n, src, id, ss, d, ds, m, t) \in Heard'[l]
  <1> DEFINE q == Rreq(n, src, id, ss, d, ds, m, t)
  <1>1. q \in Messages /\ q.type = "RREQ" /\ q.src_seq = ss /\ q.src = src /\ q.from = n
    BY DEF Messages, Rreq
  <1> HIDE DEF q
  <1> QED
    BY <1>1 DEF Heard, q

\* So does a hello of its sender.
LEMMA HelloHeard ==
    ASSUME NEW n \in Nodes, NEW s \in Nat, s <= Hi(n)'
    PROVE  \A l \in Hops : l[1] = n => Hello(n, s) \in Heard'[l]
  <1> DEFINE q == Hello(n, s)
  <1>1. q \in Messages /\ q.type = "HELLO" /\ q.dst_seq = s /\ q.from = n
    BY DEF Messages, Hello
  <1> HIDE DEF q
  <1> QED
    BY <1>1 DEF Heard, q

\* A route error says nothing of a sequence number.
LEMMA RerrHeard ==
    ASSUME NEW n \in Nodes, NEW bad \in SUBSET (Nodes \X Nat)
    PROVE  \A l \in Hops : l[1] = n => Rerr(n, bad) \in Heard'[l]
  <1> DEFINE q == Rerr(n, bad)
  <1>1. q \in Messages /\ q.type = "RERR" /\ q.from = n
    BY DEF Messages, Rerr
  <1> HIDE DEF q
  <1> QED
    BY <1>1 DEF Heard, q

\* The timers there are.
LEMMA TaskTypes ==
    /\ \A x \in Nodes : NEIGHBOR(x) \in Tasks
    /\ \A d \in Nodes, r \in 0 .. RREQ_RETRIES : RESEND_RREQ(d, r) \in Tasks
    /\ \A t \in Tasks : /\ t.ip \in Nodes
                        /\ t.type = "RESEND_RREQ" => t.retries \in 0 .. RREQ_RETRIES
  <1>1. \A x \in Nodes : NEIGHBOR(x).ip = x /\ NEIGHBOR(x).type = "NEIGHBOR"
    BY DEF NEIGHBOR
  <1>2. \A d, r : RESEND_RREQ(d, r).ip = d /\ RESEND_RREQ(d, r).retries = r
    BY DEF RESEND_RREQ
  <1>3. "NEIGHBOR" # "RESEND_RREQ"
    OBVIOUS
  <1> QED
    BY <1>1, <1>2, <1>3 DEF Tasks

TaskBag(B) == IsABag(B) /\ DOMAIN B \subseteq Tasks

\* Setting, taking and deleting timers leaves timers.
LEMMA TaskBags ==
    ASSUME NEW B, TaskBag(B)
    PROVE  /\ \A t \in Tasks : TaskBag(B (+) SetToBag({t}))
           /\ \A t : TaskBag(B (-) SetToBag({t}))
           /\ \A ip, type : TaskBag(delete_timer(B, ip, type))
           /\ TaskBag(EmptyBag)
  <1>1. ASSUME NEW t \in Tasks
        PROVE  TaskBag(B (+) SetToBag({t}))
    BY DEF TaskBag, IsABag, (+), SetToBag
  <1>2. ASSUME NEW t
        PROVE  TaskBag(B (-) SetToBag({t}))
    BY DEF TaskBag, IsABag, (-), SetToBag
  <1>3. ASSUME NEW ip, NEW type
        PROVE  TaskBag(delete_timer(B, ip, type))
    BY DEF TaskBag, IsABag, delete_timer, Restrict
  <1>4. TaskBag(EmptyBag)
    BY DEF TaskBag, IsABag, EmptyBag, SetToBag
  <1> QED
    BY <1>1, <1>2, <1>3, <1>4

\* A step that changes the timers of one node.
LEMMA TimersStep ==
    ASSUME TimersInv, NEW n \in Nodes, NEW B, TaskBag(B), NEW D, TaskBag(D),
           UNCHANGED timers \/ timers' = [timers EXCEPT ![n] = B],
           UNCHANGED due \/ due' = [due EXCEPT ![n] = D]
    PROVE  TimersInv'
  <1>1. /\ DOMAIN timers' = Nodes /\ DOMAIN due' = Nodes
        /\ \A y \in Nodes : /\ timers'[y] = timers[y] \/ timers'[y] = B
                            /\ due'[y] = due[y] \/ due'[y] = D
    BY DEF TimersInv
  <1>2. \A y \in Nodes : TaskBag(timers[y]) /\ TaskBag(due[y])
    BY DEF TimersInv, TaskBag
  <1>3. \A y \in Nodes : TaskBag(timers'[y]) /\ TaskBag(due'[y])
    BY <1>1, <1>2
  <1> QED
    BY <1>1, <1>3 DEF TimersInv, TaskBag

\* A route with another number.
LEMMA RouteSeq ==
    ASSUME NEW s, NEW x, NEW m, NEW v
    PROVE  [Route(s, x, m) EXCEPT !.seq = v] = Route(v, x, m)
  <1>1. \A b : [[seq |-> s, next_hop |-> x, metric |-> m, valid |-> b] EXCEPT !.seq = v]
                 = [seq |-> v, next_hop |-> x, metric |-> m, valid |-> b]
    OBVIOUS
  <1> QED
    BY <1>1 DEF Route

\* A request goes on with a hop more.
LEMMA RreqOnward ==
    ASSUME NEW m \in Messages, m.type = "RREQ", m.ttl > 1, m.src_seq <= Hi(m.src)', NEW n \in Nodes
    PROVE  \A l \in Hops : l[1] = n =>
               [m EXCEPT !.from = n, !.metric = @ + 1, !.ttl = @ - 1] \in Heard'[l]
  <1> DEFINE S == [type : {"RREQ"}, from : Nodes, src : Nodes, id : Nat, src_seq : Nat, dst : Nodes,
                   dst_seq : Nat, metric : Nat, ttl : Nat]
             i == m.metric + 1
             j == m.ttl - 1
             q == [m EXCEPT !.from = n, !.metric = i, !.ttl = j]
  <1>1. m \in S
    BY DEF Messages, Packets
  <1>2. m.metric \in Nat /\ m.ttl \in Nat
    BY <1>1
  <1>3. i \in Nat /\ j \in Nat
    BY <1>2
  <1>4. S \subseteq Messages
    BY DEF Messages
  <1> HIDE DEF i, j
  <1>5. q \in S
    BY <1>1, <1>3
  <1>6. q.type = "RREQ" /\ q.from = n /\ q.src = m.src /\ q.src_seq = m.src_seq
    BY <1>1
  <1> HIDE DEF S, q
  <1>7. \A l \in Hops : l[1] = n => q \in Heard'[l]
    BY <1>4, <1>5, <1>6 DEF Heard
  <1> QED
    BY <1>7 DEF q, i, j

-----------------------------------------------------------------------------
(* The steps.                                                              *)

\* What a step leaves alone keeps its part of the invariant.
LEMMA Untouched ==
    /\ NeighInv /\ UNCHANGED <<rreq_id, neigh, fresh, flood>> => NeighInv'
    /\ TimersInv /\ UNCHANGED <<timers, due>> => TimersInv'
    /\ CountersInv /\ UNCHANGED <<link, counters>> => CountersInv'
  <1>1. NeighInv /\ UNCHANGED <<rreq_id, neigh, fresh, flood>> => NeighInv'
    BY DEF NeighInv
  <1>2. TimersInv /\ UNCHANGED <<timers, due>> => TimersInv'
    BY DEF TimersInv
  <1>3. CountersInv /\ UNCHANGED <<link, counters>> => CountersInv'
    BY DEF CountersInv, counters
  <1> QED
    BY <1>1, <1>2, <1>3

\* The hops as they are, when the tables have changed.
LEMMA AirGrows ==
    ASSUME Inv, TablesInv', Grown
    PROVE  /\ KnownPackets \subseteq KnownPackets' /\ OnAir(air, Heard')
           /\ \A l \in Hops : Heard[l] \subseteq Heard'[l]
  <1>1. KnownPackets \subseteq KnownPackets' /\ \A l \in Hops : Heard[l] \subseteq Heard'[l]
    BY KnownGrows DEF Inv
  <1>2. OnAir(air, Heard)
    BY DEF Inv, AirInv
  <1> QED
    BY <1>1, <1>2, OnAirGrows

\* The parts that are left when the tables do not change.
LEMMA TablesAlone ==
    ASSUME Inv, UNCHANGED <<rt, krt, issued>>
    PROVE  /\ TablesInv' /\ Grown /\ KnownPackets \subseteq KnownPackets' /\ OnAir(air, Heard')
           /\ \A l \in Hops : Heard[l] \subseteq Heard'[l]
           /\ \A d \in Nodes : Hi(d)' = Hi(d)
  <1>1. TablesInv' /\ Grown
    BY TablesKept DEF Inv
  <1>2. \A d \in Nodes : Hi(d)' = Hi(d)
    BY DEF Hi
  <1> QED
    BY <1>1, <1>2, AirGrows

\* The user sends a packet.
LEMMA SendDataKeeps ==
    ASSUME Inv, SendData
    PROVE  Inv' /\ Grown
  <1> DEFINE n == Sends[sent + 1][1]
             d == Sends[sent + 1][2]
  <1>1. sent \in Nat /\ sent < Len(Sends) /\ sent' = sent + 1 /\ Sends \in Seq(Nodes \X Nodes)
    BY AodvAssumption DEF Inv, CountersInv, SendData
  <1>2. sent + 1 \in 1 .. Len(Sends) /\ Sends[sent + 1] \in Nodes \X Nodes
    BY <1>1
  <1>3. n \in Nodes /\ d \in Nodes
    BY <1>2
  <1>4. out' = [out EXCEPT ![n] = out[n] \cup {AtHook(Data(d, sent + 1))}]
    BY <1>1 DEF SendData
  <1>5. UNCHANGED <<rt, krt, rreq_id, neigh, fresh, flood, timers, due, ipq, link, air, hellos, expiries,
                    moves, issued>>
    BY DEF SendData
  <1> HIDE DEF n, d
  <1>6. TablesInv' /\ Grown /\ KnownPackets \subseteq KnownPackets' /\ OnAir(air, Heard')
    BY <1>5, TablesAlone
  <1>7. Data(d, sent + 1) \in KnownPackets'
    BY <1>2, <1>3, DataKnown
  <1>8. {AtHook(Data(d, sent + 1))} \in SUBSET [p : KnownPackets', queue : BOOLEAN]
    BY <1>7 DEF AtHook
  <1>9. HookInv'
    BY <1>3, <1>4, <1>6, <1>8, HookStep DEF Inv
  <1>10. QueueInv' /\ NeighInv' /\ TimersInv'
    BY <1>5, <1>6, QueueStep, Untouched DEF Inv
  <1>11. CountersInv'
    BY <1>1, <1>2, <1>5 DEF Inv, CountersInv
  <1>12. AirInv'
    BY <1>5, <1>6 DEF AirInv
  <1> QED
    BY <1>6, <1>9, <1>10, <1>11, <1>12 DEF Inv

\* output_handler finds a route.
LEMMA AcceptKeeps ==
    ASSUME Inv, NEW n \in Nodes, NEW e \in out[n], Accept(n, e)
    PROVE  Inv' /\ Grown
  <1> DEFINE x == Gateway(n, e.p.ip_dst)
             o == out[n] \ {e}
  <1>1. e.p \in KnownPackets /\ out[n] \in SUBSET [p : KnownPackets, queue : BOOLEAN]
    BY DEF Inv, HookInv
  <1>2. /\ UNCHANGED <<rt, krt, rreq_id, neigh, fresh, flood, timers, due, ipq, link, counters, issued>>
        /\ air' = Transmit(air, n, x, <<e.p>>) /\ out' = [out EXCEPT ![n] = o]
    BY DEF Accept
  <1>3. o \in SUBSET [p : KnownPackets, queue : BOOLEAN]
    BY <1>1
  <1> HIDE DEF x, o
  <1>4. /\ TablesInv' /\ Grown /\ KnownPackets \subseteq KnownPackets' /\ OnAir(air, Heard')
        /\ \A l \in Hops : Heard[l] \subseteq Heard'[l]
    BY <1>2, TablesAlone
  <1>5. \A l \in Hops : KnownPackets \subseteq Heard'[l]
    BY <1>4, PacketsHeard
  <1>6. <<e.p>> \in Seq(KnownPackets)
    BY <1>1
  <1>7. AirInv'
    <2>1. OnAir(Transmit(air, n, x, <<e.p>>), Heard')
      BY <1>4, <1>5, <1>6, OnAirTransmit
    <2> QED
      BY <1>2, <2>1 DEF AirInv
  <1>8. HookInv'
    BY <1>2, <1>3, <1>4, HookTakes DEF Inv
  <1>9. QueueInv' /\ NeighInv' /\ TimersInv' /\ CountersInv'
    BY <1>2, <1>4, QueueStep, Untouched DEF Inv
  <1> QED
    BY <1>4, <1>7, <1>8, <1>9 DEF Inv

\* A new flood for d.
LEMMA RequestKeeps ==
    ASSUME Inv, NEW n \in Nodes, NEW d \in Nodes, NEW r \in 0 .. RREQ_RETRIES, Request(n, d, r),
           UNCHANGED <<neigh, fresh, issued>>
    PROVE  /\ TablesInv' /\ Grown /\ NeighInv' /\ AirInv' /\ KnownPackets \subseteq KnownPackets'
           /\ timers' = [timers EXCEPT ![n] = timers[n] (+) SetToBag({RESEND_RREQ(d, r)})]
  <1> DEFINE own == rt[n][n].seq + 1
             id  == rreq_id[n] + 1
             ds  == IF d \in DOMAIN rt[n] THEN rt[n][d].seq ELSE 0
             q   == Rreq(n, n, id, own, d, ds, 0, NET_DIAMETER)
             t   == [rt[n] EXCEPT ![n].seq = own]
  <1>1. /\ rt' = [rt EXCEPT ![n][n].seq = own]
        /\ rreq_id' = [rreq_id EXCEPT ![n] = id]
        /\ flood' = [flood EXCEPT ![n] = insert_flood_id(@, n, id)]
        /\ timers' = [timers EXCEPT ![n] = timers[n] (+) SetToBag({RESEND_RREQ(d, r)})]
        /\ air' = local_broadcast(air, n, q)
        /\ UNCHANGED krt
    BY Zenon DEF Request
  <1>2. /\ OwnTable(n, rt[n]) /\ rt[n][n] \in Routes /\ rt[n][n].seq \in Nat
        /\ issued[n] = 0 => rt[n][n] = Route(rt[n][n].seq, n, 0)
        /\ \A y \in DOMAIN rt[n] : /\ y \in Nodes /\ rt[n][y] \in Routes
                                   /\ rt[n][y].valid => rt[n][y].seq <= Hi(y)
    BY TableFacts DEF Inv
  <1>3. own \in Nat /\ own >= rt[n][n].seq
    BY <1>2
  <1>4. ds \in Nat
    BY <1>2, RouteTypes
  <1>5. rreq_id[n] \in Nat /\ id \in Nat
    BY DEF Inv, NeighInv
  <1>6. NET_DIAMETER \in Nat
    BY AodvAssumption
  <1>7. DOMAIN rt = Nodes /\ DOMAIN krt = Nodes /\ KernelTable(krt[n], rt[n])
    BY DEF Inv, TablesInv
  <1> HIDE DEF own, id, ds
  <1>8. /\ rt' = [rt EXCEPT ![n] = t]
        /\ DOMAIN t = DOMAIN rt[n] /\ t[n] = [rt[n][n] EXCEPT !.seq = own]
        /\ \A y \in DOMAIN rt[n] : y # n => t[y] = rt[n][y]
    BY <1>1, <1>2, <1>7 DEF OwnTable
  <1>9. t[n] \in Routes /\ t[n].seq = own /\ t[n].valid = rt[n][n].valid
        /\ t[n].next_hop = rt[n][n].next_hop /\ t[n].metric = rt[n][n].metric
    BY <1>2, <1>3, <1>8 DEF Routes
  <1>10. t \in [DOMAIN t -> Routes]
    <2>1. \A y \in DOMAIN t : t[y] \in Routes
      BY <1>2, <1>8, <1>9
    <2>2. t = [y \in DOMAIN t |-> t[y]]
      BY <1>2 DEF OwnTable
    <2> QED
      BY <2>1, <2>2
  <1> HIDE DEF t
  <1>11. OwnTable(n, t)
    BY <1>2, <1>8, <1>9, <1>10 DEF OwnTable
  <1>12. issued[n] = 0 => t[n] = Route(t[n].seq, n, 0)
    BY <1>2, <1>8, <1>9, RouteSeq
  <1>13. TablesInv' /\ Grown
    <2>1. t[n].seq >= rt[n][n].seq
      BY <1>3, <1>9
    <2>2. \A y \in DOMAIN t : y # n /\ t[y].valid => t[y].seq <= Hi(y)
      BY <1>2, <1>8
    <2>3. NewTables(n, t, krt)
      BY <1>7, <1>8, <1>11, <1>12, <2>1, <2>2 DEF NewTables, KernelTable
    <2> QED
      BY <1>1, <1>8, <2>3, TableStep DEF Inv
  <1>14. KnownPackets \subseteq KnownPackets' /\ OnAir(air, Heard')
    BY <1>13, AirGrows
  <1>15. own <= Hi(n)'
    <2>1. rt'[n][n].seq = own /\ issued'[n] \in Nat
      BY <1>7, <1>8, <1>9, <1>13 DEF TablesInv
    <2> QED
      BY <1>3, <2>1 DEF Hi
  <1>16. \A l \in Hops : l[1] = n => q \in Heard'[l]
    <2>1. 0 \in Nat
      OBVIOUS
    <2> QED
      BY <1>3, <1>4, <1>5, <1>6, <1>15, <2>1, RreqHeard
  <1> HIDE DEF q
  <1>17. AirInv'
    <2>1. OnAir(local_broadcast(air, n, q), Heard')
      BY <1>14, <1>16, OnAirBroadcast
    <2> QED
      BY <1>1, <2>1 DEF AirInv
  <1>18. NeighInv'
    BY <1>1, <1>5 DEF Inv, NeighInv, insert_flood_id
  <1> QED
    BY <1>1, <1>13, <1>14, <1>17, <1>18

\* output_handler finds none and asks for one.
LEMMA gen_rreqKeeps ==
    ASSUME Inv, NEW n \in Nodes, NEW e \in out[n], gen_rreq(n, e)
    PROVE  Inv' /\ Grown
  <1> DEFINE o == (out[n] \ {e}) \cup {[e EXCEPT !.queue = TRUE]}
  <1>1. e \in [p : KnownPackets, queue : BOOLEAN] /\ out[n] \in SUBSET [p : KnownPackets, queue : BOOLEAN]
    BY DEF Inv, HookInv
  <1>2. /\ UNCHANGED <<neigh, fresh, due, ipq, link, counters, issued>>
        /\ out' = [out EXCEPT ![n] = o]
        /\ \/ UNCHANGED <<rt, krt, rreq_id, flood, timers, air>>
           \/ Request(n, e.p.ip_dst, RREQ_RETRIES)
    BY Zenon DEF gen_rreq
  <1>3. o \in SUBSET [p : KnownPackets, queue : BOOLEAN]
    <2>1. [e EXCEPT !.queue = TRUE] \in [p : KnownPackets, queue : BOOLEAN]
      BY <1>1
    <2> QED
      BY <1>1, <2>1
  <1>4. e.p.ip_dst \in Nodes /\ e.p \in KnownPackets
    BY <1>1 DEF KnownPackets, Packets
  <1> HIDE DEF o
  <1>5. RREQ_RETRIES \in 0 .. RREQ_RETRIES
    BY AodvAssumption
  <1>6. TablesInv' /\ Grown /\ NeighInv' /\ TimersInv' /\ AirInv' /\ KnownPackets \subseteq KnownPackets'
    <2>1. CASE UNCHANGED <<rt, krt, rreq_id, flood, timers, air>>
      <3>1. TablesInv' /\ Grown /\ KnownPackets \subseteq KnownPackets' /\ OnAir(air, Heard')
        BY <1>2, <2>1, TablesAlone
      <3>2. AirInv'
        BY <2>1, <3>1 DEF AirInv
      <3> QED
        BY <1>2, <2>1, <3>1, <3>2, Untouched DEF Inv
    <2>2. CASE Request(n, e.p.ip_dst, RREQ_RETRIES)
      <3> DEFINE B == timers[n] (+) SetToBag({RESEND_RREQ(e.p.ip_dst, RREQ_RETRIES)})
      <3>1. /\ TablesInv' /\ Grown /\ NeighInv' /\ AirInv' /\ KnownPackets \subseteq KnownPackets'
            /\ timers' = [timers EXCEPT ![n] = B]
        BY <1>2, <1>4, <1>5, <2>2, RequestKeeps
      <3>2. TaskBag(timers[n]) /\ TaskBag(due[n])
        BY DEF Inv, TimersInv, TaskBag
      <3>3. TaskBag(B)
        BY <1>4, <1>5, <3>2, TaskTypes, TaskBags
      <3> HIDE DEF B
      <3>4. TimersInv'
        BY <1>2, <3>1, <3>2, <3>3, TimersStep DEF Inv
      <3> QED
        BY <3>1, <3>4
    <2> QED
      BY <1>2, <2>1, <2>2
  <1>7. HookInv'
    BY <1>2, <1>3, <1>6, HookTakes DEF Inv
  <1>8. QueueInv' /\ CountersInv'
    BY <1>2, <1>6, QueueStep, Untouched DEF Inv
  <1> QED
    BY <1>6, <1>7, <1>8 DEF Inv

\* The packet is put in the queue.
LEMMA ipq_enqueueKeeps ==
    ASSUME Inv, NEW n \in Nodes, NEW e \in out[n], ipq_enqueue(n, e)
    PROVE  Inv' /\ Grown
  <1> DEFINE o == out[n] \ {e}
             q == Append(ipq[n], e.p)
  <1>1. e.p \in KnownPackets /\ out[n] \in SUBSET [p : KnownPackets, queue : BOOLEAN]
    BY DEF Inv, HookInv
  <1>2. /\ UNCHANGED <<rt, krt, rreq_id, neigh, fresh, flood, timers, due, link, air, counters, issued>>
        /\ out' = [out EXCEPT ![n] = o]
        /\ UNCHANGED ipq \/ (Len(ipq[n]) < QMAX /\ ipq' = [ipq EXCEPT ![n] = q])
    <2>1. ipq[n] \in Seq(KnownPackets) /\ QMAX \in Nat
      BY AodvAssumption DEF Inv, QueueInv
    <2>2. Len(ipq[n]) \in Nat
      BY <2>1
    <2> QED
      BY <2>1, <2>2 DEF ipq_enqueue
  <1>3. o \in SUBSET [p : KnownPackets, queue : BOOLEAN]
    BY <1>1
  <1>4. q \in Seq(KnownPackets) /\ (Len(ipq[n]) < QMAX => Len(q) <= QMAX)
    <2>1. ipq[n] \in Seq(KnownPackets) /\ QMAX \in Nat
      BY AodvAssumption DEF Inv, QueueInv
    <2>2. Len(q) = Len(ipq[n]) + 1 /\ Len(ipq[n]) \in Nat
      BY <2>1
    <2> QED
      BY <1>1, <2>1, <2>2
  <1> HIDE DEF o, q
  <1>5. TablesInv' /\ Grown /\ KnownPackets \subseteq KnownPackets' /\ OnAir(air, Heard')
    BY <1>2, TablesAlone
  <1>6. QueueInv'
    BY <1>2, <1>4, <1>5, QueueStep DEF Inv
  <1>7. HookInv'
    BY <1>2, <1>3, <1>5, HookTakes DEF Inv
  <1>8. NeighInv' /\ TimersInv' /\ CountersInv'
    BY <1>2, Untouched DEF Inv
  <1>9. AirInv'
    BY <1>2, <1>5 DEF AirInv
  <1> QED
    BY <1>5, <1>6, <1>7, <1>8, <1>9 DEF Inv

\* A data packet arrives.
LEMMA RecvDataKeeps ==
    ASSUME Inv, NEW n \in Nodes, NEW a \in Nodes, RecvData(n, a)
    PROVE  Inv' /\ Grown
  <1> DEFINE m == Head(air[<<a, n>>])
             o == PassOn(n, m)
  <1>1. /\ <<a, n>> \in Hops /\ m \in Heard[<<a, n>>] /\ m.type = "data"
        /\ OnAir(Rest(a, n), Heard)
    BY NextHeard DEF Inv, RecvData
  <1>2. /\ UNCHANGED <<rt, krt, rreq_id, neigh, fresh, flood, timers, due, ipq, link, counters, issued>>
        /\ air' = Rest(a, n) /\ out' = [out EXCEPT ![n] = out[n] \cup o]
    BY DEF RecvData
  <1>3. m \in KnownPackets
    BY <1>1, HeardFields
  <1>4. TablesInv' /\ Grown /\ KnownPackets \subseteq KnownPackets' /\ \A l \in Hops : Heard[l] \subseteq Heard'[l]
    BY <1>2, TablesAlone
  <1>5. o \in SUBSET [p : KnownPackets', queue : BOOLEAN]
    BY <1>3, <1>4 DEF PassOn, AtHook
  <1> HIDE DEF m, o
  <1>6. HookInv'
    BY <1>2, <1>4, <1>5, HookStep DEF Inv
  <1>7. AirInv'
    <2>1. OnAir(Rest(a, n), Heard')
      BY <1>1, <1>4, OnAirGrows
    <2> QED
      BY <1>2, <2>1 DEF AirInv
  <1>8. QueueInv' /\ NeighInv' /\ TimersInv' /\ CountersInv'
    BY <1>2, <1>4, QueueStep, Untouched DEF Inv
  <1> QED
    BY <1>4, <1>6, <1>7, <1>8 DEF Inv

\* The destination of a request raises its number in its own table.
LEMMA ReplyTable ==
    ASSUME NEW n \in Nodes, NEW t, NEW k, rt[n][n].seq \in Nat, NewTables(n, t, k),
           NEW m, m.dst_seq \in Nat
    PROVE  NewTables(n, reply_to_rreq(n, t, m), k)
  <1> DEFINE s == m.dst_seq + 1
             v == [t EXCEPT ![n].seq = s]
             u == reply_to_rreq(n, t, m)
  <1>1. /\ t[n] \in Routes /\ t[n].seq \in Nat /\ t[n].valid /\ n \in DOMAIN t
        /\ OwnTable(n, t) /\ t[n].seq >= rt[n][n].seq
        /\ issued[n] = 0 => t[n] = Route(t[n].seq, n, 0)
    BY RouteTypes DEF OwnTable, NewTables
  <1>2. CASE ~(m.dst = n /\ seq_less_or_equal(t[n].seq, m.dst_seq))
    <2>1. u = t
      BY <1>2 DEF reply_to_rreq
    <2> QED
      BY <2>1
  <1>3. CASE m.dst = n /\ seq_less_or_equal(t[n].seq, m.dst_seq)
    <2>1. u = v
      BY <1>3 DEF reply_to_rreq
    <2>2. s \in Nat /\ s >= t[n].seq
      BY <1>1, <1>3 DEF seq_less_or_equal
    <2> HIDE DEF s
    <2>3. /\ DOMAIN v = DOMAIN t /\ v[n] = [t[n] EXCEPT !.seq = s]
          /\ \A y \in DOMAIN t : y # n => v[y] = t[y]
      BY <1>1 DEF OwnTable
    <2>4. v[n] \in Routes /\ v[n].seq = s /\ v[n].valid = t[n].valid
      BY <1>1, <2>2, <2>3 DEF Routes
    <2>5. v \in [DOMAIN v -> Routes]
      <3>1. \A y \in DOMAIN v : v[y] \in Routes
        BY <1>1, <2>3, <2>4 DEF OwnTable
      <3>2. v = [y \in DOMAIN v |-> v[y]]
        BY <1>1 DEF OwnTable
      <3> QED
        BY <3>1, <3>2
    <2>6. issued[n] = 0 => v[n] = Route(v[n].seq, n, 0)
      BY <1>1, <2>3, <2>4, RouteSeq
    <2> HIDE DEF v, u
    <2>7. OwnTable(n, v)
      BY <1>1, <2>3, <2>4, <2>5 DEF OwnTable
    <2>8. v[n].seq >= rt[n][n].seq
      BY <1>1, <2>2, <2>4
    <2>9. NewTables(n, v, k)
      BY <2>3, <2>6, <2>7, <2>8 DEF NewTables, KernelTable
    <2> QED
      BY <2>1, <2>9 DEF u
  <1> QED
    BY <1>2, <1>3

\* The reply that a destination sends back.
LEMMA ReplyKnown ==
    ASSUME NEW n \in Nodes, NEW t, OwnTable(n, t), t[n].seq <= Hi(n)', NEW m, m.src \in Nodes
    PROVE  gen_rrep(n, t, m) \in SUBSET [p : KnownPackets', queue : BOOLEAN]
  <1> DEFINE x == t[m.src].next_hop
             p == Rrep(n, x, m.src, n, t[n].seq, t[n].metric)
  <1>1. CASE m.src \notin DOMAIN t
    BY <1>1 DEF gen_rrep
  <1>2. CASE m.src \in DOMAIN t
    <2>1. t[m.src] \in Routes /\ t[n] \in Routes
      BY <1>2 DEF OwnTable
    <2>2. x \in Nodes /\ t[n].seq \in Nat /\ t[n].metric \in Nat
      BY <2>1, RouteTypes
    <2>3. gen_rrep(n, t, m) = send_message(t, p)
      BY <1>2 DEF gen_rrep
    <2> HIDE DEF x
    <2>4. p \in KnownPackets'
      BY <2>2, RrepKnown
    <2> HIDE DEF p
    <2> QED
      BY <2>3, <2>4 DEF send_message, AtHook
  <1> QED
    BY <1>1, <1>2

\* A route request arrives.
LEMMA recv_rreqKeeps ==
    ASSUME Inv, NEW n \in Nodes, NEW a \in Nodes, recv_rreq(n, a)
    PROVE  Inv' /\ Grown
  <1> DEFINE u(m) == update_aodv_route(n, m.src, m.from, m.metric + 1, m.src_seq)
             Taken(m) == rt' = [rt EXCEPT ![n] = u(m)]
  <1>1. /\ UNCHANGED <<krt, rreq_id, neigh, fresh, flood, timers, due, out, ipq, link, counters, issued>>
        /\ air' = Rest(a, n)
        /\ UNCHANGED rt \/ Taken(Head(air[<<a, n>>]))
    BY Zenon DEF recv_rreq
  <1>2. PICK m : m = Head(air[<<a, n>>])
    OBVIOUS
  <1> HIDE DEF Taken
  <1>3. UNCHANGED rt \/ Taken(m)
    BY <1>1, <1>2
  <1>4. /\ <<a, n>> \in Hops /\ m \in Heard[<<a, n>>] /\ m.type = "RREQ"
        /\ OnAir(Rest(a, n), Heard)
    BY <1>2, NextHeard DEF Inv, recv_rreq
  <1>5. TablesInv' /\ Grown
    <2>1. CASE UNCHANGED rt
      BY <1>1, <2>1, TablesKept DEF Inv
    <2>2. CASE Taken(m)
      <3> DEFINE d == m.src
                 x == m.from
                 s == m.src_seq
                 m1 == m.metric + 1
                 tt == update_aodv_route(n, d, x, m1, s)
      <3>1. TablesInv /\ d \in Nodes /\ x \in Nodes /\ s \in Nat /\ s <= Hi(d) /\ m1 \in Nat
        BY <1>4, HeardFields DEF Inv
      <3>2. rt' = [rt EXCEPT ![n] = tt]
        BY <2>2 DEF Taken
      <3> HIDE DEF d, x, s, m1
      <3>3. NewTables(n, tt, krt)
        BY <3>1, UpdateTable
      <3> HIDE DEF tt
      <3> QED
        BY <1>1, <3>1, <3>2, <3>3, TableStep
    <2> QED
      BY <1>3, <2>1, <2>2
  <1>6. KnownPackets \subseteq KnownPackets' /\ \A l \in Hops : Heard[l] \subseteq Heard'[l]
    BY <1>5, AirGrows
  <1>7. AirInv'
    <2>1. OnAir(Rest(a, n), Heard')
      BY <1>4, <1>6, OnAirGrows
    <2> QED
      BY <1>1, <2>1 DEF AirInv
  <1>8. QueueInv' /\ HookInv' /\ NeighInv' /\ TimersInv' /\ CountersInv'
    BY <1>1, <1>6, QueueStep, HookStep, Untouched DEF Inv
  <1> QED
    BY <1>5, <1>7, <1>8 DEF Inv

\* A reply goes on towards the source of the request.
LEMMA OnwardKnown ==
    ASSUME NEW n \in Nodes, NEW t, OwnTable(n, t), NEW m \in KnownPackets', m.type = "RREP",
           m.src \in DOMAIN t
    PROVE  send_message(t, [m EXCEPT !.from = n, !.ip_dst = t[m.src].next_hop, !.metric = @ + 1])
               \in SUBSET [p : KnownPackets', queue : BOOLEAN]
  <1> DEFINE x == t[m.src].next_hop
             q == [m EXCEPT !.from = n, !.ip_dst = x, !.metric = @ + 1]
  <1>1. t[m.src] \in Routes
    BY DEF OwnTable
  <1>2. x \in Nodes
    BY <1>1, RouteTypes
  <1>3. m.metric \in Nat
    BY DEF KnownPackets, Packets
  <1> HIDE DEF x
  <1>4. q \in KnownPackets'
    BY <1>2, <1>3, RrepOnward
  <1> HIDE DEF q
  <1>5. send_message(t, q) \in SUBSET [p : KnownPackets', queue : BOOLEAN]
    BY <1>4 DEF send_message, AtHook
  <1> QED
    BY <1>5 DEF q, x

\* A route reply arrives.
LEMMA recv_rrepKeeps ==
    ASSUME Inv, NEW n \in Nodes, NEW a \in Nodes, recv_rrep(n, a)
    PROVE  Inv' /\ Grown
  <1> DEFINE new(m) == update_aodv_route(n, m.dst, m.from, m.metric + 1, m.dst_seq)
             Handled(m) ==
                /\ out' = [out EXCEPT ![n] = out[n] \cup PassOn(n, m)]
                /\ \/ UNCHANGED <<rt, timers>>
                   \/ /\ timers' = [timers EXCEPT ![n] = delete_timer(timers[n], m.dst, "RESEND_RREQ")]
                      /\ rt' = [rt EXCEPT ![n] = new(m)]
  <1>1. /\ UNCHANGED <<krt, rreq_id, neigh, fresh, flood, due, ipq, link, counters, issued>>
        /\ air' = Rest(a, n)
        /\ Handled(Head(air[<<a, n>>]))
    BY Zenon DEF recv_rrep
  <1>2. PICK m : m = Head(air[<<a, n>>])
    OBVIOUS
  <1> HIDE DEF Handled
  <1>3. Handled(m)
    BY <1>1, <1>2
  <1>4. /\ <<a, n>> \in Hops /\ m \in Heard[<<a, n>>] /\ m.type = "RREP"
        /\ OnAir(Rest(a, n), Heard)
    BY <1>2, NextHeard DEF Inv, recv_rrep
  <1> DEFINE m1 == m.metric + 1
             d == m.dst
             x == m.from
             s == m.dst_seq
             tt == update_aodv_route(n, d, x, m1, s)
             B == delete_timer(timers[n], d, "RESEND_RREQ")
  <1>5. /\ TablesInv /\ m1 \in Nat /\ d \in Nodes /\ x \in Nodes /\ s \in Nat /\ s <= Hi(d)
        /\ m \in KnownPackets
    BY <1>4, HeardFields DEF Inv
  <1>6. /\ out' = [out EXCEPT ![n] = out[n] \cup PassOn(n, m)]
        /\ \/ UNCHANGED <<rt, timers>>
           \/ timers' = [timers EXCEPT ![n] = B] /\ rt' = [rt EXCEPT ![n] = tt]
    BY <1>3, Zenon DEF Handled
  <1> HIDE DEF m1, d, x, s
  <1>7. TablesInv' /\ Grown
    <2>1. CASE UNCHANGED rt
      BY <1>1, <1>5, <2>1, TablesKept
    <2>2. CASE rt' = [rt EXCEPT ![n] = tt]
      <3>1. NewTables(n, tt, krt)
        BY <1>5, UpdateTable
      <3> HIDE DEF tt
      <3> QED
        BY <1>1, <1>5, <2>2, <3>1, TableStep
    <2> QED
      BY <1>6, <2>1, <2>2
  <1>8. KnownPackets \subseteq KnownPackets' /\ \A l \in Hops : Heard[l] \subseteq Heard'[l]
    BY <1>7, AirGrows
  <1>9. AirInv'
    <2>1. OnAir(Rest(a, n), Heard')
      BY <1>4, <1>8, OnAirGrows
    <2> QED
      BY <1>1, <2>1 DEF AirInv
  <1>10. HookInv'
    <2>1. PassOn(n, m) \in SUBSET [p : KnownPackets', queue : BOOLEAN]
      BY <1>5, <1>8 DEF PassOn, AtHook
    <2> QED
      BY <1>6, <1>8, <2>1, HookStep DEF Inv
  <1>11. TimersInv'
    <2>1. TaskBag(timers[n]) /\ TaskBag(due[n])
      BY DEF Inv, TimersInv, TaskBag
    <2>2. TaskBag(B)
      BY <2>1, TaskBags
    <2> HIDE DEF B
    <2> QED
      BY <1>1, <1>6, <2>1, <2>2, TimersStep DEF Inv
  <1>12. QueueInv' /\ NeighInv' /\ CountersInv'
    BY <1>1, <1>8, QueueStep, Untouched DEF Inv
  <1> QED
    BY <1>7, <1>9, <1>10, <1>11, <1>12 DEF Inv

\* A table in which routes other than n's own have ended or have gone.
LEMMA EndedTable ==
    ASSUME TablesInv, NEW n \in Nodes, NEW t, n \in DOMAIN t, DOMAIN t \subseteq DOMAIN rt[n],
           t \in [DOMAIN t -> Routes], t[n] = rt[n][n],
           \A d \in DOMAIN t : t[d].valid => t[d] = rt[n][d],
           NEW k, DOMAIN k = Nodes, KernelTable(k[n], t), \A y \in Nodes \ {n} : k[y] = krt[y]
    PROVE  NewTables(n, t, k)
  <1>1. /\ OwnTable(n, rt[n]) /\ rt[n][n].seq \in Nat
        /\ issued[n] = 0 => rt[n][n] = Route(rt[n][n].seq, n, 0)
        /\ \A d \in DOMAIN rt[n] : rt[n][d].valid => rt[n][d].seq <= Hi(d)
    BY TableFacts
  <1>2. OwnTable(n, t)
    BY <1>1 DEF OwnTable
  <1>3. t[n].seq >= rt[n][n].seq
    BY <1>1
  <1>4. \A d \in DOMAIN t : d # n /\ t[d].valid => t[d].seq <= Hi(d)
    BY <1>1
  <1>5. issued[n] = 0 => t[n] = Route(t[n].seq, n, 0)
    BY <1>1
  <1> QED
    BY <1>2, <1>3, <1>4, <1>5 DEF NewTables

\* What is known of a handler's message.
LEMMA WorkFacts ==
    ASSUME TaskInv, NEW n \in Nodes, NEW w \in task[n], w.todo # "drop"
    PROVE  /\ \E l \in Hops : w.m \in Heard[l]
           /\ w.ip \in Nodes /\ w.m \in Messages
           /\ w.m.type = "RREQ" => w.m.ttl > 1
           /\ w.todo \in {"route", "send"} => w.ip \in DOMAIN rt[n]
  <1>1. Working(n, w)
    BY DEF TaskInv
  <1>2. w.ip \in Nodes /\ \E l \in Hops : w.m \in Heard[l]
    BY <1>1 DEF Working, Works
  <1>3. w.m \in Messages
    BY <1>2, HeardFields
  <1> QED
    BY <1>1, <1>2, <1>3 DEF Working

\* The kernel is told of a route.
LEMMA insert_kernel_route_entryKeeps ==
    ASSUME Inv, TaskInv, NEW n \in Nodes, NEW w \in task[n], insert_kernel_route_entry(n, w)
    PROVE  Inv' /\ Grown
  <1> DEFINE d == w.ip
             g == rt[n][d].next_hop
             kk == Put(krt[n], d, g)
  <1>1. /\ w.todo = "route" /\ krt' = [krt EXCEPT ![n] = kk]
        /\ UNCHANGED <<rt, rreq_id, neigh, fresh, flood, timers, due, out, ipq, link, air, counters, issued>>
    BY DEF insert_kernel_route_entry
  <1>2. d \in DOMAIN rt[n]
    BY <1>1, WorkFacts
  <1>3. TablesInv /\ DOMAIN krt = Nodes /\ KernelTable(krt[n], rt[n]) /\ DOMAIN rt = Nodes /\ n \in DOMAIN rt[n]
    BY DEF Inv, TablesInv, OwnTable
  <1>4. g \in Nodes
    <2>1. rt[n][d] \in Routes
      BY <1>2, <1>3, TableFacts
    <2> QED
      BY <2>1, RouteTypes
  <1> HIDE DEF d, g
  <1>5. KernelTable(kk, rt[n])
    <2>1. DOMAIN krt[n] \subseteq DOMAIN rt[n] /\ krt[n] \in [DOMAIN krt[n] -> Nodes]
      BY <1>3 DEF KernelTable
    <2>2. kk \in [DOMAIN krt[n] \cup {d} -> Nodes]
      BY <1>4, <2>1, PutType
    <2> HIDE DEF kk
    <2> QED
      BY <1>2, <2>1, <2>2 DEF KernelTable
  <1>6. TablesInv' /\ Grown
    <2> DEFINE t == rt[n]
               k == [krt EXCEPT ![n] = kk]
    <2>1. t \in [DOMAIN t -> Routes] /\ UNCHANGED rt /\ t = rt[n]
      BY <1>1, <1>3 DEF TablesInv, OwnTable
    <2>2. DOMAIN k = Nodes /\ KernelTable(k[n], t) /\ \A y \in Nodes \ {n} : k[y] = krt[y]
      BY <1>3, <1>5
    <2> HIDE DEF k
    <2>3. NewTables(n, t, k)
      BY <1>3, <2>1, <2>2, EndedTable
    <2>4. krt' = k
      BY <1>1 DEF k
    <2> HIDE DEF t
    <2> QED
      BY <1>1, <1>3, <2>1, <2>3, <2>4, TableStep
  <1>7. KnownPackets \subseteq KnownPackets' /\ OnAir(air, Heard')
    BY <1>6, AirGrows
  <1>8. AirInv'
    BY <1>1, <1>7 DEF AirInv
  <1>9. QueueInv' /\ HookInv' /\ NeighInv' /\ TimersInv' /\ CountersInv'
    BY <1>1, <1>7, QueueStep, HookStep, Untouched DEF Inv
  <1> QED
    BY <1>6, <1>8, <1>9 DEF Inv

\* A packet that waited is sent.
LEMMA ipq_send_ipKeeps ==
    ASSUME Inv, NEW n \in Nodes, NEW w, ipq_send_ip(n, w)
    PROVE  Inv' /\ Grown
  <1> DEFINE q == ipq_dequeue(ipq[n], w.ip)
             p == ipq[n][First(ipq[n], w.ip)]
             x == Gateway(n, w.ip)
  <1>1. /\ ipq' = [ipq EXCEPT ![n] = q] /\ air' = Transmit(air, n, x, <<p>>) /\ Waits(n, w.ip)
        /\ UNCHANGED <<rt, krt, rreq_id, neigh, fresh, flood, timers, due, out, link, counters, issued>>
    BY DEF ipq_send_ip
  <1>2. q \in Seq(KnownPackets) /\ Len(q) <= QMAX /\ p \in KnownPackets
    BY <1>1, Dequeued DEF Inv
  <1> HIDE DEF q, p, x
  <1>3. /\ TablesInv' /\ Grown /\ KnownPackets \subseteq KnownPackets' /\ OnAir(air, Heard')
        /\ \A l \in Hops : Heard[l] \subseteq Heard'[l]
    BY <1>1, TablesAlone
  <1>4. AirInv'
    <2>1. \A l \in Hops : KnownPackets \subseteq Heard'[l]
      BY <1>3, PacketsHeard
    <2>2. <<p>> \in Seq(KnownPackets)
      BY <1>2
    <2>3. OnAir(Transmit(air, n, x, <<p>>), Heard')
      BY <1>3, <2>1, <2>2, OnAirTransmit
    <2> QED
      BY <1>1, <2>3 DEF AirInv
  <1>5. QueueInv'
    BY <1>1, <1>2, <1>3, QueueStep DEF Inv
  <1>6. HookInv' /\ NeighInv' /\ TimersInv' /\ CountersInv'
    BY <1>1, <1>3, HookStep, Untouched DEF Inv
  <1> QED
    BY <1>3, <1>4, <1>5, <1>6 DEF Inv

\* A packet nobody answers for is dropped.
LEMMA ipq_drop_ipKeeps ==
    ASSUME Inv, NEW n \in Nodes, NEW w, ipq_drop_ip(n, w)
    PROVE  Inv' /\ Grown
  <1> DEFINE q == ipq_dequeue(ipq[n], w.ip)
  <1>1. /\ UNCHANGED ipq \/ ipq' = [ipq EXCEPT ![n] = q]
        /\ UNCHANGED <<rt, krt, rreq_id, neigh, fresh, flood, timers, due, out, link, air, counters, issued>>
    BY Zenon DEF ipq_drop_ip
  <1>2. q \in Seq(KnownPackets) /\ Len(q) <= QMAX
    BY Dequeued DEF Inv
  <1> HIDE DEF q
  <1>3. TablesInv' /\ Grown /\ KnownPackets \subseteq KnownPackets' /\ OnAir(air, Heard')
    BY <1>1, TablesAlone
  <1>4. AirInv'
    BY <1>1, <1>3 DEF AirInv
  <1>5. QueueInv'
    BY <1>1, <1>2, <1>3, QueueStep DEF Inv
  <1>6. HookInv' /\ NeighInv' /\ TimersInv' /\ CountersInv'
    BY <1>1, <1>3, HookStep, Untouched DEF Inv
  <1> QED
    BY <1>3, <1>4, <1>5, <1>6 DEF Inv

\* A request is answered or goes on.
LEMMA answer_rreqKeeps ==
    ASSUME Inv, TaskInv, NEW n \in Nodes, NEW w \in task[n], answer_rreq(n, w)
    PROVE  Inv' /\ Grown
  <1> DEFINE m == w.m
             tt == reply_to_rreq(n, rt[n], m)
             oo == gen_rrep(n, rt'[n], m)
             mm == [m EXCEPT !.from = n, !.metric = @ + 1, !.ttl = @ - 1]
  <1>1. /\ flood' = [flood EXCEPT ![n] = insert_flood_id(@, m.src, m.id)]
        /\ rt' = [rt EXCEPT ![n] = tt] /\ m.type = "RREQ"
        /\ \/ out' = [out EXCEPT ![n] = out[n] \cup oo] /\ UNCHANGED air
           \/ air' = local_broadcast(air, n, mm) /\ UNCHANGED out
        /\ UNCHANGED <<krt, rreq_id, neigh, fresh, timers, due, ipq, link, counters, issued>>
    BY Zenon DEF answer_rreq
  <1>2. w.todo # "drop"
    BY DEF answer_rreq, Updated
  <1>3. m.ttl > 1 /\ m \in Messages /\ \E l \in Hops : m \in Heard[l]
    BY <1>1, <1>2, WorkFacts
  <1>4. m.src \in Nodes /\ m.id \in Nat /\ m.dst_seq \in Nat
    BY <1>1, <1>3, HeardFields
  <1> HIDE DEF m
  <1>5. TablesInv /\ OwnTable(n, rt[n]) /\ rt[n][n].seq \in Nat /\ DOMAIN krt = Nodes /\ DOMAIN rt = Nodes
    BY TableFacts DEF Inv, TablesInv
  <1>6. NewTables(n, tt, krt)
    <2> DEFINE t == rt[n]
    <2>1. t \in [DOMAIN t -> Routes] /\ n \in DOMAIN t /\ KernelTable(krt[n], t)
      BY <1>5 DEF TablesInv, OwnTable
    <2>2. NewTables(n, t, krt)
      BY <1>5, <2>1, EndedTable
    <2> HIDE DEF t
    <2>3. NewTables(n, reply_to_rreq(n, t, m), krt)
      BY <1>4, <1>5, <2>2, ReplyTable
    <2> QED
      BY <2>3 DEF t
  <1> HIDE DEF tt
  <1>7. TablesInv' /\ Grown
    BY <1>1, <1>5, <1>6, TableStep
  <1>8. KnownPackets \subseteq KnownPackets' /\ OnAir(air, Heard') /\ \A l \in Hops : Heard[l] \subseteq Heard'[l]
    BY <1>7, AirGrows
  <1>9. HookInv'
    <2>1. rt'[n] = tt /\ OwnTable(n, tt)
      BY <1>1, <1>5, <1>6 DEF NewTables
    <2>2. tt[n].seq <= Hi(n)'
      <3>1. tt[n] \in Routes
        BY <2>1 DEF OwnTable
      <3>2. tt[n].seq \in Nat
        BY <3>1, RouteTypes
      <3>3. rt'[n][n].seq = tt[n].seq /\ issued'[n] \in Nat
        BY <1>7, <2>1 DEF TablesInv
      <3> QED
        BY <3>2, <3>3 DEF Hi
    <2>3. gen_rrep(n, tt, m) \in SUBSET [p : KnownPackets', queue : BOOLEAN]
      BY <1>4, <2>1, <2>2, ReplyKnown
    <2>4. oo \in SUBSET [p : KnownPackets', queue : BOOLEAN]
      BY <2>1, <2>3
    <2> HIDE DEF oo
    <2> QED
      BY <1>1, <1>8, <2>4, HookStep DEF Inv
  <1>10. AirInv'
    <2>1. PICK l \in Hops : m \in Heard'[l]
      BY <1>3, <1>8
    <2>2. m.src_seq <= Hi(m.src)'
      BY <1>1, <2>1 DEF Heard
    <2>3. \A h \in Hops : h[1] = n => mm \in Heard'[h]
      BY <1>1, <1>3, <2>2, RreqOnward
    <2> HIDE DEF mm
    <2>4. OnAir(local_broadcast(air, n, mm), Heard')
      BY <1>8, <2>3, OnAirBroadcast
    <2> QED
      BY <1>1, <1>8, <2>4 DEF AirInv
  <1>11. NeighInv'
    BY <1>1, <1>4 DEF Inv, NeighInv, insert_flood_id
  <1>12. QueueInv' /\ TimersInv' /\ CountersInv'
    BY <1>1, <1>8, QueueStep, Untouched DEF Inv
  <1> QED
    BY <1>7, <1>9, <1>10, <1>11, <1>12 DEF Inv

\* A reply is passed on.
LEMMA forward_rrepKeeps ==
    ASSUME Inv, TaskInv, NEW n \in Nodes, NEW w \in task[n], forward_rrep(n, w)
    PROVE  Inv' /\ Grown
  <1> DEFINE m == w.m
             t == rt[n]
             oo == IF m.src \notin DOMAIN t \/ m.src = n THEN {}
                   ELSE send_message(t, [m EXCEPT !.from = n, !.ip_dst = t[m.src].next_hop, !.metric = @ + 1])
  <1>1. /\ out' = [out EXCEPT ![n] = out[n] \cup oo] /\ m.type = "RREP"
        /\ UNCHANGED <<rt, krt, rreq_id, neigh, fresh, flood, timers, due, ipq, link, air, counters, issued>>
    BY Zenon DEF forward_rrep
  <1>2. w.todo # "drop"
    BY DEF forward_rrep, Updated
  <1>3. \E l \in Hops : m \in Heard[l]
    BY <1>2, WorkFacts
  <1>4. m \in KnownPackets
    BY <1>1, <1>3, HeardFields
  <1> HIDE DEF m
  <1>5. TablesInv' /\ Grown /\ KnownPackets \subseteq KnownPackets' /\ OnAir(air, Heard')
    BY <1>1, TablesAlone
  <1>6. OwnTable(n, t)
    BY TableFacts DEF Inv
  <1> HIDE DEF t
  <1>7. oo \in SUBSET [p : KnownPackets', queue : BOOLEAN]
    <2>1. CASE m.src \notin DOMAIN t \/ m.src = n
      BY <2>1
    <2>2. CASE m.src \in DOMAIN t /\ m.src # n
      <3>1. m \in KnownPackets'
        BY <1>4, <1>5
      <3> QED
        BY <1>1, <1>6, <2>2, <3>1, OnwardKnown
    <2> QED
      BY <2>1, <2>2
  <1> HIDE DEF oo
  <1>8. HookInv'
    BY <1>1, <1>5, <1>7, HookStep DEF Inv
  <1>9. AirInv'
    BY <1>1, <1>5 DEF AirInv
  <1>10. QueueInv' /\ NeighInv' /\ TimersInv' /\ CountersInv'
    BY <1>1, <1>5, QueueStep, Untouched DEF Inv
  <1> QED
    BY <1>5, <1>8, <1>9, <1>10 DEF Inv

\* A hello arrives.
LEMMA recv_helloKeeps ==
    ASSUME Inv, NEW n \in Nodes, NEW a \in Nodes, recv_hello(n, a)
    PROVE  Inv' /\ Grown
  <1> DEFINE Handled(m) ==
                /\ neigh' = [neigh EXCEPT ![n] = @ \cup {m.from}]
                /\ fresh' = [fresh EXCEPT ![n] = @ \cup {m.from}]
                /\ timers' = [timers EXCEPT ![n] = delete_timer(timers[n], m.from, "NEIGHBOR")
                                                       (+) SetToBag({NEIGHBOR(m.from)})]
                /\ rt' = [rt EXCEPT ![n] = update_aodv_neigh_route(rt[n], m)]
                /\ krt' = [krt EXCEPT ![n] = Put(krt[n], m.from, OldGateway(rt[n], m.from))]
  <1>1. /\ UNCHANGED <<rreq_id, flood, due, out, ipq, link, counters, issued>>
        /\ air' = Rest(a, n)
        /\ Handled(Head(air[<<a, n>>]))
    BY DEF recv_hello
  <1>2. PICK m : m = Head(air[<<a, n>>])
    OBVIOUS
  <1> HIDE DEF Handled
  <1>3. Handled(m)
    BY <1>1, <1>2
  <1>4. /\ <<a, n>> \in Hops /\ m \in Heard[<<a, n>>] /\ m.type = "HELLO" /\ a # n
        /\ OnAir(Rest(a, n), Heard)
    BY <1>2, NextHeard DEF Inv, recv_hello
  <1>5. m.from = a /\ m.dst_seq \in Nat /\ m.dst_seq <= Hi(a)
    BY <1>4, HeardFields
  <1> DEFINE r == Route(m.dst_seq, a, 1)
             tt == Put(rt[n], a, r)
             g == OldGateway(rt[n], a)
             kk == Put(krt[n], a, g)
             B == delete_timer(timers[n], a, "NEIGHBOR") (+) SetToBag({NEIGHBOR(a)})
  <1>6. /\ neigh' = [neigh EXCEPT ![n] = @ \cup {a}] /\ fresh' = [fresh EXCEPT ![n] = @ \cup {a}]
        /\ timers' = [timers EXCEPT ![n] = B]
        /\ rt' = [rt EXCEPT ![n] = tt] /\ krt' = [krt EXCEPT ![n] = kk]
    BY <1>3, <1>5 DEF Handled, update_aodv_neigh_route
  <1>7. /\ OwnTable(n, rt[n]) /\ rt[n][n].seq \in Nat
        /\ issued[n] = 0 => rt[n][n] = Route(rt[n][n].seq, n, 0)
        /\ \A d \in DOMAIN rt[n] : /\ d \in Nodes /\ rt[n][d] \in Routes
                                   /\ rt[n][d].valid => rt[n][d].seq <= Hi(d)
    BY TableFacts DEF Inv
  <1>8. r \in Routes /\ r.seq = m.dst_seq /\ r.valid
    BY <1>5, RouteType
  <1>9. g \in Nodes
    BY <1>7, RouteTypes DEF OldGateway
  <1>10. DOMAIN rt = Nodes /\ DOMAIN krt = Nodes /\ KernelTable(krt[n], rt[n])
    BY DEF Inv, TablesInv
  <1> HIDE DEF r, g
  <1>11. /\ DOMAIN tt = DOMAIN rt[n] \cup {a} /\ tt[a] = r
         /\ \A y \in DOMAIN rt[n] : y # a => tt[y] = rt[n][y]
    BY DEF Put
  <1>12. tt \in [DOMAIN rt[n] \cup {a} -> Routes]
    <2>1. rt[n] \in [DOMAIN rt[n] -> Routes]
      BY <1>7 DEF OwnTable
    <2> QED
      BY <1>8, <2>1, PutType
  <1>13. KernelTable(kk, tt)
    <2>1. DOMAIN krt[n] \subseteq DOMAIN rt[n] /\ krt[n] \in [DOMAIN krt[n] -> Nodes]
      BY <1>10 DEF KernelTable
    <2>2. kk \in [DOMAIN krt[n] \cup {a} -> Nodes]
      BY <1>9, <2>1, PutType
    <2> HIDE DEF kk
    <2> QED
      BY <1>11, <2>1, <2>2 DEF KernelTable
  <1> HIDE DEF tt, kk
  <1>14. OwnTable(n, tt) /\ tt[n] = rt[n][n]
    BY <1>4, <1>7, <1>11, <1>12 DEF OwnTable
  <1>15. TablesInv' /\ Grown
    <2>1. tt[n].seq >= rt[n][n].seq
      BY <1>7, <1>14
    <2>2. \A y \in DOMAIN tt : y # n /\ tt[y].valid => tt[y].seq <= Hi(y)
      BY <1>5, <1>7, <1>8, <1>11
    <2>3. issued[n] = 0 => tt[n] = Route(tt[n].seq, n, 0)
      BY <1>7, <1>14
    <2>4. DOMAIN krt' = Nodes /\ KernelTable(krt'[n], tt) /\ \A y \in Nodes \ {n} : krt'[y] = krt[y]
      BY <1>6, <1>10, <1>13
    <2>5. NewTables(n, tt, [krt EXCEPT ![n] = kk])
      BY <1>6, <1>14, <2>1, <2>2, <2>3, <2>4 DEF NewTables
    <2> QED
      BY <1>1, <1>6, <2>5, TableStep DEF Inv
  <1>16. KnownPackets \subseteq KnownPackets' /\ \A l \in Hops : Heard[l] \subseteq Heard'[l]
    BY <1>15, AirGrows
  <1>17. AirInv'
    <2>1. OnAir(Rest(a, n), Heard')
      BY <1>4, <1>16, OnAirGrows
    <2> QED
      BY <1>1, <2>1 DEF AirInv
  <1>18. TimersInv'
    <2>1. TaskBag(timers[n]) /\ TaskBag(due[n])
      BY DEF Inv, TimersInv, TaskBag
    <2> DEFINE C == delete_timer(timers[n], a, "NEIGHBOR")
    <2>2. TaskBag(C)
      BY <2>1, TaskBags
    <2> HIDE DEF C
    <2>3. TaskBag(C (+) SetToBag({NEIGHBOR(a)}))
      BY <2>2, TaskBags, TaskTypes
    <2>4. TaskBag(B)
      BY <2>3 DEF C
    <2> HIDE DEF B
    <2> QED
      BY <1>1, <1>6, <2>1, <2>4, TimersStep DEF Inv
  <1>19. NeighInv'
    BY <1>1, <1>4, <1>6 DEF Inv, NeighInv
  <1>20. QueueInv' /\ HookInv' /\ CountersInv'
    BY <1>1, <1>16, QueueStep, HookStep, Untouched DEF Inv
  <1> QED
    BY <1>15, <1>17, <1>18, <1>19, <1>20 DEF Inv

\* A route error arrives.
LEMMA recv_rerrKeeps ==
    ASSUME Inv, NEW n \in Nodes, NEW a \in Nodes, recv_rerr(n, a)
    PROVE  Inv' /\ Grown
  <1> DEFINE Hit(m) == {b \in m.bad : b[1] \in DOMAIN rt[n] /\ b[1] # n /\ rt[n][b[1]].next_hop = m.from}
             Told(m, d) == [rt[n][d] EXCEPT !.seq = (CHOOSE b \in Hit(m) : b[1] = d)[2]]
             new(m) == [d \in DOMAIN rt[n] |->
                          IF \A b \in Hit(m) : b[1] # d THEN rt[n][d]
                          ELSE IF rt[n][d].valid THEN expire_aodv_route(Told(m, d)) ELSE Told(m, d)]
             Handled(m) == /\ rt' = [rt EXCEPT ![n] = new(m)]
                           /\ \/ air' = Rest(a, n)
                              \/ air' = local_broadcast(Rest(a, n), n, Rerr(n, Hit(m)))
  <1>1. /\ UNCHANGED <<krt, rreq_id, neigh, fresh, flood, timers, due, out, ipq, link, counters, issued>>
        /\ Handled(Head(air[<<a, n>>]))
    BY DEF recv_rerr
  <1>2. PICK m : m = Head(air[<<a, n>>])
    OBVIOUS
  <1> HIDE DEF Handled
  <1>3. Handled(m)
    BY <1>1, <1>2
  <1>4. /\ <<a, n>> \in Hops /\ m \in Heard[<<a, n>>] /\ m.type = "RERR"
        /\ OnAir(Rest(a, n), Heard)
    BY <1>2, NextHeard DEF Inv, recv_rerr
  <1>5. m.bad \in SUBSET (Nodes \X Nat)
    BY <1>4, HeardFields
  <1> DEFINE hit == Hit(m)
             t == new(m)
  <1>6. /\ rt' = [rt EXCEPT ![n] = t]
        /\ air' = Rest(a, n) \/ air' = local_broadcast(Rest(a, n), n, Rerr(n, hit))
    BY <1>3 DEF Handled
  <1>7. hit \in SUBSET (Nodes \X Nat) /\ \A b \in hit : b[1] # n
    BY <1>5
  <1>8. OwnTable(n, rt[n]) /\ \A d \in DOMAIN rt[n] : rt[n][d] \in Routes
    BY TableFacts DEF Inv
  <1>9. ASSUME NEW d \in DOMAIN rt[n]
        PROVE  t[d] \in Routes /\ (t[d].valid => t[d] = rt[n][d]) /\ (d = n => t[d] = rt[n][d])
    <2>1. CASE \A b \in hit : b[1] # d
      BY <1>8, <2>1
    <2>2. CASE \E b \in hit : b[1] = d
      <3> DEFINE c == CHOOSE b \in hit : b[1] = d
                 s == c[2]
                 r == [rt[n][d] EXCEPT !.seq = s]
      <3>1. c \in hit
        BY <2>2
      <3>2. s \in Nat
        BY <1>7, <3>1
      <3>3. t[d] = IF rt[n][d].valid THEN expire_aodv_route(r) ELSE r
        BY <2>2
      <3> HIDE DEF s
      <3>4. r \in Routes /\ r.valid = rt[n][d].valid
        BY <1>8, <3>2, RouteTypes DEF Routes
      <3> HIDE DEF r
      <3>5. expire_aodv_route(r) \in Routes /\ ~expire_aodv_route(r).valid
        BY <3>4, RouteTypes
      <3>6. d # n
        BY <1>7, <2>2
      <3> HIDE DEF t
      <3>7. rt[n][d].valid \in BOOLEAN
        BY <1>8, RouteTypes
      <3>8. CASE rt[n][d].valid
        BY <3>3, <3>5, <3>6, <3>8
      <3>9. CASE ~rt[n][d].valid
        BY <3>3, <3>4, <3>6, <3>9
      <3> QED
        BY <3>8, <3>9
    <2> QED
      BY <2>1, <2>2
  <1>10. DOMAIN t = DOMAIN rt[n] /\ t = [d \in DOMAIN t |-> t[d]]
    OBVIOUS
  <1> HIDE DEF t, hit
  <1>11. NewTables(n, t, krt)
    <2>1. t \in [DOMAIN t -> Routes] /\ n \in DOMAIN t
      BY <1>8, <1>9, <1>10 DEF OwnTable
    <2>2. TablesInv /\ DOMAIN krt = Nodes /\ KernelTable(krt[n], t)
      BY <1>10 DEF Inv, TablesInv, KernelTable
    <2> QED
      BY <1>9, <1>10, <2>1, <2>2, EndedTable
  <1>12. TablesInv' /\ Grown
    BY <1>1, <1>6, <1>11, TableStep DEF Inv
  <1>13. KnownPackets \subseteq KnownPackets' /\ \A l \in Hops : Heard[l] \subseteq Heard'[l]
    BY <1>12, AirGrows
  <1>14. AirInv'
    <2>1. OnAir(Rest(a, n), Heard')
      BY <1>4, <1>13, OnAirGrows
    <2>2. \A l \in Hops : l[1] = n => Rerr(n, hit) \in Heard'[l]
      BY <1>7, RerrHeard
    <2>3. OnAir(local_broadcast(Rest(a, n), n, Rerr(n, hit)), Heard')
      BY <2>1, <2>2, OnAirBroadcast
    <2> QED
      BY <1>6, <2>1, <2>3 DEF AirInv
  <1>15. QueueInv' /\ HookInv' /\ NeighInv' /\ TimersInv' /\ CountersInv'
    BY <1>1, <1>13, QueueStep, HookStep, Untouched DEF Inv
  <1> QED
    BY <1>12, <1>14, <1>15 DEF Inv

\* The timer queue hands a timer to the thread.
LEMMA TimerFiresKeeps ==
    ASSUME Inv, NEW n \in Nodes, NEW t \in DOMAIN timers[n], TimerFires(n, t)
    PROVE  Inv' /\ Grown
  <1> DEFINE B == timers[n] (-) SetToBag({t})
             D == due[n] (+) SetToBag({t})
  <1>1. /\ timers' = [timers EXCEPT ![n] = B] /\ due' = [due EXCEPT ![n] = D]
        /\ UNCHANGED <<rt, krt, rreq_id, neigh, fresh, flood, out, ipq, link, air, counters, issued>>
    BY DEF TimerFires
  <1>2. TaskBag(timers[n]) /\ TaskBag(due[n]) /\ t \in Tasks
    BY DEF Inv, TimersInv, TaskBag
  <1>3. TaskBag(B) /\ TaskBag(D)
    BY <1>2, TaskBags
  <1> HIDE DEF B, D
  <1>4. TimersInv'
    BY <1>1, <1>3, TimersStep DEF Inv
  <1>5. TablesInv' /\ Grown /\ KnownPackets \subseteq KnownPackets' /\ OnAir(air, Heard')
    BY <1>1, TablesAlone
  <1>6. QueueInv' /\ HookInv' /\ NeighInv' /\ CountersInv'
    BY <1>1, <1>5, QueueStep, HookStep, Untouched DEF Inv
  <1>7. AirInv'
    BY <1>1, <1>5 DEF AirInv
  <1> QED
    BY <1>4, <1>5, <1>6, <1>7 DEF Inv

\* A request is sent again, or given up.
LEMMA resend_rreqKeeps ==
    ASSUME Inv, NEW n \in Nodes, NEW t \in DOMAIN due[n], resend_rreq(n, t)
    PROVE  Inv' /\ Grown
  <1> DEFINE D == due[n] (-) SetToBag({t})
  <1>1. TaskBag(timers[n]) /\ TaskBag(due[n]) /\ t \in Tasks
    BY DEF Inv, TimersInv, TaskBag
  <1>2. /\ due' = [due EXCEPT ![n] = D] /\ t.type = "RESEND_RREQ"
        /\ UNCHANGED <<neigh, fresh, out, ipq, link, counters, issued>>
        /\ \/ UNCHANGED <<rt, krt, rreq_id, flood, timers, air>>
           \/ ~(t.retries <= 0) /\ Request(n, t.ip, t.retries - 1)
    BY Zenon DEF resend_rreq
  <1>3. TaskBag(D)
    BY <1>1, TaskBags
  <1>4. t.ip \in Nodes /\ t.retries \in 0 .. RREQ_RETRIES
    BY <1>1, <1>2, TaskTypes
  <1> HIDE DEF D
  <1>5. CASE UNCHANGED <<rt, krt, rreq_id, flood, timers, air>>
    <2>1. TablesInv' /\ Grown /\ KnownPackets \subseteq KnownPackets' /\ OnAir(air, Heard')
      BY <1>2, <1>5, TablesAlone
    <2>2. TimersInv'
      BY <1>1, <1>2, <1>3, <1>5, TimersStep DEF Inv
    <2>3. QueueInv' /\ HookInv' /\ NeighInv' /\ CountersInv'
      BY <1>2, <1>5, <2>1, QueueStep, HookStep, Untouched DEF Inv
    <2>4. AirInv'
      BY <1>5, <2>1 DEF AirInv
    <2> QED
      BY <2>1, <2>2, <2>3, <2>4 DEF Inv
  <1>6. CASE ~(t.retries <= 0) /\ Request(n, t.ip, t.retries - 1)
    <2> DEFINE d == t.ip
               r == t.retries - 1
               B == timers[n] (+) SetToBag({RESEND_RREQ(d, r)})
    <2>1. d \in Nodes /\ r \in 0 .. RREQ_RETRIES /\ Request(n, d, r)
      BY <1>4, <1>6, AodvAssumption
    <2> HIDE DEF d, r
    <2>2. /\ TablesInv' /\ Grown /\ NeighInv' /\ AirInv' /\ KnownPackets \subseteq KnownPackets'
          /\ timers' = [timers EXCEPT ![n] = B]
      BY <1>2, <2>1, RequestKeeps
    <2>3. TaskBag(B)
      BY <1>1, <2>1, TaskTypes, TaskBags
    <2> HIDE DEF B
    <2>4. TimersInv'
      BY <1>2, <1>3, <2>2, <2>3, TimersStep DEF Inv
    <2>5. QueueInv' /\ HookInv' /\ CountersInv'
      BY <1>2, <2>2, QueueStep, HookStep, Untouched DEF Inv
    <2> QED
      BY <2>2, <2>4, <2>5 DEF Inv
  <1> QED
    BY <1>2, <1>5, <1>6

\* gen_rerr ends routes, never n's own.
LEMMA GenRerr ==
    ASSUME TablesInv, NEW n \in Nodes, NEW x \in Nodes, NEW d \in DOMAIN rt[n]
    PROVE  /\ gen_rerr(n, x)[d] \in Routes /\ DOMAIN gen_rerr(n, x) = DOMAIN rt[n]
           /\ gen_rerr(n, x)[d].valid => gen_rerr(n, x)[d] = rt[n][d]
           /\ d = n => gen_rerr(n, x)[d] = rt[n][d]
  <1>1. rt[n][d] \in Routes
    BY TableFacts
  <1>2. expire_aodv_route(rt[n][d]) \in Routes /\ ~expire_aodv_route(rt[n][d]).valid
    BY <1>1, RouteTypes
  <1>3. DOMAIN gen_rerr(n, x) = DOMAIN rt[n]
    BY DEF gen_rerr
  <1>4. CASE d \in Through(n, x) /\ rt[n][d].valid
    <2>1. gen_rerr(n, x)[d] = expire_aodv_route(rt[n][d]) /\ d # n
      BY <1>4 DEF gen_rerr, Through
    <2> QED
      BY <1>2, <1>3, <2>1
  <1>5. CASE ~(d \in Through(n, x) /\ rt[n][d].valid)
    <2>1. gen_rerr(n, x)[d] = rt[n][d]
      BY <1>5 DEF gen_rerr
    <2> QED
      BY <1>1, <1>3, <2>1
  <1> QED
    BY <1>4, <1>5

\* A neighbour has not been heard of.
LEMMA delete_aodv_neighKeeps ==
    ASSUME Inv, NEW n \in Nodes, NEW t \in DOMAIN due[n], delete_aodv_neigh(n, t)
    PROVE  Inv' /\ Grown
  <1> DEFINE D == due[n] (-) SetToBag({t})
             x == t.ip
             B == delete_timer(timers[n], x, "NEIGHBOR")
             Still == DOMAIN rt[n] \ {x}
             r == Restrict(gen_rerr(n, x), Still)
             k == Restrict(krt[n], DOMAIN krt[n] \ {x})
             bad == {<<d, rt[n][d].seq>> : d \in Through(n, x)}
             Quiet == UNCHANGED <<rt, krt, air>>
             Broken == /\ krt' = [krt EXCEPT ![n] = k] /\ rt' = [rt EXCEPT ![n] = r]
                       /\ air' = local_broadcast(air, n, Rerr(n, bad))
             Forgotten == /\ x \in neigh[n]
                          /\ neigh' = [neigh EXCEPT ![n] = @ \ {x}]
                          /\ fresh' = [fresh EXCEPT ![n] = @ \ {x}]
                          /\ timers' = [timers EXCEPT ![n] = B]
                          /\ Quiet \/ Broken
  <1>1. /\ due' = [due EXCEPT ![n] = D]
        /\ UNCHANGED <<rreq_id, flood, out, ipq, link, counters, issued>>
        /\ (Quiet /\ UNCHANGED <<neigh, fresh, timers>>) \/ Forgotten
    BY Zenon DEF delete_aodv_neigh
  <1>2. TaskBag(timers[n]) /\ TaskBag(due[n]) /\ t \in Tasks
    BY DEF Inv, TimersInv, TaskBag
  <1>3. TaskBag(D) /\ TaskBag(B) /\ x \in Nodes
    BY <1>2, TaskBags, TaskTypes
  <1>4. Forgotten => x # n
    BY DEF Inv, NeighInv
  <1> HIDE DEF D, B, x
  <1>5. TimersInv'
    BY <1>1, <1>2, <1>3, TimersStep DEF Inv
  <1>6. NeighInv'
    BY <1>1 DEF Inv, NeighInv
  <1>7. CountersInv'
    BY <1>1, Untouched DEF Inv
  <1>8. CASE Quiet
    <2>1. TablesInv' /\ Grown /\ KnownPackets \subseteq KnownPackets' /\ OnAir(air, Heard')
      BY <1>1, <1>8, TablesAlone
    <2>2. AirInv'
      BY <1>8, <2>1 DEF AirInv
    <2>3. QueueInv' /\ HookInv'
      BY <1>1, <2>1, QueueStep, HookStep DEF Inv
    <2> QED
      BY <1>5, <1>6, <1>7, <2>1, <2>2, <2>3 DEF Inv
  <1>9. CASE Forgotten /\ Broken
    <2>1. x # n
      BY <1>4, <1>9
    <2>2. TablesInv
      BY DEF Inv
    <2>3. n \in DOMAIN rt[n] /\ \A d \in DOMAIN rt[n] : d \in Nodes /\ rt[n][d] \in Routes
      BY <2>2, TableFacts DEF OwnTable
    <2>4. DOMAIN krt = Nodes /\ KernelTable(krt[n], rt[n])
      BY <2>2 DEF TablesInv
    <2>5. /\ DOMAIN r = Still /\ r = [d \in DOMAIN r |-> r[d]]
          /\ \A d \in Still : r[d] = gen_rerr(n, x)[d]
      BY DEF Restrict
    <2>6. DOMAIN k \subseteq Still /\ k \in [DOMAIN k -> Nodes]
      BY <2>4 DEF Restrict, KernelTable
    <2>7. Still \subseteq DOMAIN rt[n] /\ n \in Still
      BY <2>1, <2>3
    <2> HIDE DEF r, k, Still
    <2>8. \A d \in Still : /\ r[d] \in Routes /\ (r[d].valid => r[d] = rt[n][d])
                           /\ d = n => r[d] = rt[n][d]
      BY <1>3, <2>2, <2>5, <2>7, GenRerr
    <2>9. r \in [DOMAIN r -> Routes]
      <3>1. \A d \in DOMAIN r : r[d] \in Routes
        BY <2>5, <2>8
      <3> QED
        BY <2>5, <3>1
    <2>10. NewTables(n, r, [krt EXCEPT ![n] = k])
      <3> DEFINE kk == [krt EXCEPT ![n] = k]
      <3>1. DOMAIN kk = Nodes /\ KernelTable(kk[n], r) /\ \A y \in Nodes \ {n} : kk[y] = krt[y]
        BY <2>4, <2>5, <2>6 DEF KernelTable
      <3> HIDE DEF kk
      <3>2. /\ n \in DOMAIN r /\ DOMAIN r \subseteq DOMAIN rt[n] /\ r[n] = rt[n][n]
            /\ \A d \in DOMAIN r : r[d].valid => r[d] = rt[n][d]
        BY <2>5, <2>7, <2>8
      <3>3. NewTables(n, r, kk)
        BY <2>2, <2>9, <3>1, <3>2, EndedTable
      <3> QED
        BY <3>3 DEF kk
    <2>11. TablesInv' /\ Grown
      BY <1>1, <1>9, <2>2, <2>10, TableStep
    <2>12. KnownPackets \subseteq KnownPackets' /\ OnAir(air, Heard')
      BY <2>11, AirGrows
    <2>13. bad \in SUBSET (Nodes \X Nat)
      <3>1. \A d \in Through(n, x) : d \in Nodes /\ rt[n][d].seq \in Nat
        BY <2>3, RouteTypes DEF Through
      <3> QED
        BY <3>1
    <2> HIDE DEF bad
    <2>14. AirInv'
      <3>1. \A l \in Hops : l[1] = n => Rerr(n, bad) \in Heard'[l]
        BY <2>13, RerrHeard
      <3>2. OnAir(local_broadcast(air, n, Rerr(n, bad)), Heard')
        BY <2>12, <3>1, OnAirBroadcast
      <3> QED
        BY <1>9, <3>2 DEF AirInv
    <2>15. QueueInv' /\ HookInv'
      BY <1>1, <2>12, QueueStep, HookStep DEF Inv
    <2> QED
      BY <1>5, <1>6, <1>7, <2>11, <2>14, <2>15 DEF Inv
  <1> QED
    BY <1>1, <1>8, <1>9

\* A hello is sent.
LEMMA send_helloKeeps ==
    ASSUME Inv, NEW n \in Nodes, send_hello(n)
    PROVE  Inv' /\ Grown
  <1> DEFINE s == rt[n][n].seq
             m == Hello(n, s)
  <1>1. /\ hellos' = hellos + 1 /\ air' = local_broadcast(air, n, m)
        /\ UNCHANGED <<rt, krt, rreq_id, neigh, fresh, flood, timers, due, out, ipq, link, sent, expiries,
                       moves, issued>>
    BY DEF send_hello
  <1>2. /\ TablesInv' /\ Grown /\ KnownPackets \subseteq KnownPackets' /\ OnAir(air, Heard')
        /\ \A d \in Nodes : Hi(d)' = Hi(d)
    BY <1>1, TablesAlone
  <1>3. s \in Nat /\ s <= Hi(n)
    BY TableFacts DEF Inv
  <1>4. PICK v : v = s
    OBVIOUS
  <1>5. v \in Nat /\ v <= Hi(n)'
    BY <1>2, <1>3, <1>4
  <1>6. \A l \in Hops : l[1] = n => Hello(n, v) \in Heard'[l]
    BY <1>5, HelloHeard
  <1>7. OnAir(local_broadcast(air, n, Hello(n, v)), Heard')
    BY <1>2, <1>6, OnAirBroadcast
  <1>8. AirInv'
    BY <1>1, <1>4, <1>7 DEF AirInv
  <1>9. QueueInv' /\ HookInv' /\ NeighInv' /\ TimersInv'
    BY <1>1, <1>2, QueueStep, HookStep, Untouched DEF Inv
  <1>10. CountersInv'
    BY <1>1 DEF Inv, CountersInv
  <1> QED
    BY <1>2, <1>8, <1>9, <1>10 DEF Inv

\* Expired routes are removed.
LEMMA flush_aodv_route_tableKeeps ==
    ASSUME Inv, NEW n \in Nodes, NEW d \in DOMAIN rt[n], flush_aodv_route_table(n, d)
    PROVE  Inv' /\ Grown
  <1> DEFINE Still == DOMAIN rt[n] \ {d}
             t == IF rt[n][d].valid THEN [rt[n] EXCEPT ![d] = expire_aodv_route(rt[n][d])]
                  ELSE Restrict(rt[n], Still)
             k == IF rt[n][d].valid THEN krt ELSE [krt EXCEPT ![n] = Restrict(@, DOMAIN @ \ {d})]
  <1>1. /\ d # n /\ expiries' = expiries + 1
        /\ rt' = [rt EXCEPT ![n] = t] /\ krt' = k
        /\ UNCHANGED <<rreq_id, neigh, fresh, flood, timers, due, out, ipq, link, air, sent, hellos, moves,
                       issued>>
    <2>1. rt' = [rt EXCEPT ![n] = t]
      BY DEF flush_aodv_route_table
    <2>2. krt' = k
      BY DEF flush_aodv_route_table
    <2> QED
      BY <2>1, <2>2 DEF flush_aodv_route_table
  <1>2. TablesInv
    BY DEF Inv
  <1>3. /\ OwnTable(n, rt[n]) /\ n \in DOMAIN rt[n] /\ rt[n] \in [DOMAIN rt[n] -> Routes]
        /\ \A y \in DOMAIN rt[n] : rt[n][y] \in Routes
    BY <1>2, TableFacts DEF OwnTable
  <1>4. DOMAIN krt = Nodes /\ KernelTable(krt[n], rt[n])
    BY <1>2 DEF TablesInv
  <1>5. NewTables(n, t, k)
    <2>1. CASE rt[n][d].valid
      <3> DEFINE e == expire_aodv_route(rt[n][d])
                 u == [rt[n] EXCEPT ![d] = e]
      <3>1. e \in Routes /\ ~e.valid
        BY <1>3, RouteTypes
      <3> HIDE DEF e
      <3>2. /\ DOMAIN u = DOMAIN rt[n] /\ u[d] = e /\ \A y \in DOMAIN rt[n] : y # d => u[y] = rt[n][y]
            /\ u \in [DOMAIN rt[n] -> Routes]
        BY <1>3, <3>1
      <3> HIDE DEF u
      <3>3. NewTables(n, u, krt)
        <4>1. KernelTable(krt[n], u)
          BY <1>4, <3>2 DEF KernelTable
        <4> QED
          BY <1>1, <1>2, <1>3, <1>4, <3>1, <3>2, <4>1, EndedTable
      <3>4. t = u /\ k = krt
        BY <2>1 DEF u, e
      <3> HIDE DEF t, k
      <3> QED
        BY <3>3, <3>4
    <2>2. CASE ~rt[n][d].valid
      <3> DEFINE u == Restrict(rt[n], Still)
                 g == Restrict(krt[n], DOMAIN krt[n] \ {d})
                 kk == [krt EXCEPT ![n] = g]
      <3>1. /\ DOMAIN u = Still /\ u \in [Still -> Routes] /\ \A y \in Still : u[y] = rt[n][y]
        BY <1>3 DEF Restrict
      <3>2. DOMAIN g \subseteq Still /\ g \in [DOMAIN g -> Nodes]
        BY <1>4 DEF Restrict, KernelTable
      <3>3. Still \subseteq DOMAIN rt[n] /\ n \in Still
        BY <1>1, <1>3
      <3> HIDE DEF u, g, Still
      <3>4. DOMAIN kk = Nodes /\ KernelTable(kk[n], u) /\ \A y \in Nodes \ {n} : kk[y] = krt[y]
        BY <1>4, <3>1, <3>2 DEF KernelTable
      <3> HIDE DEF kk
      <3>5. NewTables(n, u, kk)
        BY <1>2, <3>1, <3>3, <3>4, EndedTable
      <3>6. t = u /\ k = kk
        BY <2>2 DEF u, g, kk
      <3> HIDE DEF t, k
      <3> QED
        BY <3>5, <3>6
    <2> QED
      BY <2>1, <2>2
  <1> HIDE DEF t, k
  <1>6. TablesInv' /\ Grown
    BY <1>1, <1>2, <1>5, TableStep
  <1>7. KnownPackets \subseteq KnownPackets' /\ OnAir(air, Heard')
    BY <1>6, AirGrows
  <1>8. AirInv'
    BY <1>1, <1>7 DEF AirInv
  <1>9. QueueInv' /\ HookInv' /\ NeighInv' /\ TimersInv'
    BY <1>1, <1>7, QueueStep, HookStep, Untouched DEF Inv
  <1>10. CountersInv'
    BY <1>1 DEF Inv, CountersInv
  <1> QED
    BY <1>6, <1>8, <1>9, <1>10 DEF Inv

\* A node is restarted with an empty table.
LEMMA RestartKeeps ==
    ASSUME Inv, NEW n \in Nodes, Restart(n)
    PROVE  Inv' /\ Grown
  <1> DEFINE s == IF rt[n][n].seq > issued[n] THEN rt[n][n].seq ELSE issued[n]
             t == [x \in {n} |-> Route(1, n, 0)]
             k == [x \in {n} |-> n]
  <1>1. /\ expiries' = expiries + 1 /\ issued' = [issued EXCEPT ![n] = s]
        /\ rt' = [rt EXCEPT ![n] = t] /\ krt' = [krt EXCEPT ![n] = k]
        /\ rreq_id' = [rreq_id EXCEPT ![n] = 1]
        /\ neigh' = [neigh EXCEPT ![n] = {}] /\ fresh' = [fresh EXCEPT ![n] = {}]
        /\ timers' = [timers EXCEPT ![n] = EmptyBag] /\ due' = [due EXCEPT ![n] = EmptyBag]
        /\ ipq' = [ipq EXCEPT ![n] = <<>>]
        /\ UNCHANGED <<out, link, air, sent, hellos, moves>>
    BY Zenon DEF Restart
  <1>2. \E keep \in BOOLEAN :
           flood' = [x \in Nodes |-> IF x = n THEN {} ELSE {f \in flood[x] : keep \/ f[1] # n}]
    BY Zenon DEF Restart
  <1>3. \A y \in Nodes : Hi(y) \in Nat /\ issued[y] \in Nat /\ rt[y][y].seq \in Nat
    BY TableFacts DEF Inv
  <1>4. TablesInv /\ DOMAIN rt = Nodes /\ DOMAIN krt = Nodes /\ issued \in [Nodes -> Nat]
    BY DEF Inv, TablesInv
  <1>5. Route(1, n, 0) \in Routes /\ Route(1, n, 0).seq = 1 /\ Route(1, n, 0).valid
    BY RouteType
  <1>6. /\ DOMAIN t = {n} /\ t[n] = Route(1, n, 0) /\ t \in [{n} -> Routes]
        /\ k \in [{n} -> Nodes]
    BY <1>5
  <1>7. s \in Nat /\ s = Hi(n)
    BY <1>3 DEF Hi
  <1> HIDE DEF t, k, s
  <1>8. /\ rt'[n] = t /\ krt'[n] = k /\ issued'[n] = s
        /\ DOMAIN rt' = Nodes /\ DOMAIN krt' = Nodes /\ issued' \in [Nodes -> Nat]
        /\ \A y \in Nodes \ {n} : rt'[y] = rt[y] /\ krt'[y] = krt[y] /\ issued'[y] = issued[y]
    BY <1>1, <1>4, <1>7
  <1>9. \A y \in Nodes : Hi(y)' \in Nat /\ Hi(y) <= Hi(y)'
    <2>1. \A y \in Nodes \ {n} : Hi(y)' = Hi(y)
      BY <1>8 DEF Hi
    <2>2. Hi(n)' = IF 1 > s THEN 1 ELSE s
      BY <1>5, <1>6, <1>8 DEF Hi
    <2>3. Hi(n)' \in Nat /\ Hi(n) <= Hi(n)'
      BY <1>7, <2>2
    <2> QED
      BY <1>3, <2>1, <2>3
  <1>10. Hi(n)' >= 1 /\ (issued'[n] = 0 => rt'[n][n] = Route(rt'[n][n].seq, n, 0))
    <2>1. Hi(n)' = IF 1 > s THEN 1 ELSE s
      BY <1>5, <1>6, <1>8 DEF Hi
    <2> QED
      BY <1>5, <1>6, <1>7, <1>8, <2>1
  <1>11. TablesInv'
    <2>1. ASSUME NEW y \in Nodes
          PROVE  OwnTable(y, rt'[y]) /\ KernelTable(krt'[y], rt'[y])
      <3>1. CASE y = n
        BY <1>5, <1>6, <1>8, <3>1 DEF OwnTable, KernelTable
      <3>2. CASE y # n
        BY <1>4, <1>8, <3>2 DEF TablesInv, OwnTable
      <3> QED
        BY <3>1, <3>2
    <2>2. ASSUME NEW y \in Nodes, NEW d \in DOMAIN rt'[y], rt'[y][d].valid
          PROVE  rt'[y][d].seq <= Hi(d)'
      <3>1. CASE y = n
        BY <1>5, <1>6, <1>8, <1>10, <3>1
      <3>2. CASE y # n
        <4>1. d \in DOMAIN rt[y] /\ rt'[y][d] = rt[y][d]
          BY <1>8, <3>2
        <4>2. rt[y][d] \in Routes /\ d \in Nodes /\ rt[y][d].seq <= Hi(d)
          BY <1>4, <2>2, <4>1, TableFacts
        <4>3. rt[y][d].seq \in Nat
          BY <4>2, RouteTypes
        <4> QED
          BY <1>3, <1>9, <4>1, <4>2, <4>3
      <3> QED
        BY <3>1, <3>2
    <2>3. OwnRoute'
      <3>1. \A y \in Nodes \ {n} : issued'[y] = 0 => rt'[y][y] = Route(rt'[y][y].seq, y, 0)
        BY <1>4, <1>8 DEF TablesInv, OwnRoute
      <3> QED
        BY <1>10, <3>1 DEF OwnRoute
    <2> QED
      BY <1>8, <2>1, <2>2, <2>3, Zenon DEF TablesInv
  <1>12. Grown
    BY <1>9 DEF Grown
  <1>13. KnownPackets \subseteq KnownPackets' /\ OnAir(air, Heard')
    BY <1>11, <1>12, AirGrows
  <1>14. AirInv'
    BY <1>1, <1>13 DEF AirInv
  <1>15. QueueInv'
    <2>1. <<>> \in Seq(KnownPackets) /\ Len(<<>>) <= QMAX
      BY AodvAssumption
    <2> QED
      BY <1>1, <1>13, <2>1, QueueStep DEF Inv
  <1>16. HookInv'
    BY <1>1, <1>13, HookStep DEF Inv
  <1>17. NeighInv'
    <2>1. flood' \in [Nodes -> SUBSET (Nodes \X Nat)]
      BY <1>2 DEF Inv, NeighInv
    <2>2. rreq_id' \in [Nodes -> Nat] /\ neigh' \in [Nodes -> SUBSET Nodes] /\ fresh' \in [Nodes -> SUBSET Nodes]
      BY <1>1 DEF Inv, NeighInv
    <2>3. \A y \in Nodes : y \notin neigh'[y] /\ fresh'[y] \subseteq neigh'[y]
      BY <1>1 DEF Inv, NeighInv
    <2> QED
      BY <2>1, <2>2, <2>3 DEF NeighInv
  <1>18. TimersInv'
    <2>1. TaskBag(timers[n])
      BY DEF Inv, TimersInv, TaskBag
    <2>2. TaskBag(EmptyBag)
      BY <2>1, TaskBags
    <2> QED
      BY <1>1, <2>2, TimersStep DEF Inv
  <1>19. CountersInv'
    BY <1>1 DEF Inv, CountersInv
  <1> QED
    BY <1>11, <1>12, <1>14, <1>15, <1>16, <1>17, <1>18, <1>19 DEF Inv

\* The lifetime of a neighbour ends unheard.
LEMMA SilentKeeps ==
    ASSUME Inv, NEW n \in Nodes, NEW x, Silent(n, x)
    PROVE  Inv' /\ Grown
  <1>1. /\ moves' = moves + 1 \/ moves' = moves
        /\ fresh' = [fresh EXCEPT ![n] = @ \ {x}]
        /\ UNCHANGED <<rt, krt, rreq_id, neigh, flood, timers, due, out, ipq, link, air, sent, hellos,
                       expiries, issued>>
    BY DEF Silent
  <1>2. TablesInv' /\ Grown /\ KnownPackets \subseteq KnownPackets' /\ OnAir(air, Heard')
    BY <1>1, TablesAlone
  <1>3. AirInv'
    BY <1>1, <1>2 DEF AirInv
  <1>4. NeighInv'
    BY <1>1 DEF Inv, NeighInv
  <1>5. CountersInv'
    BY <1>1 DEF Inv, CountersInv
  <1>6. QueueInv' /\ HookInv' /\ TimersInv'
    BY <1>1, <1>2, QueueStep, HookStep, Untouched DEF Inv
  <1> QED
    BY <1>2, <1>3, <1>4, <1>5, <1>6 DEF Inv

\* The radio loses a message.
LEMMA LoseKeeps ==
    ASSUME Inv, NEW n \in Nodes, NEW a \in Nodes, Lose(a, n)
    PROVE  Inv' /\ Grown
  <1> DEFINE l == <<a, n>>
  <1>1. /\ a # n /\ air[l] # <<>> /\ air' = Rest(a, n)
        /\ UNCHANGED <<rt, krt, rreq_id, neigh, fresh, flood, timers, due, out, ipq, link, counters, issued>>
    BY DEF Lose
  <1>2. l \in Hops
    BY <1>1 DEF Hops
  <1>3. TablesInv' /\ Grown /\ KnownPackets \subseteq KnownPackets' /\ OnAir(air, Heard')
    BY <1>1, TablesAlone
  <1>4. AirInv'
    <2>1. air' = [air EXCEPT ![l] = Tail(@)]
      BY <1>1 DEF Rest
    <2> HIDE DEF l
    <2>2. OnAir([air EXCEPT ![l] = Tail(@)], Heard')
      BY <1>1, <1>2, <1>3, OnAirRest
    <2> QED
      BY <2>1, <2>2 DEF AirInv
  <1>5. QueueInv' /\ HookInv' /\ NeighInv' /\ TimersInv' /\ CountersInv'
    BY <1>1, <1>3, QueueStep, HookStep, Untouched DEF Inv
  <1> QED
    BY <1>3, <1>4, <1>5 DEF Inv

\* A link appears or goes.
LEMMA MoveKeeps ==
    ASSUME Inv, NEW l \in Movable, Move(l)
    PROVE  Inv' /\ Grown
  <1>1. /\ moves' = moves + 1 /\ link' \subseteq link \cup {l}
        /\ UNCHANGED <<rt, krt, rreq_id, neigh, fresh, flood, timers, due, out, ipq, air, sent, hellos,
                       expiries, issued>>
    BY DEF Move
  <1>2. TablesInv' /\ Grown /\ KnownPackets \subseteq KnownPackets' /\ OnAir(air, Heard')
    BY <1>1, TablesAlone
  <1>3. AirInv'
    BY <1>1, <1>2 DEF AirInv
  <1>4. CountersInv'
    BY <1>1 DEF Inv, CountersInv
  <1>5. QueueInv' /\ HookInv' /\ NeighInv' /\ TimersInv'
    BY <1>1, <1>2, QueueStep, HookStep, Untouched DEF Inv
  <1> QED
    BY <1>2, <1>3, <1>4, <1>5 DEF Inv

\* Nothing happens.
LEMMA StutterKeeps ==
    ASSUME Inv, UNCHANGED vars
    PROVE  Inv' /\ Grown
  <1>1. UNCHANGED <<rt, krt, rreq_id, neigh, fresh, flood, timers, due, out, ipq, link, air, counters,
                    issued>>
    BY DEF vars, counters
  <1>2. TablesInv' /\ Grown /\ KnownPackets \subseteq KnownPackets' /\ OnAir(air, Heard')
    BY <1>1, TablesAlone
  <1>3. AirInv'
    BY <1>1, <1>2 DEF AirInv
  <1>4. QueueInv' /\ HookInv' /\ NeighInv' /\ TimersInv' /\ CountersInv'
    BY <1>1, <1>2, QueueStep, HookStep, Untouched DEF Inv
  <1> QED
    BY <1>2, <1>3, <1>4 DEF Inv

-----------------------------------------------------------------------------
(* What the thread is in.                                                  *)

\* Every node's thread stays in its handler, whose route stays listed, or is
\* in another.
LEMMA TaskStep ==
    ASSUME TaskInv, Inv, TablesInv', Grown, DOMAIN task' = Nodes,
           \A n \in Nodes : \/ task'[n] = {}
                            \/ task'[n] = task[n] /\ DOMAIN rt[n] \subseteq DOMAIN rt'[n]
                            \/ \E w : task'[n] = {w} /\ Working(n, w)'
    PROVE  TaskInv'
  <1>1. \A l \in Hops : Heard[l] \subseteq Heard'[l]
    BY KnownGrows DEF Inv
  <1>2. ASSUME NEW n \in Nodes
        PROVE  (\A w \in task'[n] : Working(n, w)') /\ (\A w, v \in task'[n] : w = v)
    <2>1. CASE task'[n] = {} \/ \E w : task'[n] = {w} /\ Working(n, w)'
      BY <2>1
    <2>2. CASE task'[n] = task[n] /\ DOMAIN rt[n] \subseteq DOMAIN rt'[n]
      <3>1. ASSUME NEW w \in task[n]
            PROVE  Working(n, w)'
        <4>1. Working(n, w)
          BY DEF TaskInv
        <4> QED
          BY <1>1, <2>2, <4>1 DEF Working
      <3>2. \A w, v \in task[n] : w = v
        BY DEF TaskInv
      <3> QED
        BY <2>2, <3>1, <3>2
    <2> QED
      BY <2>1, <2>2
  <1> QED
    BY <1>2 DEF TaskInv

\* A step that leaves the threads in their handlers and takes nothing off the
\* table of a busy node.
LEMMA TaskKept ==
    ASSUME TaskInv, Inv, TablesInv', Grown, UNCHANGED task,
           \A n \in Nodes : task[n] = {} \/ DOMAIN rt[n] \subseteq DOMAIN rt'[n]
    PROVE  TaskInv'
  <1>1. DOMAIN task' = Nodes
    BY DEF TaskInv
  <1> QED
    BY <1>1, TaskStep

\* A step of one node's thread, into a handler, on in it, or out of it.
LEMMA TaskMoves ==
    ASSUME TaskInv, Inv, TablesInv', Grown, NEW n \in Nodes, NEW W, task' = [task EXCEPT ![n] = W],
           W = {} \/ \E w : W = {w} /\ Working(n, w)',
           \A y \in Nodes : y # n => DOMAIN rt[y] \subseteq DOMAIN rt'[y]
    PROVE  TaskInv'
  <1>1. DOMAIN task' = Nodes /\ task'[n] = W /\ \A y \in Nodes : y # n => task'[y] = task[y]
    BY DEF TaskInv
  <1>2. ASSUME NEW y \in Nodes
        PROVE  \/ task'[y] = {}
               \/ task'[y] = task[y] /\ DOMAIN rt[y] \subseteq DOMAIN rt'[y]
               \/ \E w : task'[y] = {w} /\ Working(y, w)'
    BY <1>1
  <1> QED
    BY <1>1, <1>2, TaskStep

\* update_aodv_route takes nothing off the table, and lists the route if it
\* takes it.
LEMMA UpdateLists ==
    ASSUME NEW n, NEW d, NEW x, NEW m, NEW s
    PROVE  /\ DOMAIN rt[n] \subseteq DOMAIN update_aodv_route(n, d, x, m, s)
           /\ ~Refused(n, d, x, m, s) => d \in DOMAIN update_aodv_route(n, d, x, m, s)
  BY DEF update_aodv_route, Put

\* The handler of a message that was heard, when its route has been dealt
\* with.
LEMMA LeftWorks ==
    ASSUME NEW n \in Nodes, NEW d \in Nodes, NEW x, NEW m, NEW s, NEW l \in Hops, NEW msg \in Heard'[l],
           msg.type \in {"RREQ", "RREP"}, msg.type = "RREQ" => msg.ttl > 1,
           rt'[n] = update_aodv_route(n, d, x, m, s)
    PROVE  \E w : Left(n, d, x, m, s, msg) = {w} /\ Working(n, w)'
  <1>0. PICK todo : todo = IF Refused(n, d, x, m, s) THEN "answer" ELSE "route"
    OBVIOUS
  <1> DEFINE w == [todo |-> todo, ip |-> d, m |-> msg]
  <1>1. Left(n, d, x, m, s, msg) = {w}
    BY <1>0 DEF Left
  <1>2. msg \in Messages
    BY DEF Heard
  <1>3. todo \in {"answer", "route"} /\ (todo = "route" => d \in DOMAIN rt'[n])
    BY <1>0, UpdateLists
  <1>4. w \in Works
    BY <1>2, <1>3 DEF Works
  <1>5. w.todo = todo /\ w.ip = d /\ w.m = msg
    OBVIOUS
  <1> HIDE DEF w
  <1>6. Working(n, w)'
    BY <1>3, <1>4, <1>5 DEF Working
  <1> QED
    BY <1>1, <1>6

\* A request changes no list of destinations.
LEMMA RequestLists ==
    ASSUME Inv, NEW n \in Nodes, NEW d, NEW r, Request(n, d, r)
    PROVE  \A y \in Nodes : DOMAIN rt[y] \subseteq DOMAIN rt'[y]
  <1>1. DOMAIN rt = Nodes
    BY DEF Inv, TablesInv
  <1>2. PICK own : rt' = [rt EXCEPT ![n][n].seq = own]
    BY Zenon DEF Request
  <1> QED
    BY <1>1, <1>2

\* The thread takes a message from the network.
LEMMA TaskHears ==
    ASSUME TaskInv, Inv, TablesInv', Grown, NEW n \in Nodes, NEW a \in Nodes,
           recv_rreq(n, a) \/ recv_rrep(n, a)
    PROVE  TaskInv'
  <1> DEFINE Moved(m, d, x, h, s) == /\ rt' = [rt EXCEPT ![n] = update_aodv_route(n, d, x, h, s)]
                                     /\ task' = [task EXCEPT ![n] = Left(n, d, x, h, s, m)]
             Req(m) == ~(m.ttl <= 1) /\ Moved(m, m.src, m.from, m.metric + 1, m.src_seq)
             Rep(m) == Moved(m, m.dst, m.from, m.metric + 1, m.dst_seq)
  <1>1. PICK m : m = Head(air[<<a, n>>])
    OBVIOUS
  <1>2. DOMAIN rt = Nodes
    BY DEF Inv, TablesInv
  <1>3. ASSUME UNCHANGED <<rt, task>>
        PROVE  TaskInv'
    BY <1>3, TaskKept
  <1>4. ASSUME NEW d \in Nodes, NEW x, NEW h, NEW s, Moved(m, d, x, h, s),
               m \in Heard[<<a, n>>], <<a, n>> \in Hops, m.type \in {"RREQ", "RREP"},
               m.type = "RREQ" => m.ttl > 1
        PROVE  TaskInv'
    <2> DEFINE W == Left(n, d, x, h, s, m)
               l == <<a, n>>
    <2>1. rt'[n] = update_aodv_route(n, d, x, h, s) /\ task' = [task EXCEPT ![n] = W]
          /\ \A y \in Nodes : y # n => rt'[y] = rt[y]
      BY <1>2, <1>4
    <2>2. l \in Hops /\ m \in Heard'[l]
      BY <1>4, KnownGrows DEF Inv
    <2> HIDE DEF l
    <2>3. \E w : W = {w} /\ Working(n, w)'
      BY <1>4, <2>1, <2>2, LeftWorks
    <2> HIDE DEF W
    <2> QED
      BY <2>1, <2>3, TaskMoves
  <1>5. CASE recv_rreq(n, a)
    <2>1. UNCHANGED <<rt, task>> \/ Req(Head(air[<<a, n>>]))
      BY <1>5, Zenon DEF recv_rreq
    <2>2. <<a, n>> \in Hops /\ m \in Heard[<<a, n>>] /\ m.type = "RREQ"
      BY <1>1, <1>5, NextHeard DEF Inv, recv_rreq
    <2>3. m.src \in Nodes /\ m.ttl \in Nat
      BY <2>2, HeardFields
    <2> HIDE DEF Req, Moved
    <2>4. UNCHANGED <<rt, task>> \/ Req(m)
      BY <1>1, <2>1
    <2>5. ASSUME Req(m)
          PROVE  TaskInv'
      <3> DEFINE h == m.metric + 1
      <3>1. Moved(m, m.src, m.from, h, m.src_seq) /\ m.ttl > 1
        BY <2>3, <2>5 DEF Req
      <3> HIDE DEF h
      <3> QED
        BY <1>4, <2>2, <2>3, <3>1
    <2> QED
      BY <1>3, <2>4, <2>5
  <1>6. CASE recv_rrep(n, a)
    <2>1. UNCHANGED <<rt, task>> \/ Rep(Head(air[<<a, n>>]))
      BY <1>6, Zenon DEF recv_rrep
    <2>2. <<a, n>> \in Hops /\ m \in Heard[<<a, n>>] /\ m.type = "RREP"
      BY <1>1, <1>6, NextHeard DEF Inv, recv_rrep
    <2>3. m.dst \in Nodes
      BY <2>2, HeardFields
    <2> HIDE DEF Rep, Moved
    <2>4. UNCHANGED <<rt, task>> \/ Rep(m)
      BY <1>1, <2>1
    <2>5. ASSUME Rep(m)
          PROVE  TaskInv'
      <3> DEFINE h == m.metric + 1
      <3>1. Moved(m, m.dst, m.from, h, m.dst_seq)
        BY <2>5 DEF Rep
      <3> HIDE DEF h
      <3> QED
        BY <1>4, <2>2, <2>3, <3>1
    <2> QED
      BY <1>3, <2>4, <2>5
  <1> QED
    BY <1>5, <1>6

\* The thread goes on with its handler.
LEMMA TaskGoesOn ==
    ASSUME TaskInv, Inv, TablesInv', Grown, NEW n \in Nodes, NEW w \in task[n],
           \/ insert_kernel_route_entry(n, w) \/ ipq_send_ip(n, w) \/ ipq_drop_ip(n, w)
           \/ answer_rreq(n, w) \/ forward_rrep(n, w)
    PROVE  TaskInv'
  <1>1. DOMAIN rt = Nodes
    BY DEF Inv, TablesInv
  <1>2. CASE insert_kernel_route_entry(n, w)
    <2> DEFINE v == [w EXCEPT !.todo = "send"]
    <2>1. w.todo = "route" /\ UNCHANGED rt /\ task' = [task EXCEPT ![n] = {v}]
      BY <1>2 DEF insert_kernel_route_entry
    <2>2. Working(n, w)
      BY DEF TaskInv
    <2>3. v \in Works /\ v.todo = "send" /\ v.ip = w.ip /\ v.m = w.m
      BY <2>1, <2>2 DEF Working, Works
    <2> HIDE DEF v
    <2>4. \A l \in Hops : Heard[l] \subseteq Heard'[l]
      BY KnownGrows DEF Inv
    <2>5. Working(n, v)'
      BY <2>1, <2>2, <2>3, <2>4 DEF Working
    <2> QED
      BY <2>1, <2>5, TaskMoves
  <1>3. CASE ipq_send_ip(n, w)
    <2>1. UNCHANGED <<rt, task>>
      BY <1>3 DEF ipq_send_ip
    <2> QED
      BY <2>1, TaskKept
  <1>4. CASE ipq_drop_ip(n, w)
    <2>1. UNCHANGED rt /\ (UNCHANGED task \/ task' = [task EXCEPT ![n] = {}])
      BY <1>4 DEF ipq_drop_ip
    <2> QED
      BY <2>1, TaskKept, TaskMoves
  <1>5. CASE answer_rreq(n, w)
    <2>1. task' = [task EXCEPT ![n] = {}] /\ rt' = [rt EXCEPT ![n] = reply_to_rreq(n, rt[n], w.m)]
      BY <1>5 DEF answer_rreq
    <2>2. \A y \in Nodes : y # n => rt'[y] = rt[y]
      BY <1>1, <2>1
    <2> QED
      BY <2>1, <2>2, TaskMoves
  <1>6. CASE forward_rrep(n, w)
    <2>1. UNCHANGED rt /\ task' = [task EXCEPT ![n] = {}]
      BY <1>6 DEF forward_rrep
    <2> QED
      BY <2>1, TaskMoves
  <1> QED
    BY <1>2, <1>3, <1>4, <1>5, <1>6

\* The thread takes a timer task.
LEMMA TaskDue ==
    ASSUME TaskInv, Inv, TablesInv', Grown, NEW n \in Nodes, NEW t \in DOMAIN due[n],
           resend_rreq(n, t) \/ delete_aodv_neigh(n, t)
    PROVE  TaskInv'
  <1>1. DOMAIN rt = Nodes
    BY DEF Inv, TablesInv
  <1>2. CASE delete_aodv_neigh(n, t)
    <2> DEFINE u == Restrict(gen_rerr(n, t.ip), DOMAIN rt[n] \ {t.ip})
    <2>1. UNCHANGED task /\ task[n] = {}
      BY <1>2 DEF delete_aodv_neigh, Idle
    <2>2. UNCHANGED rt \/ rt' = [rt EXCEPT ![n] = u]
      BY <1>2, Zenon DEF delete_aodv_neigh
    <2> HIDE DEF u
    <2>3. \A y \in Nodes : y = n \/ rt'[y] = rt[y]
      BY <1>1, <2>2
    <2> QED
      BY <2>1, <2>3, TaskKept
  <1>3. CASE resend_rreq(n, t)
    <2> DEFINE v == [todo |-> "drop", ip |-> t.ip, m |-> t]
               own == rt[n][n].seq + 1
    <2>1. \/ task' = [task EXCEPT ![n] = {v}] /\ UNCHANGED rt
          \/ UNCHANGED task /\ Request(n, t.ip, t.retries - 1)
      BY <1>3, Zenon DEF resend_rreq
    <2>2. t \in Tasks
      BY DEF Inv, TimersInv
    <2>3. v \in Works /\ v.todo = "drop"
      BY <2>2, TaskTypes DEF Works
    <2> HIDE DEF v
    <2>4. Working(n, v)'
      BY <2>3 DEF Working
    <2>5. CASE task' = [task EXCEPT ![n] = {v}] /\ UNCHANGED rt
      BY <2>4, <2>5, TaskMoves
    <2>6. CASE UNCHANGED task /\ Request(n, t.ip, t.retries - 1)
      BY <2>6, RequestLists, TaskKept
    <2> QED
      BY <2>1, <2>5, <2>6
  <1> QED
    BY <1>2, <1>3

-----------------------------------------------------------------------------
(* The theorems.                                                           *)

\* The invariant holds when the modules have been loaded ...
LEMMA InitInv ==
    Init => Inv
  <1> SUFFICES ASSUME Init PROVE Inv
    OBVIOUS
  <1> DEFINE Near(n) == {y \in Nodes : {n, y} \in Link}
             base(n) == [x \in Near(n) |-> Route(1, x, 1)]
  <1>1. /\ rt = [n \in Nodes |-> Put(base(n), n, Route(1, n, 0))]
        /\ krt = [n \in Nodes |-> [x \in DOMAIN rt[n] |-> x]]
        /\ rreq_id = [n \in Nodes |-> 1] /\ flood = [n \in Nodes |-> {}]
        /\ neigh = [n \in Nodes |-> Near(n)] /\ fresh = neigh
        /\ timers = [n \in Nodes |-> SetToBag({NEIGHBOR(x) : x \in neigh[n]})]
        /\ due = [n \in Nodes |-> EmptyBag]
        /\ out = [n \in Nodes |-> {}] /\ ipq = [n \in Nodes |-> <<>>]
        /\ air = [l \in Hops |-> <<>>] /\ link = Link
        /\ sent = 0 /\ hellos = 0 /\ expiries = 0 /\ moves = 0
        /\ issued = [n \in Nodes |-> 0]
    BY DEF Init
  <1>2. ASSUME NEW n \in Nodes
        PROVE  n \notin Near(n)
    <2>1. \A l \in Link : \E a, b \in Nodes : a # b /\ l = {a, b}
      BY AodvAssumption
    <2> QED
      BY <2>1
  <1>3. ASSUME NEW n \in Nodes
        PROVE  /\ OwnTable(n, rt[n]) /\ KernelTable(krt[n], rt[n])
               /\ rt[n][n] = Route(1, n, 0) /\ rt[n][n].seq = 1
               /\ \A d \in DOMAIN rt[n] : rt[n][d].seq = 1 /\ d \in Nodes
    <2> DEFINE b == base(n)
               r == Route(1, n, 0)
    <2>1. /\ \A x \in Nodes : Route(1, x, 1) \in Routes /\ Route(1, x, 1).seq = 1
          /\ r \in Routes /\ r.seq = 1 /\ r.valid
      BY RouteType
    <2>2. DOMAIN b \subseteq Nodes /\ b \in [DOMAIN b -> Routes] /\ \A d \in DOMAIN b : b[d].seq = 1
      BY <2>1
    <2>3. rt[n] = Put(b, n, r)
      BY <1>1
    <2>4. krt[n] = [x \in DOMAIN rt[n] |-> x]
      BY <1>1
    <2> HIDE DEF b, r
    <2>5. /\ rt[n] \in [DOMAIN b \cup {n} -> Routes] /\ rt[n][n] = r
          /\ \A d \in DOMAIN rt[n] : rt[n][d].seq = 1
      BY <2>1, <2>2, <2>3 DEF Put
    <2>6. DOMAIN rt[n] = DOMAIN b \cup {n}
      BY <2>5
    <2>7. OwnTable(n, rt[n])
      BY <2>1, <2>2, <2>5, <2>6 DEF OwnTable
    <2> QED
      BY <2>1, <2>2, <2>4, <2>5, <2>6, <2>7 DEF r, KernelTable
  <1>4. TablesInv
    <2>1. \A d \in Nodes : Hi(d) = 1
      <3>1. \A d \in Nodes : issued[d] = 0 /\ rt[d][d].seq = 1
        BY <1>1, <1>3
      <3> QED
        BY <3>1 DEF Hi
    <2>2. OwnRoute
      BY <1>3 DEF OwnRoute
    <2>3. DOMAIN rt = Nodes /\ DOMAIN krt = Nodes /\ issued \in [Nodes -> Nat]
      BY <1>1
    <2>4. \A n \in Nodes : \A d \in DOMAIN rt[n] : rt[n][d].valid => rt[n][d].seq <= Hi(d)
      BY <1>3, <2>1
    <2> QED
      BY <1>3, <2>2, <2>3, <2>4, Zenon DEF TablesInv
  <1>5. NeighInv
    <2> HIDE DEF Near
    <2>1. \A n \in Nodes : Near(n) \in SUBSET Nodes /\ n \notin Near(n)
      BY <1>2 DEF Near
    <2> QED
      BY <1>1, <2>1 DEF NeighInv
  <1>6. TimersInv
    <2>1. ASSUME NEW n \in Nodes
          PROVE  /\ IsABag(timers[n]) /\ DOMAIN timers[n] \subseteq Tasks
                 /\ IsABag(due[n]) /\ DOMAIN due[n] \subseteq Tasks
      <3> DEFINE S == {NEIGHBOR(x) : x \in neigh[n]}
      <3>1. S \subseteq Tasks
        BY <1>1, TaskTypes
      <3>2. timers[n] = SetToBag(S) /\ due[n] = EmptyBag
        BY <1>1
      <3> HIDE DEF S
      <3> QED
        BY <3>1, <3>2 DEF IsABag, SetToBag, EmptyBag
    <2> QED
      BY <1>1, <2>1 DEF TimersInv
  <1>7. HookInv /\ QueueInv
    <2>1. <<>> \in Seq(KnownPackets) /\ Len(<<>>) <= QMAX
      BY AodvAssumption
    <2> QED
      BY <1>1, <2>1 DEF HookInv, QueueInv
  <1>8. AirInv
    BY <1>1 DEF AirInv, OnAir
  <1>9. CountersInv
    <2>1. Len(Sends) \in Nat
      BY AodvAssumption
    <2> QED
      BY <1>1, <2>1 DEF CountersInv
  <1> QED
    BY <1>4, <1>5, <1>6, <1>7, <1>8, <1>9 DEF Inv

\* ... the threads are in nothing ...
LEMMA InitTask ==
    Init => TaskInv
  BY DEF Init, TaskInv

\* ... every step keeps it ...
LEMMA NextInv ==
    Inv /\ TaskInv /\ [Next]_vars => Inv' /\ TaskInv'
  <1> SUFFICES ASSUME Inv, TaskInv, [Next]_vars
               PROVE  Inv' /\ TaskInv'
    OBVIOUS
  <1> DEFINE Kept1 == \A n \in Nodes : task[n] = {} \/ DOMAIN rt[n] \subseteq DOMAIN rt'[n]
  <1>0. DOMAIN rt = Nodes
    BY DEF Inv, TablesInv
  <1>1. ASSUME Inv', Grown, UNCHANGED task, Kept1
        PROVE  Inv' /\ TaskInv'
    <2>1. TablesInv'
      BY <1>1 DEF Inv
    <2> QED
      BY <1>1, <2>1, TaskKept
  <1>2. UNCHANGED rt => Kept1
    OBVIOUS
  <1>3. CASE SendData
    <2>1. UNCHANGED <<rt, task>>
      BY <1>3 DEF SendData
    <2> QED
      BY <1>1, <1>2, <1>3, <2>1, SendDataKeeps
  <1>4. ASSUME NEW n \in Nodes, NEW e \in out[n], Accept(n, e) \/ gen_rreq(n, e) \/ ipq_enqueue(n, e)
        PROVE  Inv' /\ TaskInv'
    <2>1. CASE Accept(n, e) \/ ipq_enqueue(n, e)
      <3>1. UNCHANGED <<rt, task>>
        BY <2>1 DEF Accept, ipq_enqueue
      <3> QED
        BY <1>1, <1>2, <2>1, <3>1, AcceptKeeps, ipq_enqueueKeeps
    <2>2. CASE gen_rreq(n, e)
      <3>1. UNCHANGED task /\ (UNCHANGED rt \/ Request(n, e.p.ip_dst, RREQ_RETRIES))
        BY <2>2, Zenon DEF gen_rreq
      <3>2. Kept1
        BY <3>1, RequestLists
      <3> HIDE DEF Kept1
      <3> QED
        BY <1>1, <2>2, <3>1, <3>2, gen_rreqKeeps
    <2> QED
      BY <1>4, <2>1, <2>2
  <1>5. ASSUME NEW n \in Nodes, NEW a \in Nodes,
               \/ RecvData(n, a) \/ recv_rreq(n, a) \/ recv_rrep(n, a) \/ recv_hello(n, a)
               \/ recv_rerr(n, a) \/ Lose(a, n)
        PROVE  Inv' /\ TaskInv'
    <2>1. CASE RecvData(n, a) \/ Lose(a, n)
      <3>1. UNCHANGED <<rt, task>>
        BY <2>1 DEF RecvData, Lose
      <3> QED
        BY <1>1, <1>2, <2>1, <3>1, RecvDataKeeps, LoseKeeps
    <2>2. CASE recv_rreq(n, a) \/ recv_rrep(n, a)
      <3>1. Inv' /\ Grown
        BY <2>2, recv_rreqKeeps, recv_rrepKeeps
      <3>2. TablesInv'
        BY <3>1 DEF Inv
      <3> QED
        BY <2>2, <3>1, <3>2, TaskHears
    <2>3. CASE recv_hello(n, a) \/ recv_rerr(n, a)
      <3>1. UNCHANGED task /\ task[n] = {}
        BY <2>3 DEF recv_hello, recv_rerr, Idle
      <3>2. \E u : rt' = [rt EXCEPT ![n] = u]
        BY <2>3, Zenon DEF recv_hello, recv_rerr
      <3>3. Kept1
        BY <1>0, <3>1, <3>2
      <3> HIDE DEF Kept1
      <3> QED
        BY <1>1, <2>3, <3>1, <3>3, recv_helloKeeps, recv_rerrKeeps
    <2> QED
      BY <1>5, <2>1, <2>2, <2>3
  <1>6. ASSUME NEW n \in Nodes, NEW w \in task[n],
               \/ insert_kernel_route_entry(n, w) \/ ipq_send_ip(n, w) \/ ipq_drop_ip(n, w)
               \/ answer_rreq(n, w) \/ forward_rrep(n, w)
        PROVE  Inv' /\ TaskInv'
    <2>1. Inv' /\ Grown
      BY <1>6, insert_kernel_route_entryKeeps, ipq_send_ipKeeps, ipq_drop_ipKeeps, answer_rreqKeeps,
         forward_rrepKeeps
    <2>2. TablesInv'
      BY <2>1 DEF Inv
    <2> QED
      BY <1>6, <2>1, <2>2, TaskGoesOn
  <1>7. ASSUME NEW n \in Nodes, NEW t \in DOMAIN timers[n], TimerFires(n, t)
        PROVE  Inv' /\ TaskInv'
    <2>1. UNCHANGED <<rt, task>>
      BY <1>7 DEF TimerFires
    <2> QED
      BY <1>1, <1>2, <1>7, <2>1, TimerFiresKeeps
  <1>8. ASSUME NEW n \in Nodes, NEW t \in DOMAIN due[n], resend_rreq(n, t) \/ delete_aodv_neigh(n, t)
        PROVE  Inv' /\ TaskInv'
    <2>1. Inv' /\ Grown
      BY <1>8, resend_rreqKeeps, delete_aodv_neighKeeps
    <2>2. TablesInv'
      BY <2>1 DEF Inv
    <2> QED
      BY <1>8, <2>1, <2>2, TaskDue
  <1>9. ASSUME NEW n \in Nodes, send_hello(n)
        PROVE  Inv' /\ TaskInv'
    <2>1. UNCHANGED <<rt, task>>
      BY <1>9 DEF send_hello
    <2> QED
      BY <1>1, <1>2, <1>9, <2>1, send_helloKeeps
  <1>10. ASSUME NEW n \in Nodes, NEW d \in DOMAIN rt[n], flush_aodv_route_table(n, d)
         PROVE  Inv' /\ TaskInv'
    <2> DEFINE e == expire_aodv_route(rt[n][d])
               u == Restrict(rt[n], DOMAIN rt[n] \ {d})
    <2>1. /\ UNCHANGED task
          /\ \/ rt' = [rt EXCEPT ![n] = [rt[n] EXCEPT ![d] = e]]
             \/ task[n] = {} /\ rt' = [rt EXCEPT ![n] = u]
      <3>1. /\ UNCHANGED task /\ (rt[n][d].valid \/ task[n] = {})
            /\ rt' = [rt EXCEPT ![n] = IF rt[n][d].valid THEN [rt[n] EXCEPT ![d] = e] ELSE u]
        BY <1>10 DEF flush_aodv_route_table
      <3> HIDE DEF e, u
      <3> QED
        BY <3>1
    <2> HIDE DEF e, u
    <2>2. Kept1
      BY <1>0, <2>1
    <2> HIDE DEF Kept1
    <2> QED
      BY <1>1, <1>10, <2>1, <2>2, flush_aodv_route_tableKeeps
  <1>11. ASSUME NEW n \in Nodes, NEW x \in fresh[n], Silent(n, x)
         PROVE  Inv' /\ TaskInv'
    <2>1. UNCHANGED <<rt, task>>
      BY <1>11 DEF Silent
    <2> QED
      BY <1>1, <1>2, <1>11, <2>1, SilentKeeps
  <1>12. ASSUME NEW l \in Movable, Move(l)
         PROVE  Inv' /\ TaskInv'
    <2>1. UNCHANGED <<rt, task>>
      BY <1>12 DEF Move
    <2> QED
      BY <1>1, <1>2, <1>12, <2>1, MoveKeeps
  <1>13. ASSUME NEW n \in Nodes, Restart(n)
         PROVE  Inv' /\ TaskInv'
    <2>1. UNCHANGED task /\ task[n] = {} /\ \E u : rt' = [rt EXCEPT ![n] = u]
      BY <1>13, Zenon DEF Restart
    <2>2. Kept1
      BY <1>0, <2>1
    <2> HIDE DEF Kept1
    <2> QED
      BY <1>1, <1>13, <2>1, <2>2, RestartKeeps
  <1>14. CASE UNCHANGED vars
    <2>1. UNCHANGED <<rt, task>>
      BY <1>14 DEF vars
    <2> QED
      BY <1>1, <1>2, <1>14, <2>1, StutterKeeps
  <1> QED
    BY <1>3, <1>4, <1>5, <1>6, <1>7, <1>8, <1>9, <1>10, <1>11, <1>12, <1>13, <1>14 DEF Next

\* ... and so it always holds.
LEMMA Invariance ==
    Spec => [](Inv /\ TaskInv)
  BY InitInv, InitTask, NextInv, PTL DEF Spec

\* Every variable keeps its type, whatever the handlers, the timers and the
\* radio do: a node's table always lists a valid route to the node itself, the
\* kernel has routes only to what the table lists, also while update_aodv_route
\* is under way, the route the thread is telling the kernel of or sending
\* packets along is in the table until it is done, and the packet queue
\* (ipq_enqueue) stays within its limit.
THEOREM TypeCorrect ==
    Spec => []TypeOK
  <1>1. Inv /\ TaskInv => TypeOK
    <2> SUFFICES ASSUME Inv, TaskInv PROVE TypeOK
      OBVIOUS
    <2>1. /\ DOMAIN rt = Nodes /\ DOMAIN krt = Nodes /\ issued \in [Nodes -> Nat]
          /\ \A n \in Nodes :
                /\ DOMAIN rt[n] \subseteq Nodes /\ rt[n] \in [DOMAIN rt[n] -> Routes]
                /\ n \in DOMAIN rt[n] /\ rt[n][n].valid
                /\ DOMAIN krt[n] \subseteq DOMAIN rt[n] /\ krt[n] \in [DOMAIN krt[n] -> Nodes]
      BY Zenon DEF Inv, TablesInv, OwnTable, KernelTable
    <2>2. /\ out \in [Nodes -> SUBSET [p : Packets, queue : BOOLEAN]]
          /\ ipq \in [Nodes -> Seq(Packets)] /\ \A n \in Nodes : Len(ipq[n]) <= QMAX
      <3>1. KnownPackets \subseteq Packets
        BY DEF KnownPackets
      <3>2. \A n \in Nodes : /\ ipq[n] \in Seq(KnownPackets)
                             /\ out[n] \in SUBSET [p : KnownPackets, queue : BOOLEAN]
        BY DEF Inv, QueueInv, HookInv
      <3> DEFINE K == KnownPackets
      <3>3. \A s \in Seq(K) : s \in Seq(Packets)
        BY <3>1
      <3>4. \A e \in [p : K, queue : BOOLEAN] : e \in [p : Packets, queue : BOOLEAN]
        BY <3>1
      <3> HIDE DEF K
      <3>5. \A n \in Nodes : /\ ipq[n] \in Seq(Packets)
                             /\ out[n] \in SUBSET [p : Packets, queue : BOOLEAN]
        BY <3>2, <3>3, <3>4 DEF K
      <3> QED
        BY <3>5 DEF Inv, QueueInv, HookInv
    <2>3. DOMAIN air = Hops
      BY DEF Inv, AirInv, OnAir
    <2>4. ASSUME NEW l \in Hops
          PROVE  /\ air[l] \in Seq(Messages)
                 /\ \A i \in DOMAIN air[l] :
                       air[l][i].type \in {"RREQ", "HELLO", "RERR"} => air[l][i].from = l[1]
      <3>1. air[l] \in Seq(Heard[l])
        BY DEF Inv, AirInv, OnAir
      <3>2. \A m \in Heard[l] : m \in Messages /\ (m.type \in {"RREQ", "HELLO", "RERR"} => m.from = l[1])
        BY HeardFields
      <3> DEFINE H == Heard[l]
      <3> HIDE DEF H
      <3>3. air[l] \in Seq(H) /\ \A m \in H : m \in Messages /\ (m.type \in {"RREQ", "HELLO", "RERR"} => m.from = l[1])
        BY <3>1, <3>2 DEF H
      <3>4. \A i \in DOMAIN air[l] : air[l][i] \in H
        BY <3>3
      <3> QED
        BY <3>3, <3>4
    <2>5. /\ DOMAIN task = Nodes
          /\ \A n \in Nodes :
                /\ task[n] \subseteq Works /\ \A w, v \in task[n] : w = v
                /\ \A w \in task[n] : w.todo \in {"route", "send"} => w.ip \in DOMAIN rt[n]
      BY DEF TaskInv, Working
    <2> QED
      BY <2>1, <2>2, <2>3, <2>4, <2>5, Zenon DEF TypeOK, Inv, NeighInv, TimersInv, CountersInv
  <1> QED
    BY <1>1, Invariance, PTL

\* The own route of a node that was never restarted stays as aodv_dev.c made
\* it but for its number, whatever requests, replies, errors and expiries do.
THEOREM OwnRouteKept ==
    Spec => []OwnRoute
  <1>1. Inv => OwnRoute
    BY DEF Inv, TablesInv
  <1> QED
    BY <1>1, Invariance, PTL

\* No valid route is newer than its destination, in any network: lost
\* messages, restarts and the numbers made up by expire_aodv_route and
\* recv_rerr never make a stale route pass for a fresh one.
THEOREM NotNewer ==
    Spec => []ValidNotNewer
  <1>1. Inv => ValidNotNewer
    <2> SUFFICES ASSUME Inv PROVE ValidNotNewer
      OBVIOUS
    <2>1. \A n, x \in Nodes : x \in DOMAIN rt[n] /\ rt[n][x].valid => rt[n][x].seq <= Hi(x)
      BY DEF Inv, TablesInv
    <2> QED
      BY <2>1 DEF ValidNotNewer, Hi
  <1> QED
    BY <1>1, Invariance, PTL
====
