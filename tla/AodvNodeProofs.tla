-------------------------- MODULE AodvNodeProofs --------------------------
(***************************************************************************)
(* Whatever hook, thread and rmmod do, the route list stays linked and     *)
(* sorted and the kernel's routes stay those it lists, but for the hosts   *)
(* of the local subnet; and the queue of AodvNode behaves as PacketQueue   *)
(* says, so its theorems hold of the node.                                 *)
(***************************************************************************)
EXTENDS AodvNode, PacketQueueProofs, SublistProofs

-----------------------------------------------------------------------------
(* What a route list is.                                                   *)

RouteEntry ==
    [ip : Addresses, next : Cells \cup {NULL}, prev : Cells \cup {NULL}, self : BOOLEAN, seq : Nat,
     next_hop : Addresses, metric : Nat, valid : BOOLEAN, netmask : SUBSET Addresses, overdue : BOOLEAN]

\* A record with allocated cells.
Shape(t) ==
    /\ t = [head |-> t.head, cell |-> t.cell]
    /\ DOMAIN t.cell \subseteq Cells /\ t.cell \in [DOMAIN t.cell -> RouteEntry]

\* The cells are linked in the order of w, both ways, and all of them are
\* there; the addresses rise.
Chain(t, w) ==
    /\ w \in Seq(DOMAIN t.cell)
    /\ t.head = IF Len(w) = 0 THEN NULL ELSE w[1]
    /\ \A i \in 1 .. Len(w) : /\ t.cell[w[i]].next = IF i = Len(w) THEN NULL ELSE w[i + 1]
                             /\ t.cell[w[i]].prev = IF i = 1 THEN NULL ELSE w[i - 1]
    /\ \A c \in DOMAIN t.cell : \E i \in 1 .. Len(w) : w[i] = c
    /\ \A i, j \in 1 .. Len(w) : i < j => t.cell[w[i]].ip < t.cell[w[j]].ip

\* The nodes and hosts the daemon makes entries for.
Others == Hops \cup Locals

\* No netmask reaches below its own address, that of one of them reaches
\* nothing else, and the daemon's own routes leave its neighbours alone.
Masked(r) ==
    /\ r.ip \in r.netmask /\ \A x \in r.netmask : r.ip <= x
    /\ IF r.self THEN r.ip \in {LO, ME, SUBNET} /\ r.netmask \cap Hops = {}
       ELSE r.ip \in Others /\ r.netmask = {r.ip}

TableInv(t) == Shape(t) /\ Chain(t, Walk(t)) /\ \A c \in DOMAIN t.cell : Masked(t.cell[c])

\* The entries for nodes; those of reply_to_rreq are for local hosts.
Learnt(t) == {c \in DOMAIN t.cell : ~t.cell[c].self /\ t.cell[c].ip \notin SUBNETMASK}

\* The kernel's routes are the daemon's own and those to what it has learnt.
Mirrored(t, k, own) ==
    /\ DOMAIN k = own \cup {t.cell[c].ip : c \in Learnt(t)} /\ \A d \in DOMAIN k : k[d] \in Addresses
    /\ \A c \in Learnt(t) : \/ k[t.cell[c].ip] = t.cell[c].next_hop
                             \/ t.cell[c].next_hop = t.cell[c].ip

\* The thread lets packets go to the route it has just put in.
Sending ==
    /\ drain["thread"].op # "flush"
    /\ drain["thread"].op = "send" =>
         LET c == FoundCell(table, drain["thread"].ip)
         IN  /\ drain["thread"].ip \in Hops /\ c # NULL
             /\ kernel[drain["thread"].ip] = table.cell[c].next_hop
    /\ drain["thread"].e # None => Dst[drain["thread"].e] = drain["thread"].ip

\* How far rmmod is.
Unloading ==
    /\ verdict \in [Entries -> {"none", "NF_ACCEPT", "NF_QUEUE"}]
    /\ rmmod \in {"loaded", "unhooking", "unhooked", "killed", "gone"}
    /\ rmmod \in {"killed", "gone"} => drain["thread"].op = "idle"
    /\ IF rmmod = "gone" THEN table = Empty /\ phase = "freed"
       ELSE \E c \in DOMAIN table.cell : table.cell[c].ip = ME

NodeInv ==
    /\ TableInv(table)
    /\ Mirrored(table, kernel, IF rmmod = "gone" THEN {} ELSE {ME})
    /\ Sending /\ Unloading

-----------------------------------------------------------------------------
(* The queue.                                                              *)

\* A packet on its way out (output_handler, netfilter) takes a step of the
\* queue or none.
LEMMA PacketSteps ==
    ASSUME NEW e \in Entries, output_handler(e) \/ NfQueue(e)
    PROVE  [QNext]_qvars
  BY DEF output_handler, NfQueue, QNext

\* So do the thread's handlers, which use the queue in the thread only ...
LEMMA ThreadSteps ==
    ASSUME Handler \/ ThreadLoop \/ Time
    PROVE  [QNext]_qvars
  <1>1. "thread" \in Contexts
    BY AodvNodeAssumption
  <1>2. CASE Handler
    BY <1>1, <1>2 DEF Handler, QueueHandler, QNext
  <1>3. CASE ThreadLoop
    BY <1>1, <1>3 DEF ThreadLoop, QNext, Drainers
  <1>4. CASE Time
    BY <1>4 DEF Time
  <1> QED  BY <1>2, <1>3, <1>4

\* ... and cleanup_module.
LEMMA RmmodSteps ==
    ASSUME Rmmod
    PROVE  [QNext]_qvars
  BY DEF Rmmod, UnregisterHook, HookGone, kill_aodv, cleanup_packet_queue, CleanUpTable, QNext,
         Drainers

\* The node's queue is a PacketQueue.
THEOREM NodeImplementsQueue == Spec => QSpec
  <1>1. Init => QInit
    BY DEF Init
  <1>2. [Next]_vars => [QNext]_qvars
    BY PacketSteps, ThreadSteps, RmmodSteps DEF Next, vars
  <1> QED  BY <1>1, <1>2, PTL DEF Spec, QSpec

\* On a node with its hook, thread and rmmod no entry is lost or held twice
\* (ipq_enqueue, ipq_dequeue, nf_reinject).
THEOREM NodeHoldsOnce == Spec => []HeldOnce
  BY NodeImplementsQueue, EntriesHeldOnce, PTL

\* cleanup_module frees q when nothing uses it any more.
THEOREM NodeFreesUnused == Spec => []NoUseAfterFree
  BY NodeImplementsQueue, FreedUnused, PTL

\* The node takes the packets of a flow out in the order in which they came.
THEOREM NodeTakesInOrder == Spec => []TakenInOrder
  BY NodeImplementsQueue, FlowsInOrder, PTL

-----------------------------------------------------------------------------
(* Lists and their walks.                                                  *)

\* What an entry is made of.
LEMMA EntryTypes ==
    ASSUME NEW t, Shape(t), NEW c \in DOMAIN t.cell
    PROVE  /\ t.cell[c] \in RouteEntry /\ c \in Cells
           /\ t.cell[c].ip \in Nat /\ t.cell[c].ip \in Addresses /\ t.cell[c].netmask \subseteq Nat
           /\ t.cell[c].next_hop \in Addresses
  <1>1. Addresses \subseteq Nat
    BY RouteTableAssumption
  <1>2. t.cell[c] \in RouteEntry /\ c \in Cells
    BY DEF Shape
  <1> QED  BY <1>1, <1>2 DEF RouteEntry

\* A sequence without repetitions over the cells is no longer than there
\* are cells.
LEMMA NoLonger ==
    ASSUME NEW S, IsFiniteSet(S), NEW w \in Seq(S),
           \A i, j \in 1 .. Len(w) : i < j => w[i] # w[j]
    PROVE  Len(w) <= Cardinality(S) /\ Cardinality(S) \in Nat
  <1> DEFINE D == 1 .. Len(w)
  <1>1. Len(w) \in Nat /\ \A i \in D : w[i] \in S
    OBVIOUS
  <1>2. IsFiniteSet(D) /\ Cardinality(D) = Len(w)
    <2>1. /\ IsFiniteSet(1 .. Len(w))
          /\ Cardinality(1 .. Len(w)) = IF 1 > Len(w) THEN 0 ELSE Len(w) - 1 + 1
      BY <1>1, FS_Interval, SMTT(20)
    <2> QED  BY <1>1, <2>1
  <1>3. w \in Injection(D, S)
    <2>1. w \in [D -> S]
      OBVIOUS
    <2>2. ASSUME NEW i \in D, NEW j \in D, w[i] = w[j] PROVE i = j
      <3>1. ~(i < j) /\ ~(j < i)
        BY <2>2
      <3> QED  BY <3>1
    <2> QED  BY <2>1, <2>2 DEF Injection, IsInjective
  <1>4. Cardinality(D) <= Cardinality(S)
    BY <1>3, FS_Injection
  <1>5. Cardinality(S) \in Nat
    BY FS_CardinalityType
  <1> QED  BY <1>2, <1>4, <1>5

\* The list has one order: a walk goes through it (find_aodv_route and
\* insert_aodv_route follow next from the head).
LEMMA WalkOf ==
    ASSUME NEW t, NEW w, Shape(t), Chain(t, w)
    PROVE  Walk(t) = w
  <1> DEFINE L == Len(w)
             K == Cardinality(Cells)
             N == 1 .. K
             f == [n \in N |-> IF n <= L THEN w[n] ELSE NULL]
  <1>0. /\ DOMAIN t.cell \subseteq Cells /\ IsFiniteSet(Cells) /\ NULL \notin Cells
        /\ \A c \in DOMAIN t.cell : t.cell[c].ip \in Nat
    BY EntryTypes, RouteTableAssumption DEF Shape
  <1>1. w \in Seq(DOMAIN t.cell) /\ L \in Nat
    BY DEF Chain
  <1>2. L <= K /\ K \in Nat
    <2>1. w \in Seq(Cells)
      BY <1>0, <1>1
    <2>2. \A i, j \in 1 .. L : i < j => w[i] # w[j]
      <3> TAKE i, j \in 1 .. L
      <3>1. i < j => t.cell[w[i]].ip < t.cell[w[j]].ip
        BY DEF Chain
      <3>2. w[i] \in DOMAIN t.cell
        BY <1>1
      <3> QED  BY <1>0, <3>1, <3>2
    <2> QED  BY <1>0, <2>1, <2>2, NoLonger
  <1>3. \A n \in 1 .. L : w[n] \in DOMAIN t.cell /\ w[n] # NULL
    BY <1>0, <1>1
  <1>4. \A n \in N : f[n] = IF n = 1 THEN t.head ELSE Links(t)[f[n - 1]]
    <2> TAKE n \in N
    <2>1. CASE n = 1
      BY <2>1, <1>1 DEF Chain
    <2>2. CASE n # 1
      <3>1. n - 1 \in N /\ n - 1 + 1 = n
        BY <2>2, <1>2
      <3>2. CASE n - 1 <= L
        <4>1. f[n - 1] = w[n - 1] /\ n - 1 \in 1 .. L
          BY <3>1, <3>2
        <4>2. Links(t)[f[n - 1]] = t.cell[w[n - 1]].next
          BY <4>1, <1>3 DEF Links
        <4>3. t.cell[w[n - 1]].next = IF n - 1 = L THEN NULL ELSE w[n - 1 + 1]
          BY <4>1 DEF Chain
        <4>4. f[n] = IF n - 1 = L THEN NULL ELSE w[n]
          BY <1>1, <1>2, <3>1, <3>2
        <4> QED  BY <2>2, <3>1, <4>2, <4>3, <4>4
      <3>3. CASE ~(n - 1 <= L)
        <4>1. f[n - 1] = NULL /\ f[n] = NULL
          BY <1>1, <1>2, <3>1, <3>3
        <4>2. Links(t)[NULL] = NULL
          BY DEF Links
        <4> QED  BY <2>2, <4>1, <4>2
      <3> QED  BY <3>2, <3>3
    <2> QED  BY <2>1, <2>2
  <1> DEFINE At == CHOOSE g : g = [n \in N |-> IF n = 1 THEN t.head ELSE Links(t)[g[n - 1]]]
  <1>5. f = [n \in N |-> IF n = 1 THEN t.head ELSE Links(t)[f[n - 1]]]
    BY <1>4
  <1>6. \E g : g = [n \in N |-> IF n = 1 THEN t.head ELSE Links(t)[g[n - 1]]]
    <2> HIDE DEF f
    <2> QED  BY <1>5
  <1>7. At = [n \in N |-> IF n = 1 THEN t.head ELSE Links(t)[At[n - 1]]]
    BY <1>6
  <1>8. Walk(t) = [i \in {n \in N : At[n] # NULL} |-> At[i]]
    BY DEF Walk
  <1> HIDE DEF At
  <1>9. \A n \in N : At[n] = f[n]
    <2> DEFINE T == {n \in N : At[n] # f[n]}
    <2>1. T \in SUBSET Nat
      OBVIOUS
    <2> SUFFICES ASSUME T # {} PROVE FALSE
      OBVIOUS
    <2>2. PICK n \in T : \A y \in T : n <= y
      BY <2>1, LeastNat
    <2>3. n # 1
      BY <1>4, <1>7, <1>2
    <2>4. n - 1 \in N /\ n - 1 < n
      BY <1>2, <2>3
    <2>5. n - 1 \notin T
      BY <2>2, <2>4, <1>2
    <2>6. At[n - 1] = f[n - 1]
      BY <2>4, <2>5
    <2>7. At[n] = Links(t)[At[n - 1]] /\ f[n] = Links(t)[f[n - 1]]
      BY <2>3, <1>4, <1>7
    <2> QED  BY <2>6, <2>7
  <1>10. {n \in N : At[n] # NULL} = 1 .. L
    BY <1>1, <1>2, <1>3, <1>9
  <1>11. \A n \in 1 .. L : At[n] = w[n]
    BY <1>1, <1>2, <1>9
  <1>12. w = [i \in 1 .. L |-> w[i]]
    BY <1>1
  <1>13. [i \in {n \in N : At[n] # NULL} |-> At[i]] = [i \in 1 .. L |-> w[i]]
    BY <1>10, <1>11, Zenon
  <1> QED  BY <1>8, <1>12, <1>13

\* The last of some positions.
LEMMA LastIs ==
    ASSUME NEW w, NEW n \in Nat, NEW S \in SUBSET (1 .. n), S # {}
    PROVE  \E i \in S : LastOf(w, S) = w[i] /\ \A j \in S : j <= i
  <1> DEFINE T == {n - i : i \in S}
  <1>1. \A i \in S : i \in Nat /\ n - i \in Nat /\ n - i \in T
    OBVIOUS
  <1>2. T \in SUBSET Nat /\ T # {}
    BY <1>1
  <1>3. PICK x \in T : \A y \in T : x <= y
    BY <1>2, LeastNat
  <1>4. PICK i \in S : x = n - i
    OBVIOUS
  <1>5. \A j \in S : n - i <= n - j
    BY <1>1, <1>3, <1>4
  <1>6. \A j \in S : j <= i
    BY <1>1, <1>5
  <1> DEFINE m == CHOOSE k \in S : \A j \in S : j <= k
  <1>7. m \in S /\ \A j \in S : j <= m
    BY <1>6
  <1> QED  BY <1>7 DEF LastOf

\* Every address is listed once.
LEMMA Listed ==
    ASSUME NEW t, TableInv(t), NEW c \in DOMAIN t.cell, NEW b \in DOMAIN t.cell, t.cell[c].ip = t.cell[b].ip
    PROVE  c = b
  <1> DEFINE w == Walk(t)
  <1>1. Chain(t, w) /\ Shape(t)
    BY DEF TableInv
  <1> HIDE DEF w
  <1>2. PICK i \in 1 .. Len(w) : w[i] = c
    BY <1>1 DEF Chain
  <1>3. PICK j \in 1 .. Len(w) : w[j] = b
    BY <1>1 DEF Chain
  <1>4. /\ i < j => t.cell[c].ip < t.cell[b].ip
        /\ j < i => t.cell[b].ip < t.cell[c].ip
    BY <1>1, <1>2, <1>3 DEF Chain
  <1>5. t.cell[c].ip \in Nat
    BY <1>1, EntryTypes
  <1>6. ~(i < j) /\ ~(j < i)
    BY <1>4, <1>5
  <1>7. i = j
    BY <1>6
  <1> QED  BY <1>2, <1>3, <1>7

\* What find_aodv_route returns: of the entries that match, the one with the
\* largest address.
LEMMA FoundIs ==
    ASSUME NEW t, TableInv(t), NEW ip \in Addresses
    PROVE  \/ FoundCell(t, ip) = NULL /\ \A c \in DOMAIN t.cell : ip \notin t.cell[c].netmask
           \/ /\ FoundCell(t, ip) \in DOMAIN t.cell /\ ip \in t.cell[FoundCell(t, ip)].netmask
              /\ \A c \in DOMAIN t.cell :
                   ip \in t.cell[c].netmask => t.cell[c].ip <= t.cell[FoundCell(t, ip)].ip
  <1> DEFINE w == Walk(t)
             S == {i \in Visited(t, w, ip) : compare_aodv_route(t.cell[w[i]], ip)}
             P(c) == ip \in t.cell[c].netmask
  <1>1. /\ Chain(t, w) /\ Shape(t)
        /\ \A c \in DOMAIN t.cell : \A x \in t.cell[c].netmask : t.cell[c].ip <= x
    BY DEF TableInv, Masked
  <1>2. FoundCell(t, ip) = LastOf(w, S)
    BY DEF FoundCell
  <1> HIDE DEF w
  <1>3. /\ w \in Seq(DOMAIN t.cell) /\ Len(w) \in Nat /\ DOMAIN w = 1 .. Len(w)
        /\ \A i \in 1 .. Len(w) : w[i] \in DOMAIN t.cell
    BY <1>1 DEF Chain
  <1>4. \A c \in DOMAIN t.cell : t.cell[c].ip \in Nat
    BY <1>1, EntryTypes
  <1>5. ip \in Nat
    BY RouteTableAssumption
  <1>6. S \in SUBSET (1 .. Len(w)) /\ \A i \in S : P(w[i])
    BY <1>3 DEF Visited, compare_aodv_route
  <1>7. ASSUME NEW i \in 1 .. Len(w), P(w[i])
        PROVE  i \in S
    <2>1. t.cell[w[i]].ip <= ip
      BY <1>1, <1>3, <1>7
    <2>2. \A j \in 1 .. i : t.cell[w[j]].ip <= ip
      <3> TAKE j \in 1 .. i
      <3>1. j \in 1 .. Len(w) /\ (j = i \/ j < i)
        BY <1>3
      <3>2. j < i => t.cell[w[j]].ip < t.cell[w[i]].ip
        BY <1>1, <3>1 DEF Chain
      <3>3. t.cell[w[j]].ip \in Nat /\ t.cell[w[i]].ip \in Nat
        BY <1>3, <1>4, <3>1
      <3> QED  BY <1>5, <2>1, <3>1, <3>2, <3>3
    <2> QED  BY <1>3, <1>7, <2>2 DEF Visited, compare_aodv_route
  <1> HIDE DEF S
  <1>8. CASE S = {}
    <2>1. FoundCell(t, ip) = NULL
      BY <1>2, <1>8 DEF LastOf
    <2>2. \A c \in DOMAIN t.cell : ~P(c)
      <3> TAKE c \in DOMAIN t.cell
      <3>1. PICK i \in 1 .. Len(w) : w[i] = c
        BY <1>1 DEF Chain
      <3> QED  BY <1>7, <1>8, <3>1
    <2> QED  BY <2>1, <2>2
  <1>9. CASE S # {}
    <2>1. PICK i \in S : LastOf(w, S) = w[i] /\ \A j \in S : j <= i
      BY <1>3, <1>6, <1>9, LastIs
    <2>2. FoundCell(t, ip) = w[i] /\ w[i] \in DOMAIN t.cell /\ P(w[i]) /\ i \in 1 .. Len(w)
      BY <1>2, <1>3, <1>6, <2>1
    <2>3. \A c \in DOMAIN t.cell : P(c) => t.cell[c].ip <= t.cell[w[i]].ip
      <3> SUFFICES ASSUME NEW c \in DOMAIN t.cell, P(c) PROVE t.cell[c].ip <= t.cell[w[i]].ip
        OBVIOUS
      <3>1. PICK j \in 1 .. Len(w) : w[j] = c
        BY <1>1 DEF Chain
      <3>2. j <= i
        BY <1>7, <2>1, <3>1
      <3>3. j < i => t.cell[w[j]].ip < t.cell[w[i]].ip
        BY <1>1, <2>2, <3>1 DEF Chain
      <3>4. t.cell[c].ip \in Nat /\ t.cell[w[i]].ip \in Nat
        BY <1>4, <2>2
      <3>5. j = i \/ j < i
        BY <2>2, <3>2
      <3> QED  BY <3>1, <3>3, <3>4, <3>5
    <2> QED  BY <2>2, <2>3
  <1> QED  BY <1>8, <1>9

\* For a neighbour it returns its entry, which was learnt, if there is one.
LEMMA FoundHop ==
    ASSUME NEW t, TableInv(t), NEW d \in Hops
    PROVE  /\ d \in Addresses /\ d \notin {LO, ME}
           /\ \/ FoundCell(t, d) = NULL
              \/ FoundCell(t, d) \in Learnt(t) /\ t.cell[FoundCell(t, d)].ip = d
           /\ \A c \in DOMAIN t.cell : t.cell[c].ip = d => FoundCell(t, d) = c
  <1>1. d \in Addresses /\ d \notin {LO, ME} /\ d \notin SUBNETMASK
    BY AodvNodeAssumption
  <1>2. \A c \in DOMAIN t.cell : Masked(t.cell[c])
    BY DEF TableInv
  <1>3. ASSUME FoundCell(t, d) \in DOMAIN t.cell, d \in t.cell[FoundCell(t, d)].netmask
        PROVE  FoundCell(t, d) \in Learnt(t) /\ t.cell[FoundCell(t, d)].ip = d
    <2>1. ~t.cell[FoundCell(t, d)].self
      BY <1>2, <1>3 DEF Masked
    <2> QED  BY <1>1, <1>2, <1>3, <2>1 DEF Masked, Learnt
  <1>4. NULL \notin DOMAIN t.cell
    BY RouteTableAssumption DEF TableInv, Shape
  <1>5. ASSUME NEW c \in DOMAIN t.cell, t.cell[c].ip = d
        PROVE  FoundCell(t, d) = c
    <2>1. d \in t.cell[c].netmask
      BY <1>2, <1>5 DEF Masked
    <2>2. FoundCell(t, d) \in DOMAIN t.cell /\ d \in t.cell[FoundCell(t, d)].netmask
      BY <1>1, <2>1, FoundIs
    <2> QED  BY <1>3, <1>5, <2>2, Listed DEF Learnt
  <1>6. \/ FoundCell(t, d) = NULL
        \/ FoundCell(t, d) \in DOMAIN t.cell /\ d \in t.cell[FoundCell(t, d)].netmask
    BY <1>1, FoundIs
  <1> QED  BY <1>1, <1>3, <1>5, <1>6

\* What an entry says, without its place in the list.
Same(r, s) == r.ip = s.ip /\ r.self = s.self /\ r.netmask = s.netmask /\ r.next_hop = s.next_hop

\* A table whose cells form a list is a route list.
LEMMA Relinked ==
    ASSUME NEW u, NEW v, Shape(u), Chain(u, v), \A c \in DOMAIN u.cell : Masked(u.cell[c])
    PROVE  TableInv(u) /\ Walk(u) = v
  BY WalkOf DEF TableInv

\* Writing to entries without touching links and addresses changes neither
\* the list nor what is found (find_aodv_route, expire_aodv_route).
LEMMA Rewritten ==
    ASSUME NEW t, NEW u, TableInv(t), Shape(u), u.head = t.head, DOMAIN u.cell = DOMAIN t.cell,
           \A c \in DOMAIN t.cell : /\ u.cell[c].ip = t.cell[c].ip /\ u.cell[c].next = t.cell[c].next
                                   /\ u.cell[c].prev = t.cell[c].prev /\ u.cell[c].self = t.cell[c].self
                                   /\ u.cell[c].netmask = t.cell[c].netmask
    PROVE  /\ TableInv(u) /\ Learnt(u) = Learnt(t)
           /\ \A ip : FoundCell(u, ip) = FoundCell(t, ip)
  <1> DEFINE w == Walk(t)
  <1>1. Chain(t, w) /\ Shape(t) /\ \A c \in DOMAIN t.cell : Masked(t.cell[c])
    BY DEF TableInv
  <1> HIDE DEF w
  <1>2. w \in Seq(DOMAIN t.cell) /\ DOMAIN w = 1 .. Len(w) /\ Len(w) \in Nat
    BY <1>1 DEF Chain
  <1>3. \A i \in 1 .. Len(w) : w[i] \in DOMAIN t.cell
    BY <1>2
  <1>4. Chain(u, w)
    <2>1. w \in Seq(DOMAIN u.cell) /\ \A c \in DOMAIN u.cell : \E i \in 1 .. Len(w) : w[i] = c
      BY <1>1 DEF Chain
    <2>2. u.head = IF Len(w) = 0 THEN NULL ELSE w[1]
      BY <1>1 DEF Chain
    <2>3. \A i \in 1 .. Len(w) : /\ u.cell[w[i]].next = IF i = Len(w) THEN NULL ELSE w[i + 1]
                                 /\ u.cell[w[i]].prev = IF i = 1 THEN NULL ELSE w[i - 1]
      <3>1. \A i \in 1 .. Len(w) : /\ t.cell[w[i]].next = IF i = Len(w) THEN NULL ELSE w[i + 1]
                                   /\ t.cell[w[i]].prev = IF i = 1 THEN NULL ELSE w[i - 1]
        BY <1>1 DEF Chain
      <3>2. \A i \in 1 .. Len(w) : /\ u.cell[w[i]].next = t.cell[w[i]].next
                                   /\ u.cell[w[i]].prev = t.cell[w[i]].prev
        BY <1>3
      <3> QED  BY <3>1, <3>2
    <2>4. \A i, j \in 1 .. Len(w) : i < j => u.cell[w[i]].ip < u.cell[w[j]].ip
      <3>1. \A i, j \in 1 .. Len(w) : i < j => t.cell[w[i]].ip < t.cell[w[j]].ip
        BY <1>1 DEF Chain
      <3>2. \A i \in 1 .. Len(w) : u.cell[w[i]].ip = t.cell[w[i]].ip
        BY <1>3
      <3> QED  BY <3>1, <3>2
    <2> QED  BY <2>1, <2>2, <2>3, <2>4 DEF Chain
  <1>5. \A c \in DOMAIN u.cell : Masked(u.cell[c])
    BY <1>1 DEF Masked
  <1>6. TableInv(u) /\ Walk(u) = w
    BY <1>4, <1>5, Relinked
  <1>7. Learnt(u) = Learnt(t)
    BY DEF Learnt
  <1>8. ASSUME NEW ip PROVE FoundCell(u, ip) = FoundCell(t, ip)
    <2> DEFINE R(x) == {i \in Visited(x, w, ip) : compare_aodv_route(x.cell[w[i]], ip)}
    <2>1. Visited(u, w, ip) = Visited(t, w, ip)
      BY <1>2, <1>3 DEF Visited
    <2>2. R(u) = R(t)
      BY <1>2, <1>3, <2>1 DEF Visited, compare_aodv_route
    <2>3. FoundCell(u, ip) = LastOf(w, R(u)) /\ FoundCell(t, ip) = LastOf(w, R(t))
      BY <1>6 DEF FoundCell, w
    <2> QED  BY <2>2, <2>3
  <1> QED  BY <1>6, <1>7, <1>8

\* A new entry is linked in where the addresses keep rising.
LEMMA LinkedIn ==
    ASSUME NEW t, TableInv(t), NEW c \in Cells, c \notin DOMAIN t.cell, NEW r \in RouteEntry, Masked(r),
           NEW p \in 0 .. Len(Walk(t)),
           \A i \in 1 .. Len(Walk(t)) : IF i <= p THEN t.cell[Walk(t)[i]].ip < r.ip
                                       ELSE r.ip < t.cell[Walk(t)[i]].ip
    PROVE  LET u == LinkAfter(t, c, r, IF p = 0 THEN NULL ELSE Walk(t)[p])
           IN  /\ TableInv(u) /\ DOMAIN u.cell = DOMAIN t.cell \cup {c}
               /\ Same(u.cell[c], r) /\ \A b \in DOMAIN t.cell : Same(u.cell[b], t.cell[b])
  <1> DEFINE w == Walk(t)
             L == Len(w)
             D == DOMAIN t.cell
             prev == IF p = 0 THEN NULL ELSE w[p]
             nxt == IF p = L THEN NULL ELSE w[p + 1]
             u == LinkAfter(t, c, r, prev)
             v == [i \in 1 .. L + 1 |-> IF i <= p THEN w[i] ELSE IF i = p + 1 THEN c ELSE w[i - 1]]
  <1>1. Chain(t, w) /\ Shape(t) /\ \A b \in D : Masked(t.cell[b])
    BY DEF TableInv
  <1>2. p \in 0 .. L /\ \A i \in 1 .. L : IF i <= p THEN t.cell[w[i]].ip < r.ip ELSE r.ip < t.cell[w[i]].ip
    OBVIOUS
  <1> HIDE DEF w
  <1>3. /\ w \in Seq(D) /\ L \in Nat /\ \A i \in 1 .. L : w[i] \in D /\ w[i] # c /\ w[i] # NULL
        /\ NULL \notin Cells /\ D \subseteq Cells
    BY <1>1, RouteTableAssumption DEF Chain, Shape
  <1>4. \A i, j \in 1 .. L : w[i] = w[j] => i = j
    <2> SUFFICES ASSUME NEW i \in 1 .. L, NEW j \in 1 .. L, w[i] = w[j] PROVE i = j
      OBVIOUS
    <2>1. t.cell[w[i]].ip \in Nat
      BY <1>1, <1>3, EntryTypes
    <2>2. /\ i < j => t.cell[w[i]].ip < t.cell[w[j]].ip
          /\ j < i => t.cell[w[j]].ip < t.cell[w[i]].ip
      BY <1>1 DEF Chain
    <2>3. ~(i < j) /\ ~(j < i)
      BY <2>1, <2>2
    <2> QED  BY <2>3
  <1>5. NextOf(t, prev) = nxt
    <2>1. CASE p = 0
      <3>1. t.head = IF L = 0 THEN NULL ELSE w[1]
        BY <1>1 DEF Chain
      <3> QED  BY <1>3, <2>1, <3>1 DEF NextOf
    <2>2. CASE p # 0
      <3>1. p \in 1 .. L /\ prev = w[p] /\ prev # NULL
        BY <1>2, <1>3, <2>2
      <3>2. t.cell[w[p]].next = IF p = L THEN NULL ELSE w[p + 1]
        BY <1>1, <3>1 DEF Chain
      <3> QED  BY <3>1, <3>2 DEF NextOf
    <2> QED  BY <2>1, <2>2
  <1>6. /\ prev = NULL <=> p = 0
        /\ prev \in Cells \cup {NULL} /\ nxt \in Cells \cup {NULL}
        /\ prev # c /\ nxt # c /\ (prev # NULL => prev # nxt)
    BY <1>2, <1>3, <1>4
  <1>7. /\ u.head = IF p = 0 THEN c ELSE t.head
        /\ u = [head |-> u.head, cell |-> u.cell] /\ DOMAIN u.cell = D \cup {c}
        /\ u.cell = [x \in D \cup {c} |-> u.cell[x]]
        /\ \A x \in D \cup {c} :
             u.cell[x] = IF x = c THEN [r EXCEPT !.next = nxt, !.prev = prev]
                         ELSE IF x = prev THEN [t.cell[x] EXCEPT !.next = c]
                         ELSE IF x = nxt THEN [t.cell[x] EXCEPT !.prev = c] ELSE t.cell[x]
    <2>1. u = [head |-> IF prev = NULL THEN c ELSE t.head,
               cell |-> [x \in D \cup {c} |->
                          IF x = c THEN [r EXCEPT !.next = nxt, !.prev = prev]
                          ELSE IF x = prev THEN [t.cell[x] EXCEPT !.next = c]
                          ELSE IF x = nxt THEN [t.cell[x] EXCEPT !.prev = c] ELSE t.cell[x]]]
      BY <1>5, Zenon DEF LinkAfter
    <2> HIDE DEF u, nxt, prev, D
    <2> QED  BY <1>6, <2>1
  <1> HIDE DEF u, prev, nxt
  <1>8. /\ u.cell[c] \in RouteEntry /\ Same(u.cell[c], r)
        /\ u.cell[c].next = nxt /\ u.cell[c].prev = prev
    <2>1. u.cell[c] = [r EXCEPT !.next = nxt, !.prev = prev]
      BY <1>7
    <2> HIDE DEF D
    <2>2. u.cell[c] \in RouteEntry /\ u.cell[c].next = nxt /\ u.cell[c].prev = prev
      BY <1>6, <2>1 DEF RouteEntry
    <2>3. Same(u.cell[c], r)
      BY <1>6, <2>1 DEF RouteEntry, Same
    <2> QED  BY <2>2, <2>3
  <1>9. ASSUME NEW x \in D
        PROVE  /\ u.cell[x] \in RouteEntry /\ Same(u.cell[x], t.cell[x])
               /\ u.cell[x].next = IF x = prev THEN c ELSE t.cell[x].next
               /\ u.cell[x].prev = IF x = nxt THEN c ELSE t.cell[x].prev
    <2>1. t.cell[x] \in RouteEntry /\ x # c /\ x # NULL
      BY <1>1, <1>3, EntryTypes
    <2>2. CASE x = prev
      <3>1. u.cell[x] = [t.cell[x] EXCEPT !.next = c] /\ x # nxt
        BY <1>6, <1>7, <2>1, <2>2
      <3> QED  BY <2>1, <2>2, <3>1 DEF RouteEntry, Same
    <2>3. CASE x # prev /\ x = nxt
      <3>1. u.cell[x] = [t.cell[x] EXCEPT !.prev = c]
        BY <1>7, <2>1, <2>3
      <3> QED  BY <2>1, <2>3, <3>1 DEF RouteEntry, Same
    <2>4. CASE x # prev /\ x # nxt
      <3>1. u.cell[x] = t.cell[x]
        BY <1>7, <2>1, <2>4
      <3> QED  BY <2>1, <2>4, <3>1 DEF Same
    <2> QED  BY <2>2, <2>3, <2>4
  <1>10. Shape(u)
    <2>1. \A x \in D \cup {c} : u.cell[x] \in RouteEntry
      BY <1>8, <1>9
    <2> QED  BY <1>3, <1>7, <2>1 DEF Shape
  <1>11. \A x \in D \cup {c} : Masked(u.cell[x])
    BY <1>1, <1>8, <1>9 DEF Masked, Same
  <1>12. Chain(u, v)
    <2> DEFINE old(i) == IF i <= p THEN i ELSE i - 1
    <2>1. v \in Seq(D \cup {c}) /\ Len(v) = L + 1 /\ Len(v) \in Nat
      BY <1>2, <1>3
    <2>2. \A i \in 1 .. L + 1 : v[i] = IF i <= p THEN w[i] ELSE IF i = p + 1 THEN c ELSE w[i - 1]
      OBVIOUS
    <2> HIDE DEF v
    <2>3. u.head = v[1] /\ L + 1 # 0
      BY <1>1, <1>2, <1>3, <1>7, <2>2 DEF Chain
    <2>4. ASSUME NEW i \in 1 .. L + 1
          PROVE  /\ u.cell[v[i]].next = IF i = L + 1 THEN NULL ELSE v[i + 1]
                 /\ u.cell[v[i]].prev = IF i = 1 THEN NULL ELSE v[i - 1]
      <3>1. CASE i = p + 1
        <4>1. v[i] = c /\ (i # L + 1 => v[i + 1] = w[p + 1]) /\ (i # 1 => v[i - 1] = w[p])
          BY <1>2, <1>3, <2>2, <3>1
        <4> QED  BY <1>2, <1>3, <1>8, <3>1, <4>1 DEF nxt, prev
      <3>2. CASE i <= p
        <4>1. v[i] = w[i] /\ i \in 1 .. L /\ (i # 1 => v[i - 1] = w[i - 1])
          <5>1. i \in 1 .. L /\ (i # 1 => i - 1 \in 1 .. L + 1 /\ i - 1 <= p)
            BY <1>2, <1>3, <3>2
          <5> QED  BY <2>2, <3>2, <5>1
        <4>2. v[i + 1] = (IF i = p THEN c ELSE w[i + 1])
          <5>1. i + 1 \in 1 .. L + 1 /\ (i + 1 <= p <=> i # p) /\ (i + 1 = p + 1 <=> i = p)
            BY <1>2, <1>3, <3>2
          <5> QED  BY <2>2, <5>1
        <4>3. w[i] = prev <=> i = p
          BY <1>2, <1>3, <1>4, <3>2, <4>1 DEF prev
        <4>4. w[i] # nxt
          <5>1. p # L => p + 1 \in 1 .. L /\ p + 1 # i
            BY <1>2, <1>3, <3>2
          <5> QED  BY <1>3, <1>4, <4>1, <5>1 DEF nxt
        <4>5. /\ t.cell[w[i]].next = IF i = L THEN NULL ELSE w[i + 1]
              /\ t.cell[w[i]].prev = IF i = 1 THEN NULL ELSE w[i - 1]
          BY <1>1, <4>1 DEF Chain
        <4>6. i # L + 1 /\ w[i] \in D /\ (i = L => i = p)
          BY <1>2, <1>3, <3>2, <4>1
        <4> QED  BY <1>9, <4>1, <4>2, <4>3, <4>4, <4>5, <4>6
      <3>3. CASE i > p + 1
        <4>1. v[i] = w[i - 1] /\ i - 1 \in 1 .. L /\ (i # L + 1 => v[i + 1] = w[i])
          <5>1. i - 1 \in 1 .. L /\ ~(i <= p) /\ i # p + 1
            BY <1>2, <1>3, <3>3
          <5>2. i # L + 1 => i + 1 \in 1 .. L + 1
            BY <1>3
          <5>3. ~(i + 1 <= p) /\ i + 1 # p + 1 /\ i + 1 - 1 = i
            BY <1>2, <1>3, <3>3
          <5> QED  BY <2>2, <5>1, <5>2, <5>3
        <4>2. v[i - 1] = (IF i = p + 2 THEN c ELSE w[i - 2])
          <5>1. i - 1 \in 1 .. L + 1 /\ ~(i - 1 <= p) /\ (i - 1 = p + 1 <=> i = p + 2) /\ i - 1 - 1 = i - 2
            BY <1>2, <1>3, <3>3
          <5> QED  BY <2>2, <5>1
        <4>3. w[i - 1] = nxt <=> i = p + 2
          <5>1. p = L \/ p + 1 \in 1 .. L
            BY <1>2, <1>3
          <5>2. p # L /\ (i - 1 = p + 1 <=> i = p + 2)
            BY <1>2, <1>3, <3>3
          <5> QED  BY <1>4, <4>1, <5>1, <5>2 DEF nxt
        <4>4. w[i - 1] # prev
          <5>1. p # 0 => p \in 1 .. L /\ p # i - 1
            BY <1>2, <1>3, <3>3
          <5> QED  BY <1>3, <1>4, <4>1, <5>1 DEF prev
        <4>5. /\ t.cell[w[i - 1]].next = IF i - 1 = L THEN NULL ELSE w[i - 1 + 1]
              /\ t.cell[w[i - 1]].prev = IF i - 1 = 1 THEN NULL ELSE w[i - 1 - 1]
          BY <1>1, <4>1 DEF Chain
        <4>6. /\ i - 1 + 1 = i /\ i - 1 - 1 = i - 2 /\ i # 1 /\ (i - 1 = 1 => i = p + 2)
              /\ (i - 1 = L <=> i = L + 1) /\ w[i - 1] \in D
          BY <1>2, <1>3, <3>3, <4>1
        <4> QED  BY <1>9, <4>1, <4>2, <4>3, <4>4, <4>5, <4>6
      <3> QED  BY <1>2, <3>1, <3>2, <3>3
    <2>5. \A b \in D \cup {c} : \E i \in 1 .. L + 1 : v[i] = b
      <3> SUFFICES ASSUME NEW b \in D \cup {c} PROVE \E i \in 1 .. L + 1 : v[i] = b
        OBVIOUS
      <3>1. CASE b = c
        <4>1. p + 1 \in 1 .. L + 1 /\ v[p + 1] = c
          BY <1>2, <1>3, <2>2
        <4> QED  BY <3>1, <4>1
      <3>2. CASE b \in D
        <4>1. PICK k \in 1 .. L : w[k] = b
          BY <1>1, <3>2 DEF Chain
        <4>2. CASE k <= p
          <5>1. k \in 1 .. L + 1 /\ v[k] = b
            BY <1>2, <1>3, <2>2, <4>1, <4>2
          <5> QED  BY <5>1
        <4>3. CASE ~(k <= p)
          <5>1. k + 1 \in 1 .. L + 1 /\ v[k + 1] = b
            BY <1>2, <1>3, <2>2, <4>1, <4>3
          <5> QED  BY <5>1
        <4> QED  BY <4>2, <4>3
      <3> QED  BY <3>1, <3>2
    <2>6. ASSUME NEW i \in 1 .. L + 1, NEW j \in 1 .. L + 1, i < j
          PROVE  u.cell[v[i]].ip < u.cell[v[j]].ip
      <3>1. \A k \in 1 .. L : u.cell[w[k]].ip = t.cell[w[k]].ip
        BY <1>3, <1>9 DEF Same
      <3>2. u.cell[c].ip = r.ip
        BY <1>8 DEF Same
      <3>3. CASE i = p + 1
        <4>1. v[i] = c /\ v[j] = w[j - 1] /\ j - 1 \in 1 .. L /\ ~(j - 1 <= p)
          BY <1>2, <1>3, <2>2, <2>6, <3>3
        <4> QED  BY <1>2, <3>1, <3>2, <4>1
      <3>4. CASE j = p + 1
        <4>1. v[j] = c /\ v[i] = w[i] /\ i \in 1 .. L /\ i <= p
          BY <1>2, <1>3, <2>2, <2>6, <3>4
        <4> QED  BY <1>2, <3>1, <3>2, <4>1
      <3>5. CASE i # p + 1 /\ j # p + 1
        <4>1. v[i] = w[old(i)] /\ v[j] = w[old(j)] /\ old(i) \in 1 .. L /\ old(j) \in 1 .. L
              /\ old(i) < old(j)
          BY <1>2, <1>3, <2>2, <2>6, <3>5
        <4> HIDE DEF old
        <4>2. t.cell[w[old(i)]].ip < t.cell[w[old(j)]].ip
          BY <1>1, <4>1 DEF Chain
        <4> QED  BY <3>1, <4>1, <4>2
      <3> QED  BY <3>3, <3>4, <3>5
    <2> QED  BY <1>7, <2>1, <2>3, <2>4, <2>5, <2>6 DEF Chain
  <1>13. TableInv(u)
    BY <1>7, <1>10, <1>11, <1>12, Relinked
  <1>14. \A b \in D : Same(u.cell[b], t.cell[b])
    BY <1>9
  <1> QED  BY <1>7, <1>8, <1>13, <1>14 DEF u, prev, w

\* insert_aodv_route finds that place, for an address that is not listed.
LEMMA Inserted ==
    ASSUME NEW t, TableInv(t), NEW c \in Cells, c \notin DOMAIN t.cell, NEW r \in RouteEntry, Masked(r),
           \A b \in DOMAIN t.cell : t.cell[b].ip # r.ip
    PROVE  LET u == insert_aodv_route(t, c, r)
           IN  /\ TableInv(u) /\ DOMAIN u.cell = DOMAIN t.cell \cup {c}
               /\ Same(u.cell[c], r) /\ \A b \in DOMAIN t.cell : Same(u.cell[b], t.cell[b])
  <1> DEFINE w == Walk(t)
             L == Len(w)
             S == {i \in DOMAIN w : \A j \in 1 .. i : t.cell[w[j]].ip < r.ip}
             u == insert_aodv_route(t, c, r)
  <1>1. Chain(t, w) /\ Shape(t)
    BY DEF TableInv
  <1>2. u = LinkAfter(t, c, r, LastOf(w, S))
    BY DEF insert_aodv_route
  <1> SUFFICES \E p \in 0 .. L :
                 /\ LastOf(w, S) = IF p = 0 THEN NULL ELSE w[p]
                 /\ \A i \in 1 .. L : IF i <= p THEN t.cell[w[i]].ip < r.ip ELSE r.ip < t.cell[w[i]].ip
    <2>1. PICK p \in 0 .. L :
                 /\ LastOf(w, S) = IF p = 0 THEN NULL ELSE w[p]
                 /\ \A i \in 1 .. L : IF i <= p THEN t.cell[w[i]].ip < r.ip ELSE r.ip < t.cell[w[i]].ip
      OBVIOUS
    <2> DEFINE x == LinkAfter(t, c, r, IF p = 0 THEN NULL ELSE Walk(t)[p])
    <2>2. /\ TableInv(x) /\ DOMAIN x.cell = DOMAIN t.cell \cup {c}
          /\ Same(x.cell[c], r) /\ \A b \in DOMAIN t.cell : Same(x.cell[b], t.cell[b])
      BY <2>1, LinkedIn
    <2>3. u = x
      BY <1>2, <2>1
    <2> HIDE DEF u, x
    <2> QED  BY <2>2, <2>3 DEF u
  <1> HIDE DEF w
  <1>3. /\ w \in Seq(DOMAIN t.cell) /\ L \in Nat /\ DOMAIN w = 1 .. L
        /\ \A i \in 1 .. L : w[i] \in DOMAIN t.cell
    BY <1>1 DEF Chain
  <1>4. /\ \A i \in 1 .. L : t.cell[w[i]].ip \in Nat /\ t.cell[w[i]].ip # r.ip
        /\ r.ip \in Nat
    BY <1>1, <1>3, EntryTypes, RouteTableAssumption DEF RouteEntry
  <1>5. \A i, j \in 1 .. L : i < j => t.cell[w[i]].ip < t.cell[w[j]].ip
    BY <1>1 DEF Chain
  <1>6. S \in SUBSET (1 .. L)
    BY <1>3
  <1>7. ASSUME NEW i \in 1 .. L, t.cell[w[i]].ip < r.ip
        PROVE  i \in S
    <2>1. \A j \in 1 .. i : t.cell[w[j]].ip < r.ip
      <3> TAKE j \in 1 .. i
      <3>1. j \in 1 .. L /\ (j = i \/ j < i)
        BY <1>3
      <3>2. t.cell[w[j]].ip \in Nat /\ t.cell[w[i]].ip \in Nat /\ r.ip \in Nat
        BY <1>4, <3>1
      <3>3. j < i => t.cell[w[j]].ip < t.cell[w[i]].ip
        BY <1>5, <3>1
      <3> QED  BY <1>7, <3>1, <3>2, <3>3
    <2> QED  BY <1>3, <2>1
  <1>8. \A i \in S : \A j \in 1 .. i : t.cell[w[j]].ip < r.ip
    OBVIOUS
  <1> HIDE DEF S
  <1>9. CASE S = {}
    <2>1. LastOf(w, S) = NULL
      BY <1>9 DEF LastOf
    <2>2. \A i \in 1 .. L : ~(i <= 0) /\ r.ip < t.cell[w[i]].ip
      <3> TAKE i \in 1 .. L
      <3>1. ~(t.cell[w[i]].ip < r.ip)
        BY <1>7, <1>9
      <3> QED  BY <1>4, <3>1
    <2> QED  BY <1>3, <2>1, <2>2
  <1>10. CASE S # {}
    <2>1. PICK p \in S : LastOf(w, S) = w[p] /\ \A j \in S : j <= p
      BY <1>3, <1>6, <1>10, LastIs
    <2>2. p \in 1 .. L /\ p \in 0 .. L /\ p # 0
      BY <1>6
    <2>3. \A i \in 1 .. L : IF i <= p THEN t.cell[w[i]].ip < r.ip ELSE r.ip < t.cell[w[i]].ip
      <3> TAKE i \in 1 .. L
      <3>1. CASE i <= p
        BY <1>8, <2>2, <3>1
      <3>2. CASE ~(i <= p)
        <4>1. ~(t.cell[w[i]].ip < r.ip)
          BY <1>7, <2>1, <3>2
        <4> QED  BY <1>4, <3>2, <4>1
      <3> QED  BY <3>1, <3>2
    <2> QED  BY <2>1, <2>2, <2>3
  <1> QED  BY <1>9, <1>10

\* remove_aodv_route takes one entry out of the list.
LEMMA Removed ==
    ASSUME NEW t, TableInv(t), NEW c \in DOMAIN t.cell
    PROVE  LET u == remove_aodv_route(t, c)
           IN  /\ TableInv(u) /\ DOMAIN u.cell = DOMAIN t.cell \ {c}
               /\ \A b \in DOMAIN u.cell : Same(u.cell[b], t.cell[b])
  <1> DEFINE w == Walk(t)
             L == Len(w)
             D == DOMAIN t.cell
             u == remove_aodv_route(t, c)
  <1>1. Chain(t, w) /\ Shape(t) /\ \A b \in D : Masked(t.cell[b])
    BY DEF TableInv
  <1> HIDE DEF w
  <1>2. PICK p \in 1 .. L : w[p] = c
    BY <1>1 DEF Chain
  <1>3. /\ w \in Seq(D) /\ L \in Nat /\ \A i \in 1 .. L : w[i] \in D /\ w[i] # NULL
        /\ NULL \notin Cells /\ D \subseteq Cells
    <2>1. w \in Seq(D) /\ NULL \notin Cells /\ D \subseteq Cells
      BY <1>1, RouteTableAssumption DEF Chain, Shape
    <2> HIDE DEF D
    <2> QED  BY <2>1
  <1>4. \A i, j \in 1 .. L : w[i] = w[j] => i = j
    <2> SUFFICES ASSUME NEW i \in 1 .. L, NEW j \in 1 .. L, w[i] = w[j] PROVE i = j
      OBVIOUS
    <2>1. t.cell[w[i]].ip \in Nat
      BY <1>1, <1>3, EntryTypes
    <2>2. /\ i < j => t.cell[w[i]].ip < t.cell[w[j]].ip
          /\ j < i => t.cell[w[j]].ip < t.cell[w[i]].ip
      BY <1>1 DEF Chain
    <2>3. ~(i < j) /\ ~(j < i)
      BY <2>1, <2>2
    <2> QED  BY <2>3
  <1> DEFINE prev == IF p = 1 THEN NULL ELSE w[p - 1]
             nxt == IF p = L THEN NULL ELSE w[p + 1]
             v == [i \in 1 .. L - 1 |-> IF i < p THEN w[i] ELSE w[i + 1]]
  <1>5. t.cell[c].next = nxt /\ t.cell[c].prev = prev
    BY <1>1, <1>2 DEF Chain
  <1>6. p # 1 => p - 1 \in 1 .. L
    BY <1>3
  <1>7. p # L => p + 1 \in 1 .. L
    BY <1>3
  <1>8. /\ prev \in Cells \cup {NULL} /\ nxt \in Cells \cup {NULL} /\ (prev # NULL => prev # nxt)
        /\ (t.head = c <=> p = 1)
    <2>1. t.head = w[1] /\ 1 \in 1 .. L
      BY <1>1, <1>2, <1>3 DEF Chain
    <2>2. t.head = c <=> p = 1
      BY <1>2, <1>4, <2>1
    <2>3. p - 1 # p + 1
      OBVIOUS
    <2> QED  BY <1>3, <1>4, <1>6, <1>7, <2>2, <2>3
  <1>9. /\ u.head = IF p = 1 THEN nxt ELSE t.head
        /\ u = [head |-> u.head, cell |-> u.cell] /\ DOMAIN u.cell = D \ {c}
        /\ u.cell = [x \in D \ {c} |-> u.cell[x]]
        /\ \A x \in D \ {c} :
             u.cell[x] = IF x = prev THEN [t.cell[x] EXCEPT !.next = nxt]
                         ELSE IF x = nxt THEN [t.cell[x] EXCEPT !.prev = prev] ELSE t.cell[x]
    <2>1. u = [head |-> IF t.head = c THEN nxt ELSE t.head,
               cell |-> [x \in D \ {c} |->
                          IF x = prev THEN [t.cell[x] EXCEPT !.next = nxt]
                          ELSE IF x = nxt THEN [t.cell[x] EXCEPT !.prev = prev] ELSE t.cell[x]]]
      BY <1>5, Zenon DEF remove_aodv_route
    <2> HIDE DEF u, nxt, prev, D
    <2> QED  BY <1>8, <2>1
  <1> HIDE DEF u, prev, nxt
  <1>10. ASSUME NEW x \in D \ {c}
        PROVE  /\ u.cell[x] \in RouteEntry /\ Same(u.cell[x], t.cell[x])
               /\ u.cell[x].next = IF x = prev THEN nxt ELSE t.cell[x].next
               /\ u.cell[x].prev = IF x = nxt THEN prev ELSE t.cell[x].prev
    <2>1. t.cell[x] \in RouteEntry /\ x # NULL
      BY <1>1, <1>3, EntryTypes
    <2>2. CASE x = prev
      <3>1. u.cell[x] = [t.cell[x] EXCEPT !.next = nxt] /\ x # nxt
        BY <1>8, <1>9, <2>1, <2>2
      <3> QED  BY <1>8, <2>1, <2>2, <3>1 DEF RouteEntry, Same
    <2>3. CASE x # prev /\ x = nxt
      <3>1. u.cell[x] = [t.cell[x] EXCEPT !.prev = prev]
        BY <1>9, <2>1, <2>3
      <3> QED  BY <1>8, <2>1, <2>3, <3>1 DEF RouteEntry, Same
    <2>4. CASE x # prev /\ x # nxt
      <3>1. u.cell[x] = t.cell[x]
        BY <1>9, <2>1, <2>4
      <3> QED  BY <2>1, <2>4, <3>1 DEF Same
    <2> QED  BY <2>2, <2>3, <2>4
  <1>11. Shape(u)
    <2>1. \A x \in D \ {c} : u.cell[x] \in RouteEntry
      BY <1>10
    <2> QED  BY <1>3, <1>9, <2>1 DEF Shape
  <1>12. \A x \in D \ {c} : Masked(u.cell[x])
    BY <1>1, <1>10 DEF Masked, Same
  <1>13. Chain(u, v)
    <2> DEFINE old(i) == IF i < p THEN i ELSE i + 1
    <2>1. /\ L - 1 \in Nat
          /\ \A i \in 1 .. L - 1 : old(i) \in 1 .. L /\ old(i) # p
      BY <1>2, <1>3
    <2>2. \A i \in 1 .. L - 1 : v[i] = w[old(i)] /\ v[i] \in D \ {c}
      BY <1>2, <1>3, <1>4, <2>1
    <2>3. v \in Seq(D \ {c}) /\ Len(v) = L - 1 /\ Len(v) \in Nat
      BY <2>1, <2>2
    <2> HIDE DEF v
    <2>4. u.head = IF L - 1 = 0 THEN NULL ELSE v[1]
      <3>1. CASE p = 1
        <4>1. L - 1 = 0 <=> p = L
          BY <1>3, <3>1
        <4>2. old(1) = p + 1 /\ (p # L => 1 \in 1 .. L - 1)
          <5>1. old(1) = 2 /\ p + 1 = 2
            BY <3>1
          <5>2. L # 1 => 1 \in 1 .. L - 1
            <6>1. 1 \in 1 .. L /\ L \in Nat
              BY <1>2, <1>3, <3>1
            <6> HIDE DEF L
            <6> QED  BY <6>1
          <5> HIDE DEF old, L
          <5> QED  BY <3>1, <5>1, <5>2
        <4> HIDE DEF old
        <4> QED  BY <1>9, <2>2, <3>1, <4>1, <4>2 DEF nxt
      <3>2. CASE p # 1
        <4>1. L - 1 # 0 /\ L # 0 /\ 1 \in 1 .. L - 1 /\ old(1) = 1
          BY <1>3, <3>2
        <4>2. t.head = w[1] /\ t.head # c
          BY <1>1, <1>2, <1>4, <3>2, <4>1 DEF Chain
        <4>3. u.head = w[1]
          BY <1>9, <3>2, <4>2
        <4> HIDE DEF old
        <4> QED  BY <2>2, <4>1, <4>3
      <3> QED  BY <3>1, <3>2
    <2>5. ASSUME NEW i \in 1 .. L - 1
          PROVE  /\ u.cell[v[i]].next = IF i = L - 1 THEN NULL ELSE v[i + 1]
                 /\ u.cell[v[i]].prev = IF i = 1 THEN NULL ELSE v[i - 1]
      <3> DEFINE k == old(i)
      <3>1. /\ k \in 1 .. L /\ v[i] = w[k] /\ v[i] \in D \ {c}
            /\ i # L - 1 => v[i + 1] = w[old(i + 1)]
            /\ i # 1 => v[i - 1] = w[old(i - 1)]
        <4>1. (i # L - 1 => i + 1 \in 1 .. L - 1) /\ (i # 1 => i - 1 \in 1 .. L - 1)
          BY <1>3
        <4> QED  BY <2>1, <2>2, <4>1
      <3>2. /\ t.cell[w[k]].next = IF k = L THEN NULL ELSE w[k + 1]
            /\ t.cell[w[k]].prev = IF k = 1 THEN NULL ELSE w[k - 1]
        BY <1>1, <3>1 DEF Chain
      <3>3. w[k] = prev <=> k = p - 1
        <4>1. p = 1 => k # p - 1
          BY <3>1
        <4> QED  BY <1>3, <1>4, <1>6, <3>1, <4>1 DEF prev
      <3>4. w[k] = nxt <=> k = p + 1
        <4>1. p = L => k # p + 1
          BY <1>3, <3>1
        <4> QED  BY <1>3, <1>4, <1>7, <3>1, <4>1 DEF nxt
      <3>5. /\ (i = L - 1 <=> k = L \/ (k = p - 1 /\ p = L))
            /\ (i # L - 1 => old(i + 1) = IF k = p - 1 THEN p + 1 ELSE k + 1)
            /\ (i = 1 <=> k = 1 \/ (k = p + 1 /\ p = 1))
            /\ (i # 1 => old(i - 1) = IF k = p + 1 THEN p - 1 ELSE k - 1)
        BY <1>3
      <3> HIDE DEF k, old
      <3>6. u.cell[v[i]].next = IF i = L - 1 THEN NULL ELSE v[i + 1]
        <4>1. u.cell[v[i]].next = IF k = p - 1 THEN nxt ELSE IF k = L THEN NULL ELSE w[k + 1]
          BY <1>10, <3>1, <3>2, <3>3
        <4>2. k = p - 1 => k # L
          BY <1>3
        <4> QED  BY <3>1, <3>5, <4>1, <4>2 DEF nxt
      <3>7. u.cell[v[i]].prev = IF i = 1 THEN NULL ELSE v[i - 1]
        <4>1. u.cell[v[i]].prev = IF k = p + 1 THEN prev ELSE IF k = 1 THEN NULL ELSE w[k - 1]
          BY <1>10, <3>1, <3>2, <3>4
        <4>2. k = p + 1 => k # 1
          BY <1>3
        <4> QED  BY <3>1, <3>5, <4>1, <4>2 DEF prev
      <3> QED  BY <3>6, <3>7
    <2>6. \A b \in D \ {c} : \E i \in 1 .. L - 1 : v[i] = b
      <3> SUFFICES ASSUME NEW b \in D \ {c} PROVE \E i \in 1 .. L - 1 : v[i] = b
        OBVIOUS
      <3>1. PICK k \in 1 .. L : w[k] = b
        BY <1>1 DEF Chain
      <3>2. k # p
        BY <1>2, <3>1
      <3>3. CASE k < p
        <4>1. k \in 1 .. L - 1 /\ old(k) = k
          BY <1>3, <3>3
        <4> QED  BY <2>2, <3>1, <4>1
      <3>4. CASE p < k
        <4>1. k - 1 \in 1 .. L - 1 /\ old(k - 1) = k
          BY <1>3, <3>4
        <4> QED  BY <2>2, <3>1, <4>1
      <3> QED  BY <1>3, <3>2, <3>3, <3>4
    <2>7. ASSUME NEW i \in 1 .. L - 1, NEW j \in 1 .. L - 1, i < j
          PROVE  u.cell[v[i]].ip < u.cell[v[j]].ip
      <3>1. old(i) \in 1 .. L /\ old(j) \in 1 .. L /\ old(i) < old(j)
        BY <1>3, <2>1, <2>7
      <3> HIDE DEF old
      <3>2. t.cell[w[old(i)]].ip < t.cell[w[old(j)]].ip
        BY <1>1, <3>1 DEF Chain
      <3>3. /\ u.cell[v[i]].ip = t.cell[w[old(i)]].ip
            /\ u.cell[v[j]].ip = t.cell[w[old(j)]].ip
        BY <1>10, <2>2 DEF Same
      <3> QED  BY <3>2, <3>3
    <2> QED  BY <1>9, <2>3, <2>4, <2>5, <2>6, <2>7 DEF Chain
  <1>14. TableInv(u)
    BY <1>9, <1>11, <1>12, <1>13, Relinked
  <1>15. \A b \in DOMAIN u.cell : Same(u.cell[b], t.cell[b])
    BY <1>9, <1>10
  <1> QED  BY <1>9, <1>14, <1>15 DEF u

-----------------------------------------------------------------------------
(* What the operations do to a table.                                      *)

\* The same list, with other sequence numbers, metrics and lifetimes.
Alike(t, u) ==
    /\ TableInv(u) /\ DOMAIN u.cell = DOMAIN t.cell /\ Learnt(u) = Learnt(t)
    /\ \A ip : FoundCell(u, ip) = FoundCell(t, ip)
    /\ \A c \in DOMAIN t.cell : Same(u.cell[c], t.cell[c])

\* An entry may be written to (Written).
LEMMA WriteEntry ==
    ASSUME NEW t, TableInv(t), NEW c \in DOMAIN t.cell, NEW r \in RouteEntry,
           r.ip = t.cell[c].ip, r.next = t.cell[c].next, r.prev = t.cell[c].prev,
           r.self = t.cell[c].self, r.netmask = t.cell[c].netmask
    PROVE  LET u == Written(t, c, r)
           IN  /\ TableInv(u) /\ DOMAIN u.cell = DOMAIN t.cell /\ Learnt(u) = Learnt(t)
               /\ \A ip : FoundCell(u, ip) = FoundCell(t, ip)
               /\ \A b \in DOMAIN t.cell : u.cell[b] = IF b = c THEN r ELSE t.cell[b]
  <1> DEFINE u == Written(t, c, r)
  <1>1. Shape(t)
    BY DEF TableInv
  <1>2. u = [head |-> t.head, cell |-> [t.cell EXCEPT ![c] = r]]
    BY <1>1 DEF Written, Shape
  <1> HIDE DEF u
  <1>3. /\ u = [head |-> u.head, cell |-> u.cell] /\ u.head = t.head /\ DOMAIN u.cell = DOMAIN t.cell
        /\ \A b \in DOMAIN t.cell : u.cell[b] = IF b = c THEN r ELSE t.cell[b]
        /\ u.cell = [b \in DOMAIN t.cell |-> u.cell[b]]
    BY <1>1, <1>2 DEF Shape
  <1>4. \A b \in DOMAIN t.cell : u.cell[b] \in RouteEntry
    BY <1>1, <1>3, EntryTypes
  <1>5. Shape(u)
    BY <1>1, <1>3, <1>4 DEF Shape
  <1>6. \A b \in DOMAIN t.cell : /\ u.cell[b].ip = t.cell[b].ip /\ u.cell[b].next = t.cell[b].next
                                  /\ u.cell[b].prev = t.cell[b].prev /\ u.cell[b].self = t.cell[b].self
                                  /\ u.cell[b].netmask = t.cell[b].netmask
    BY <1>3
  <1>7. /\ TableInv(u) /\ Learnt(u) = Learnt(t)
        /\ \A ip : FoundCell(u, ip) = FoundCell(t, ip)
    BY <1>3, <1>5, <1>6, Rewritten
  <1> QED  BY <1>3, <1>7 DEF u

\* expire_aodv_route touches neither the links nor the rest of the route.
LEMMA ExpiredEntry ==
    ASSUME NEW r \in RouteEntry
    PROVE  /\ expire_aodv_route(r) \in RouteEntry /\ Same(expire_aodv_route(r), r)
           /\ expire_aodv_route(r).next = r.next /\ expire_aodv_route(r).prev = r.prev
  <1> DEFINE n == r.seq + 1
             e == [r EXCEPT !.overdue = FALSE, !.seq = n, !.valid = FALSE]
  <1>1. n \in Nat
    BY DEF RouteEntry
  <1>2. expire_aodv_route(r) = e
    BY DEF expire_aodv_route, RouteEntry
  <1> HIDE DEF n
  <1>3. e \in RouteEntry /\ Same(e, r) /\ e.next = r.next /\ e.prev = r.prev
    BY <1>1 DEF RouteEntry, Same
  <1> HIDE DEF e
  <1> QED  BY <1>2, <1>3

\* Some entries expire.
LEMMA Expired ==
    ASSUME NEW t, TableInv(t), NEW S
    PROVE  Alike(t, [t EXCEPT !.cell = [c \in DOMAIN t.cell |->
                        IF c \in S THEN expire_aodv_route(t.cell[c]) ELSE t.cell[c]]])
  <1> DEFINE f == [c \in DOMAIN t.cell |-> IF c \in S THEN expire_aodv_route(t.cell[c]) ELSE t.cell[c]]
             u == [t EXCEPT !.cell = f]
  <1>1. Shape(t)
    BY DEF TableInv
  <1>2. ASSUME NEW c \in DOMAIN t.cell
        PROVE  /\ f[c] \in RouteEntry /\ f[c].next = t.cell[c].next /\ f[c].prev = t.cell[c].prev
               /\ Same(f[c], t.cell[c])
    <2>1. t.cell[c] \in RouteEntry
      BY <1>1, EntryTypes
    <2>2. CASE c \in S
      <3>1. f[c] = expire_aodv_route(t.cell[c])
        BY <2>2
      <3> HIDE DEF f
      <3> QED  BY <2>1, <3>1, ExpiredEntry
    <2>3. CASE c \notin S
      <3>1. f[c] = t.cell[c]
        BY <2>3
      <3> HIDE DEF f
      <3> QED  BY <2>1, <3>1 DEF Same
    <2> QED  BY <2>2, <2>3
  <1>3. DOMAIN f = DOMAIN t.cell /\ f \in [DOMAIN t.cell -> RouteEntry]
    BY <1>2
  <1> HIDE DEF f
  <1>4. u = [head |-> t.head, cell |-> f]
    BY <1>1 DEF Shape
  <1> HIDE DEF u
  <1>5. u.head = t.head /\ u.cell = f /\ Shape(u)
    BY <1>1, <1>3, <1>4 DEF Shape
  <1>6. /\ TableInv(u) /\ Learnt(u) = Learnt(t)
        /\ \A ip : FoundCell(u, ip) = FoundCell(t, ip)
    BY <1>2, <1>3, <1>5, Rewritten DEF Same
  <1> QED  BY <1>2, <1>3, <1>5, <1>6 DEF Alike, u, f

\* find_aodv_route expires what is overdue on its way ...
LEMMA Searched ==
    ASSUME NEW t, TableInv(t), NEW ip
    PROVE  Alike(t, find_aodv_route(t, ip))
  <1> DEFINE S == {c \in DOMAIN t.cell : IsLate(t.cell[c]) /\ c \in {Walk(t)[i] : i \in Visited(t, Walk(t), ip)}}
             f == [c \in DOMAIN t.cell |-> IF c \in S THEN expire_aodv_route(t.cell[c]) ELSE t.cell[c]]
  <1>1. find_aodv_route(t, ip) = [t EXCEPT !.cell = f]
    BY Zenon DEF find_aodv_route
  <1> HIDE DEF S
  <1>2. Alike(t, [t EXCEPT !.cell = f])
    BY Expired
  <1> QED  BY <1>1, <1>2

\* ... and gen_rerr what leads through the lost neighbour.
LEMMA Ended ==
    ASSUME NEW t, TableInv(t), NEW x
    PROVE  Alike(t, gen_rerr(t, x))
  <1> DEFINE S == {c \in DOMAIN t.cell : Broken(t.cell[c], x)}
             f == [c \in DOMAIN t.cell |-> IF c \in S THEN expire_aodv_route(t.cell[c]) ELSE t.cell[c]]
  <1>1. gen_rerr(t, x) = [t EXCEPT !.cell = f]
    BY Zenon DEF gen_rerr
  <1> HIDE DEF S
  <1>2. Alike(t, [t EXCEPT !.cell = f])
    BY Expired
  <1> QED  BY <1>1, <1>2

\* There is memory for one more entry if the addresses are fewer than the
\* cells.
LEMMA Room ==
    ASSUME NEW t, TableInv(t), NEW B, IsFiniteSet(B), \A c \in DOMAIN t.cell : t.cell[c].ip \in B,
           Cardinality(B) < Cardinality(Cells)
    PROVE  FreeCell(t) \in Cells /\ FreeCell(t) \notin DOMAIN t.cell
  <1>1. DOMAIN t.cell \subseteq Cells /\ IsFiniteSet(Cells)
    BY RouteTableAssumption DEF TableInv, Shape
  <1> SUFFICES ASSUME ~\E c \in Cells : c \notin DOMAIN t.cell PROVE FALSE
    BY DEF FreeCell
  <1>2. DOMAIN t.cell = Cells
    BY <1>1
  <1> DEFINE f == [c \in Cells |-> t.cell[c].ip]
  <1>3. f \in [Cells -> B] /\ \A c, b \in Cells : f[c] = f[b] => c = b
    BY <1>2, Listed
  <1>4. f \in Injection(Cells, B)
    BY <1>3 DEF Injection, IsInjective
  <1>5. Cardinality(Cells) <= Cardinality(B)
    BY <1>4, FS_Injection
  <1>6. Cardinality(Cells) \in Nat /\ Cardinality(B) \in Nat
    BY <1>1, FS_CardinalityType
  <1> QED  BY <1>5, <1>6

\* A new entry has its type and matches its own address.
LEMMA NewEntryIs ==
    ASSUME NEW d \in Others, NEW late \in BOOLEAN
    PROVE  /\ NewEntry(d, late) \in RouteEntry /\ Masked(NewEntry(d, late))
           /\ NewEntry(d, late).ip = d /\ NewEntry(d, late).self = FALSE
           /\ NewEntry(d, late).next_hop = d
  <1>1. d \in Addresses /\ d \in Nat /\ NULL \in Cells \cup {NULL}
    BY AodvNodeAssumption, RouteTableAssumption DEF Others, Locals
  <1>2. NewEntry(d, late) \in RouteEntry
    BY <1>1 DEF NewEntry, RouteEntry
  <1>3. /\ NewEntry(d, late).ip = d /\ NewEntry(d, late).netmask = {d}
        /\ NewEntry(d, late).next_hop = d
    BY DEF NewEntry
  <1>4. NewEntry(d, late).self = FALSE
    BY DEF NewEntry
  <1>5. Masked(NewEntry(d, late))
    BY <1>1, <1>3, <1>4 DEF Masked
  <1> QED  BY <1>2, <1>3, <1>4, <1>5

\* The addresses of a table without d leave room for it: those of the
\* neighbours and local hosts, 127.0.0.1, the device and the subnet.
LEMMA RoomForOne ==
    ASSUME NEW t, TableInv(t), NEW d \in Others, \A c \in DOMAIN t.cell : t.cell[c].ip # d
    PROVE  FreeCell(t) \in Cells /\ FreeCell(t) \notin DOMAIN t.cell
  <1> DEFINE H == Others \ {d}
             B == H \cup {LO, ME, SUBNET}
  <1>1. IsFiniteSet(Cells) /\ IsFiniteSet(Others) /\ Cardinality(Others) + 3 <= Cardinality(Cells)
    BY RouteTableAssumption, AodvNodeAssumption DEF Others
  <1>3. \A c \in DOMAIN t.cell : t.cell[c].ip \in B
    BY DEF TableInv, Masked
  <1>4. IsFiniteSet(H) /\ Cardinality(H) = Cardinality(Others) - 1 /\ Cardinality(Others) \in Nat
    BY <1>1, FS_RemoveElement, FS_CardinalityType
  <1> DEFINE H1 == H \cup {LO}
             H2 == H1 \cup {ME}
  <1> HIDE DEF H
  <1>5. IsFiniteSet(H1) /\ Cardinality(H1) \in {Cardinality(H), Cardinality(H) + 1}
    BY <1>4, FS_AddElement
  <1> HIDE DEF H1
  <1>6. IsFiniteSet(H2) /\ Cardinality(H2) \in {Cardinality(H1), Cardinality(H1) + 1}
    BY <1>5, FS_AddElement
  <1>7. B = H2 \cup {SUBNET}
    BY DEF H1
  <1> HIDE DEF H2, B
  <1>8. IsFiniteSet(B) /\ Cardinality(B) \in {Cardinality(H2), Cardinality(H2) + 1}
    BY <1>6, <1>7, FS_AddElement
  <1>9. Cardinality(Cells) \in Nat
    BY <1>1, FS_CardinalityType
  <1>10. Cardinality(B) <= Cardinality(Others) + 2
    BY <1>4, <1>5, <1>6, <1>8
  <1>11. Cardinality(B) \in Int
    BY <1>4, <1>5, <1>6, <1>8
  <1>12. Cardinality(B) < Cardinality(Cells)
    BY <1>1, <1>4, <1>9, <1>10, <1>11
  <1> QED  BY <1>3, <1>8, <1>12, Room

\* create_aodv_route lists an address that is not listed ...
LEMMA Made ==
    ASSUME NEW t, TableInv(t), NEW d \in Others, \A b \in DOMAIN t.cell : t.cell[b].ip # d,
           NEW late \in BOOLEAN
    PROVE  LET u == create_aodv_route(t, d, late)
               c == FreeCell(t)
           IN  /\ TableInv(u) /\ c \notin DOMAIN t.cell /\ DOMAIN u.cell = DOMAIN t.cell \cup {c}
               /\ u.cell[c].ip = d /\ u.cell[c].self = FALSE /\ u.cell[c].next_hop = d
               /\ \A b \in DOMAIN t.cell : Same(u.cell[b], t.cell[b])
  <1> DEFINE c == FreeCell(t)
             r == NewEntry(d, late)
             u == insert_aodv_route(t, c, r)
  <1>1. c \in Cells /\ c \notin DOMAIN t.cell
    BY RoomForOne
  <1>2. r \in RouteEntry /\ Masked(r) /\ r.ip = d /\ r.self = FALSE /\ r.next_hop = d
    BY NewEntryIs
  <1> HIDE DEF c, r
  <1>4. /\ TableInv(u) /\ DOMAIN u.cell = DOMAIN t.cell \cup {c}
        /\ Same(u.cell[c], r) /\ \A b \in DOMAIN t.cell : Same(u.cell[b], t.cell[b])
    BY <1>1, <1>2, Inserted
  <1>5. create_aodv_route(t, d, late) = u
    BY DEF create_aodv_route, c, r
  <1> HIDE DEF u
  <1>6. u.cell[c].ip = d /\ u.cell[c].self = FALSE /\ u.cell[c].next_hop = d
    BY <1>2, <1>4 DEF Same
  <1> QED  BY <1>1, <1>4, <1>5, <1>6 DEF c

\* ... and a neighbour is then learnt.
LEMMA Created ==
    ASSUME NEW t, TableInv(t), NEW d \in Hops, FoundCell(t, d) = NULL, NEW late \in BOOLEAN
    PROVE  LET u == create_aodv_route(t, d, late)
           IN  /\ TableInv(u) /\ FoundCell(u, d) \in Learnt(u) /\ u.cell[FoundCell(u, d)].ip = d
               /\ DOMAIN u.cell = DOMAIN t.cell \cup {FoundCell(u, d)}
               /\ Learnt(u) = Learnt(t) \cup {FoundCell(u, d)}
               /\ u.cell[FoundCell(u, d)].next_hop = d
               /\ \A b \in DOMAIN t.cell : Same(u.cell[b], t.cell[b]) /\ t.cell[b].ip # d
  <1> DEFINE u == create_aodv_route(t, d, late)
             c == FreeCell(t)
  <1>1. d \in Others /\ d \notin SUBNETMASK
    BY AodvNodeAssumption DEF Others
  <1>2. \A b \in DOMAIN t.cell : t.cell[b].ip # d
    <2>1. NULL \notin DOMAIN t.cell
      BY RouteTableAssumption DEF TableInv, Shape
    <2> QED  BY <2>1, FoundHop
  <1>3. /\ TableInv(u) /\ c \notin DOMAIN t.cell /\ DOMAIN u.cell = DOMAIN t.cell \cup {c}
        /\ u.cell[c].ip = d /\ u.cell[c].self = FALSE /\ u.cell[c].next_hop = d
        /\ \A b \in DOMAIN t.cell : Same(u.cell[b], t.cell[b])
    <2>1. CASE late = TRUE
      BY <1>1, <1>2, <2>1, Made
    <2>2. CASE late = FALSE
      BY <1>1, <1>2, <2>2, Made
    <2> QED  BY <2>1, <2>2
  <1> HIDE DEF u, c
  <1>4. FoundCell(u, d) = c
    BY <1>3, FoundHop
  <1>5. Learnt(u) = Learnt(t) \cup {c} /\ c \in Learnt(u)
    BY <1>1, <1>3 DEF Learnt, Same
  <1> QED  BY <1>2, <1>3, <1>4, <1>5 DEF u

-----------------------------------------------------------------------------
(* The two tables together, while the daemon runs.                         *)

Listing(t, k) ==
    /\ TableInv(t) /\ Mirrored(t, k, {ME})
    /\ \E c \in DOMAIN t.cell : t.cell[c].ip = ME

\* A route is alike, so the kernel needs no change.
LEMMA AlikeMirrored ==
    ASSUME NEW t, NEW u, Alike(t, u), NEW k, NEW own, Mirrored(t, k, own)
    PROVE  Mirrored(u, k, own)
  <1>1. Learnt(t) \subseteq DOMAIN t.cell
    BY DEF Learnt
  <1>2. \A c \in Learnt(t) : u.cell[c].ip = t.cell[c].ip /\ u.cell[c].next_hop = t.cell[c].next_hop
    BY <1>1 DEF Alike, Same
  <1> QED  BY <1>2 DEF Mirrored, Alike

\* So the two tables stay in step.
LEMMA AlikeListing ==
    ASSUME NEW t, NEW u, Alike(t, u), NEW k, Listing(t, k)
    PROVE  Listing(u, k)
  <1>1. \E c \in DOMAIN u.cell : u.cell[c].ip = ME
    BY DEF Listing, Alike, Same
  <1> QED  BY <1>1, AlikeMirrored DEF Listing, Alike

\* Likeness adds up.
LEMMA AlikeTwice ==
    ASSUME NEW t, NEW u, NEW v, Alike(t, u), Alike(u, v)
    PROVE  Alike(t, v)
  BY DEF Alike, Same

\* The route to d and the kernel's entry for it are replaced
\* (update_aodv_route, update_aodv_neigh_route): the table t is the old one,
\* or the old one with d in it.
LEMMA Routed ==
    ASSUME NEW s, NEW k, Listing(s, k), NEW d \in Hops, NEW t, TableInv(t),
           FoundCell(t, d) \in Learnt(t), t.cell[FoundCell(t, d)].ip = d,
           DOMAIN t.cell = DOMAIN s.cell \cup {FoundCell(t, d)},
           Learnt(t) = Learnt(s) \cup {FoundCell(t, d)},
           \A b \in DOMAIN s.cell : Same(t.cell[b], s.cell[b]),
           NEW r \in RouteEntry,
           r.ip = t.cell[FoundCell(t, d)].ip, r.next = t.cell[FoundCell(t, d)].next,
           r.prev = t.cell[FoundCell(t, d)].prev, r.self = t.cell[FoundCell(t, d)].self,
           r.netmask = t.cell[FoundCell(t, d)].netmask,
           NEW gw \in Addresses, gw = r.next_hop \/ r.next_hop = d
    PROVE  LET u == Written(t, FoundCell(t, d), r)
               n == insert_kernel_route_entry(delete_kernel_route_entry(k, d), d, gw)
           IN  /\ Listing(u, n)
               /\ FoundCell(u, d) = FoundCell(t, d) /\ u.cell[FoundCell(u, d)] = r /\ n[d] = gw
  <1> DEFINE c == FoundCell(t, d)
             u == Written(t, c, r)
             n == insert_kernel_route_entry(delete_kernel_route_entry(k, d), d, gw)
  <1>0. n = insert_kernel_route_entry(delete_kernel_route_entry(k, d), d, gw)
    OBVIOUS
  <1>1. c \in DOMAIN t.cell
    BY DEF Learnt
  <1>2. /\ c \in Learnt(t) /\ t.cell[c].ip = d
        /\ DOMAIN t.cell = DOMAIN s.cell \cup {c} /\ Learnt(t) = Learnt(s) \cup {c}
        /\ r.ip = d
    OBVIOUS
  <1>3. /\ TableInv(u) /\ DOMAIN u.cell = DOMAIN t.cell /\ Learnt(u) = Learnt(t)
        /\ FoundCell(u, d) = c
        /\ \A b \in DOMAIN t.cell : u.cell[b] = IF b = c THEN r ELSE t.cell[b]
    BY <1>1, WriteEntry
  <1> HIDE DEF u, n, c
  <1>4. /\ DOMAIN n = DOMAIN k \cup {d} /\ n[d] = gw
        /\ \A x \in DOMAIN k : x # d => n[x] = k[x]
    <2>1. DOMAIN n = DOMAIN k \cup {d}
      BY <1>0 DEF insert_kernel_route_entry, delete_kernel_route_entry, Restrict
    <2>2. n[d] = gw
      BY <1>0 DEF insert_kernel_route_entry
    <2>3. \A x \in DOMAIN k : x # d => n[x] = k[x]
      BY <1>0 DEF insert_kernel_route_entry, delete_kernel_route_entry, Restrict
    <2> QED  BY <2>1, <2>2, <2>3
  <1>5. \A b \in DOMAIN t.cell : b # c => t.cell[b].ip # d
    BY <1>1, <1>2, Listed
  <1>6. /\ \A b \in Learnt(s) : b \in DOMAIN s.cell /\ b \in DOMAIN t.cell /\ b \in DOMAIN u.cell
        /\ \A b \in DOMAIN s.cell :
             b # c => /\ u.cell[b].ip = s.cell[b].ip /\ u.cell[b].next_hop = s.cell[b].next_hop
                      /\ u.cell[b].ip # d
    BY <1>2, <1>3, <1>5 DEF Learnt, Same
  <1>7. u.cell[c] = r /\ \A b \in DOMAIN s.cell : b = c => s.cell[b].ip = d
    BY <1>1, <1>2, <1>3 DEF Same, c
  <1>8. /\ DOMAIN k = {ME} \cup {s.cell[b].ip : b \in Learnt(s)}
        /\ \A x \in DOMAIN k : k[x] \in Addresses
        /\ \A b \in Learnt(s) : k[s.cell[b].ip] = s.cell[b].next_hop \/ s.cell[b].next_hop = s.cell[b].ip
    BY DEF Listing, Mirrored
  <1>9. DOMAIN n = {ME} \cup {u.cell[b].ip : b \in Learnt(u)}
    <2>1. \A b \in Learnt(s) : u.cell[b].ip = s.cell[b].ip
      BY <1>2, <1>6, <1>7
    <2>2. Learnt(u) = Learnt(s) \cup {c} /\ u.cell[c].ip = d
      BY <1>2, <1>3, <1>7
    <2> QED  BY <1>4, <1>8, <2>1, <2>2
  <1>10. \A x \in DOMAIN n : n[x] \in Addresses
    BY <1>4, <1>8
  <1>11. ASSUME NEW b \in Learnt(u)
         PROVE  n[u.cell[b].ip] = u.cell[b].next_hop \/ u.cell[b].next_hop = u.cell[b].ip
    <2>1. CASE b = c
      BY <1>2, <1>4, <1>7, <2>1
    <2>2. CASE b # c
      <3>1. b \in Learnt(s)
        BY <1>2, <1>3, <2>2
      <3>2. s.cell[b].ip \in DOMAIN k
        BY <1>8, <3>1
      <3> QED  BY <1>4, <1>6, <1>8, <2>2, <3>1, <3>2
    <2> QED  BY <2>1, <2>2
  <1>12. \E b \in DOMAIN u.cell : u.cell[b].ip = ME
    <2>1. PICK b \in DOMAIN s.cell : s.cell[b].ip = ME
      BY DEF Listing
    <2>2. ME # d
      BY AodvNodeAssumption
    <2>3. b # c /\ b \in DOMAIN u.cell
      BY <1>2, <1>3, <1>7, <2>1, <2>2
    <2> QED  BY <1>6, <2>1, <2>3
  <1>13. Listing(u, n)
    BY <1>3, <1>9, <1>10, <1>11, <1>12 DEF Listing, Mirrored
  <1> QED  BY <1>3, <1>4, <1>7, <1>13 DEF u, n, c

\* An entry that is not the daemon's own goes, and with it the kernel's if
\* it has one (delete_aodv_neigh, flush_aodv_route_table).
LEMMA Unrouted ==
    ASSUME NEW t, NEW k, Listing(t, k), NEW c \in DOMAIN t.cell, ~t.cell[c].self
    PROVE  Listing(remove_aodv_route(t, c), delete_kernel_route_entry(k, t.cell[c].ip))
  <1> DEFINE u == remove_aodv_route(t, c)
             n == delete_kernel_route_entry(k, t.cell[c].ip)
  <1>1. c \in DOMAIN t.cell /\ TableInv(t)
    BY DEF Listing
  <1>2. /\ TableInv(u) /\ DOMAIN u.cell = DOMAIN t.cell \ {c}
        /\ \A b \in DOMAIN u.cell : Same(u.cell[b], t.cell[b])
    BY <1>1, Removed
  <1>3. /\ DOMAIN n = DOMAIN k \ {t.cell[c].ip}
        /\ \A x \in DOMAIN n : n[x] = k[x]
    BY DEF delete_kernel_route_entry, Restrict
  <1> HIDE DEF u, n
  <1>4. \A b \in DOMAIN u.cell : t.cell[b].ip # t.cell[c].ip
    BY <1>1, <1>2, Listed
  <1>5. Learnt(u) = Learnt(t) \ {c} /\ \A b \in Learnt(u) : b \in DOMAIN u.cell
    BY <1>2 DEF Learnt, Same
  <1>6. \A b \in DOMAIN u.cell : u.cell[b].ip = t.cell[b].ip /\ u.cell[b].next_hop = t.cell[b].next_hop
    BY <1>2 DEF Same
  <1>7. /\ DOMAIN k = {ME} \cup {t.cell[b].ip : b \in Learnt(t)}
        /\ \A x \in DOMAIN k : k[x] \in Addresses
        /\ \A b \in Learnt(t) : k[t.cell[b].ip] = t.cell[b].next_hop \/ t.cell[b].next_hop = t.cell[b].ip
    BY DEF Listing, Mirrored
  <1>8. t.cell[c].ip # ME
    <2>1. Masked(t.cell[c])
      BY <1>1 DEF TableInv
    <2> QED  BY <2>1, AodvNodeAssumption, RouteTableAssumption DEF Masked, Others, Locals
  <1>9. DOMAIN n = {ME} \cup {u.cell[b].ip : b \in Learnt(u)}
    <2>1. {u.cell[b].ip : b \in Learnt(u)} = {t.cell[b].ip : b \in Learnt(t)} \ {t.cell[c].ip}
      BY <1>4, <1>5, <1>6
    <2> QED  BY <1>3, <1>7, <1>8, <2>1
  <1>10. \A b \in Learnt(u) : n[u.cell[b].ip] = u.cell[b].next_hop \/ u.cell[b].next_hop = u.cell[b].ip
    <2> TAKE b \in Learnt(u)
    <2>1. b \in Learnt(t) /\ u.cell[b].ip \in DOMAIN n
      BY <1>5, <1>9
    <2> QED  BY <1>3, <1>5, <1>6, <1>7, <2>1
  <1>11. \E b \in DOMAIN u.cell : u.cell[b].ip = ME
    <2>1. PICK b \in DOMAIN t.cell : t.cell[b].ip = ME
      BY DEF Listing
    <2>2. b \in DOMAIN u.cell
      BY <1>2, <1>8, <2>1
    <2> QED  BY <1>6, <2>1, <2>2
  <1>12. \A x \in DOMAIN n : n[x] \in Addresses
    BY <1>3, <1>7
  <1> QED  BY <1>2, <1>9, <1>10, <1>11, <1>12 DEF Listing, Mirrored, u, n

-----------------------------------------------------------------------------
(* The handlers.                                                           *)

\* The neighbours are addresses.
LEMMA HopsAre ==
    /\ Dests \subseteq Hops /\ Hops \subseteq Addresses /\ MaxSeq \in Nat
    /\ \A d \in Dests : d \in Ips
  BY AodvNodeAssumption

\* What find_aodv_route returns for a neighbour, in the table it leaves.
LEMMA SearchedHop ==
    ASSUME NEW t, TableInv(t), NEW d \in Hops
    PROVE  LET u == find_aodv_route(t, d)
               c == FoundCell(u, d)
           IN  /\ Alike(t, u) /\ TableInv(u) /\ c = FoundCell(t, d)
               /\ c # NULL => /\ c \in DOMAIN u.cell /\ c \in Learnt(u) /\ u.cell[c].ip = d
                              /\ u.cell[c] \in RouteEntry
  <1> DEFINE u == find_aodv_route(t, d)
             c == FoundCell(u, d)
  <1>1. Alike(t, u)
    BY Searched
  <1> HIDE DEF u
  <1>2. TableInv(u) /\ c = FoundCell(t, d)
    BY <1>1 DEF Alike
  <1>3. c # NULL => c \in Learnt(u) /\ u.cell[c].ip = d
    BY <1>2, FoundHop
  <1>4. c # NULL => c \in DOMAIN u.cell
    BY <1>3 DEF Learnt
  <1>5. Shape(u)
    BY <1>2 DEF TableInv
  <1>6. c # NULL => u.cell[c] \in RouteEntry
    BY <1>4, <1>5, EntryTypes
  <1> QED  BY <1>1, <1>2, <1>3, <1>4, <1>6 DEF u

\* A write that leaves address, links, netmask and next hop alone leaves the
\* table alike.
LEMMA WriteAlike ==
    ASSUME NEW t, TableInv(t), NEW c \in DOMAIN t.cell, NEW r \in RouteEntry,
           r.next = t.cell[c].next, r.prev = t.cell[c].prev, Same(r, t.cell[c])
    PROVE  Alike(t, Written(t, c, r))
  <1>1. /\ r.ip = t.cell[c].ip /\ r.self = t.cell[c].self /\ r.netmask = t.cell[c].netmask
    BY DEF Same
  <1> DEFINE u == Written(t, c, r)
  <1>2. /\ TableInv(u) /\ DOMAIN u.cell = DOMAIN t.cell /\ Learnt(u) = Learnt(t)
        /\ \A ip : FoundCell(u, ip) = FoundCell(t, ip)
        /\ \A b \in DOMAIN t.cell : u.cell[b] = IF b = c THEN r ELSE t.cell[b]
    BY <1>1, WriteEntry
  <1> HIDE DEF u
  <1> QED  BY <1>2 DEF Alike, Same, u

\* A look-up.
LEMMA LookUpStep ==
    ASSUME Listing(table, kernel), NEW ip, LookUp(ip)
    PROVE  Listing(table', kernel') /\ Alike(table, table')
  <1>1. Alike(table, find_aodv_route(table, ip))
    BY Searched DEF Listing
  <1>2. table' = find_aodv_route(table, ip) /\ kernel' = kernel
    BY DEF LookUp
  <1> QED  BY <1>1, <1>2, AlikeListing

\* An error from a neighbour.
LEMMA ErrorStep ==
    ASSUME Listing(table, kernel), NEW d \in Dests, NEW x \in Hops, NEW s \in 1 .. MaxSeq, recv_rerr(x, d, s)
    PROVE  Listing(table', kernel')
  <1> DEFINE t == find_aodv_route(table, d)
             c == FoundCell(t, d)
             told == [t.cell[c] EXCEPT !.seq = s]
             r == IF told.valid THEN expire_aodv_route(told) ELSE told
             skip == c = NULL \/ t.cell[c].self \/ t.cell[c].next_hop # x
  <1>1. IF skip THEN LookUp(d) ELSE table' = Written(t, c, r) /\ UNCHANGED kernel
    BY Zenon DEF recv_rerr
  <1>2. /\ Alike(table, t) /\ TableInv(t)
        /\ c # NULL => c \in DOMAIN t.cell /\ t.cell[c] \in RouteEntry
    BY HopsAre, SearchedHop DEF Listing
  <1> HIDE DEF t, c
  <1>3. CASE skip
    BY <1>1, <1>3, LookUpStep
  <1>4. CASE ~skip
    <2>1. c \in DOMAIN t.cell /\ t.cell[c] \in RouteEntry
      BY <1>2, <1>4
    <2>2. s \in Nat
      OBVIOUS
    <2>3. /\ told \in RouteEntry /\ Same(told, t.cell[c])
          /\ told.next = t.cell[c].next /\ told.prev = t.cell[c].prev
      BY <2>1, <2>2 DEF RouteEntry, Same
    <2> HIDE DEF told
    <2>4. r \in RouteEntry /\ Same(r, t.cell[c]) /\ r.next = t.cell[c].next /\ r.prev = t.cell[c].prev
      <3>1. CASE told.valid
        <4>1. r = expire_aodv_route(told)
          BY <3>1
        <4> HIDE DEF r
        <4>2. /\ r \in RouteEntry /\ Same(r, told) /\ r.next = told.next /\ r.prev = told.prev
          BY <2>3, <4>1, ExpiredEntry
        <4> QED  BY <2>3, <4>2 DEF Same
      <3>2. CASE ~told.valid
        BY <2>3, <3>2
      <3> QED  BY <3>1, <3>2
    <2> HIDE DEF r
    <2>5. Alike(t, Written(t, c, r))
      BY <1>2, <2>1, <2>4, WriteAlike
    <2>6. table' = Written(t, c, r) /\ kernel' = kernel
      BY <1>1, <1>4
    <2> QED  BY <1>2, <2>5, <2>6, AlikeTwice, AlikeListing
  <1> QED  BY <1>3, <1>4

\* A neighbour is lost.
LEMMA LostStep ==
    ASSUME Listing(table, kernel), NEW x \in Hops, delete_aodv_neigh(x)
    PROVE  Listing(table', kernel')
  <1> DEFINE t == find_aodv_route(table, x)
             c == FoundCell(t, x)
             skip == c = NULL \/ t.cell[c].next_hop # t.cell[c].ip
             u == gen_rerr(t, x)
  <1>1. IF skip THEN LookUp(x)
        ELSE table' = remove_aodv_route(u, c) /\ kernel' = delete_kernel_route_entry(kernel, x)
    BY Zenon DEF delete_aodv_neigh
  <1>2. /\ Alike(table, t) /\ TableInv(t)
        /\ c # NULL => c \in DOMAIN t.cell /\ c \in Learnt(t) /\ t.cell[c].ip = x
    BY SearchedHop DEF Listing
  <1>3. Alike(t, u)
    BY <1>2, Ended
  <1> HIDE DEF t, c, u
  <1>4. CASE skip
    BY <1>1, <1>4, LookUpStep
  <1>5. CASE ~skip
    <2>1. c \in DOMAIN u.cell /\ ~u.cell[c].self /\ u.cell[c].ip = x
      BY <1>2, <1>3, <1>5 DEF Alike, Same, Learnt
    <2>2. Listing(u, kernel)
      BY <1>2, <1>3, AlikeTwice, AlikeListing
    <2>3. Listing(remove_aodv_route(u, c), delete_kernel_route_entry(kernel, x))
      BY <2>1, <2>2, Unrouted
    <2> QED  BY <1>1, <1>5, <2>3
  <1> QED  BY <1>4, <1>5

\* No entry is for the local host d if its subnet's is found.
LEMMA NotListed ==
    ASSUME NEW t, TableInv(t), NEW d \in Locals, FoundCell(t, d) # NULL,
           t.cell[FoundCell(t, d)].netmask # {t.cell[FoundCell(t, d)].ip}
    PROVE  \A b \in DOMAIN t.cell : t.cell[b].ip # d
  <1> DEFINE c == FoundCell(t, d)
  <1>1. d \in Addresses /\ d \in Nat /\ d \notin {LO, ME, SUBNET}
    BY RouteTableAssumption DEF Locals
  <1>2. /\ c \in DOMAIN t.cell /\ d \in t.cell[c].netmask
        /\ \A b \in DOMAIN t.cell : d \in t.cell[b].netmask => t.cell[b].ip <= t.cell[c].ip
    BY <1>1, FoundIs
  <1> HIDE DEF c
  <1>3. \A b \in DOMAIN t.cell : Masked(t.cell[b]) /\ t.cell[b].ip \in Nat
    BY EntryTypes DEF TableInv
  <1>4. t.cell[c].ip # d
    BY <1>1, <1>2, <1>3 DEF Masked, c
  <1> SUFFICES ASSUME NEW b \in DOMAIN t.cell, t.cell[b].ip = d PROVE FALSE
    OBVIOUS
  <1>5. d \in t.cell[b].netmask
    BY <1>3 DEF Masked
  <1>6. d <= t.cell[c].ip /\ t.cell[c].ip <= d
    BY <1>2, <1>3, <1>5 DEF Masked
  <1>7. t.cell[c].ip \in Nat
    BY <1>2, <1>3
  <1> QED  BY <1>1, <1>4, <1>6, <1>7

\* A request for a local host: the new entry asks nothing of the kernel.
LEMMA LocalStep ==
    ASSUME Listing(table, kernel), NEW d \in Locals, reply_to_rreq(d)
    PROVE  Listing(table', kernel')
  <1> DEFINE t == find_aodv_route(table, d)
             c == FoundCell(t, d)
             new == FreeCell(t)
             u == create_aodv_route(t, d, FALSE)
             n == MyRoute(t).seq
             r == [u.cell[new] EXCEPT !.seq = n, !.next_hop = d, !.metric = 1, !.valid = TRUE]
             skip == c = NULL \/ t.cell[c].netmask = {t.cell[c].ip}
  <1>1. IF skip THEN LookUp(d) ELSE table' = Written(u, new, r) /\ UNCHANGED kernel
    BY Zenon DEF reply_to_rreq
  <1>2. Alike(table, t)
    BY Searched DEF Listing
  <1>3. Listing(t, kernel)
    BY <1>2, AlikeListing
  <1> HIDE DEF t
  <1>4. TableInv(t) /\ Shape(t)
    BY <1>3 DEF Listing, TableInv
  <1>5. CASE skip
    BY <1>1, <1>5, LookUpStep
  <1>6. CASE ~skip
    <2>1. d \in Others /\ d \in SUBNETMASK /\ d \in Addresses
      BY RouteTableAssumption DEF Others, Locals
    <2>2. \A b \in DOMAIN t.cell : t.cell[b].ip # d
      BY <1>4, <1>6, NotListed
    <2>3. /\ TableInv(u) /\ new \notin DOMAIN t.cell /\ DOMAIN u.cell = DOMAIN t.cell \cup {new}
          /\ u.cell[new].ip = d /\ u.cell[new].self = FALSE /\ u.cell[new].next_hop = d
          /\ \A b \in DOMAIN t.cell : Same(u.cell[b], t.cell[b])
      <3>1. FALSE \in BOOLEAN
        OBVIOUS
      <3> QED  BY <1>4, <2>1, <2>2, <3>1, Made
    <2>4. n \in Nat
      <3>1. PICK b \in DOMAIN t.cell : t.cell[b].ip = ME
        BY <1>3 DEF Listing
      <3>2. ME \in t.cell[b].netmask /\ ME \in Addresses
        BY <1>4, <3>1, RouteTableAssumption DEF TableInv, Masked
      <3>3. FoundCell(t, ME) \in DOMAIN t.cell
        BY <1>4, <3>2, FoundIs
      <3> HIDE DEF n
      <3>4. t.cell[FoundCell(t, ME)] \in RouteEntry
        BY <1>4, <3>3, EntryTypes
      <3> QED  BY <3>4 DEF RouteEntry, n, MyRoute
    <2> HIDE DEF u, new, n, c
    <2>5. Listing(u, kernel)
      <3>1. Learnt(u) = Learnt(t)
        BY <2>1, <2>3 DEF Learnt, Same
      <3>2. /\ \A b \in Learnt(t) : b \in DOMAIN t.cell
            /\ \A b \in DOMAIN t.cell : u.cell[b].ip = t.cell[b].ip /\ u.cell[b].next_hop = t.cell[b].next_hop
        BY <2>3 DEF Learnt, Same
      <3>3. Mirrored(u, kernel, {ME})
        <4>1. Mirrored(t, kernel, {ME})
          BY <1>3 DEF Listing
        <4>2. {u.cell[b].ip : b \in Learnt(u)} = {t.cell[b].ip : b \in Learnt(t)}
          BY <3>1, <3>2
        <4> QED  BY <3>1, <3>2, <4>1, <4>2 DEF Mirrored
      <3>4. \E b \in DOMAIN u.cell : u.cell[b].ip = ME
        BY <1>3, <2>3, <3>2 DEF Listing
      <3> QED  BY <2>3, <3>3, <3>4 DEF Listing
    <2>6. u.cell[new] \in RouteEntry
      BY <2>3, EntryTypes DEF TableInv
    <2>7. r \in RouteEntry /\ Same(r, u.cell[new]) /\ r.next = u.cell[new].next /\ r.prev = u.cell[new].prev
      BY <2>1, <2>3, <2>4, <2>6 DEF RouteEntry, Same
    <2> HIDE DEF r
    <2>8. Alike(u, Written(u, new, r))
      BY <2>3, <2>7, WriteAlike
    <2>9. table' = Written(u, new, r) /\ kernel' = kernel
      BY <1>1, <1>6
    <2> QED  BY <2>5, <2>8, <2>9, AlikeListing
  <1> QED  BY <1>5, <1>6

\* The flush visits a cell.
LEMMA FlushStep ==
    ASSUME Listing(table, kernel), NEW c \in DOMAIN table.cell, flush_aodv_route_table(c)
    PROVE  Listing(table', kernel')
  <1>1. TableInv(table) /\ Shape(table) /\ table.cell[c] \in RouteEntry
    BY EntryTypes DEF Listing, TableInv
  <1> DEFINE r == expire_aodv_route(table.cell[c])
  <1>2. CASE table.cell[c].valid
    <2>1. table' = Written(table, c, r) /\ kernel' = kernel
      BY <1>2 DEF flush_aodv_route_table
    <2>2. /\ r \in RouteEntry /\ Same(r, table.cell[c])
          /\ r.next = table.cell[c].next /\ r.prev = table.cell[c].prev
      BY <1>1, ExpiredEntry
    <2> HIDE DEF r
    <2>3. Alike(table, Written(table, c, r))
      BY <1>1, <2>2, WriteAlike
    <2> QED  BY <2>1, <2>3, AlikeListing
  <1>3. CASE ~table.cell[c].valid
    <2>1. ~table.cell[c].self
      BY DEF flush_aodv_route_table
    <2>2. /\ table' = remove_aodv_route(table, c)
          /\ kernel' = delete_kernel_route_entry(kernel, table.cell[c].ip)
      BY <1>3 DEF flush_aodv_route_table
    <2> QED  BY <2>1, <2>2, Unrouted
  <1> QED  BY <1>2, <1>3

\* The table with an entry for d, as LearnRoute and update_aodv_neigh_route
\* go on from it.
LEMMA WithEntry ==
    ASSUME NEW s, NEW k, Listing(s, k), NEW d \in Hops, NEW late \in BOOLEAN
    PROVE  LET u == find_aodv_route(s, d)
               t == IF FoundCell(u, d) # NULL THEN u ELSE create_aodv_route(u, d, late)
               c == FoundCell(t, d)
           IN  /\ Listing(u, k) /\ TableInv(t)
               /\ c \in Learnt(t) /\ t.cell[c].ip = d /\ t.cell[c] \in RouteEntry
               /\ t.cell[c].next_hop \in Addresses
               /\ DOMAIN t.cell = DOMAIN u.cell \cup {c} /\ Learnt(t) = Learnt(u) \cup {c}
               /\ \A b \in DOMAIN u.cell : Same(t.cell[b], u.cell[b])
  <1> DEFINE u == find_aodv_route(s, d)
             t == IF FoundCell(u, d) # NULL THEN u ELSE create_aodv_route(u, d, late)
             c == FoundCell(t, d)
  <1>1. Alike(s, u) /\ TableInv(u)
    BY SearchedHop DEF Listing
  <1>2. Listing(u, k)
    BY <1>1, AlikeListing
  <1>3. FoundCell(u, d) # NULL => FoundCell(u, d) \in Learnt(u) /\ u.cell[FoundCell(u, d)].ip = d
    BY <1>1, FoundHop
  <1> HIDE DEF u
  <1>4. /\ TableInv(t) /\ c \in Learnt(t) /\ t.cell[c].ip = d
        /\ DOMAIN t.cell = DOMAIN u.cell \cup {c} /\ Learnt(t) = Learnt(u) \cup {c}
        /\ \A b \in DOMAIN u.cell : Same(t.cell[b], u.cell[b])
    <2>1. CASE FoundCell(u, d) # NULL
      <3>1. t = u
        BY <2>1
      <3> HIDE DEF t
      <3> QED  BY <1>1, <1>3, <2>1, <3>1 DEF Learnt, Same
    <2>2. CASE FoundCell(u, d) = NULL
      <3>1. t = create_aodv_route(u, d, late)
        BY <2>2
      <3> HIDE DEF t
      <3> QED  BY <1>1, <2>2, <3>1, Created
    <2> QED  BY <2>1, <2>2
  <1> HIDE DEF t
  <1>5. Shape(t) /\ c \in DOMAIN t.cell
    BY <1>4 DEF TableInv, Learnt
  <1>6. t.cell[c] \in RouteEntry /\ t.cell[c].next_hop \in Addresses
    BY <1>5, EntryTypes
  <1> QED  BY <1>2, <1>4, <1>6 DEF u, t

\* A hello.
LEMMA HelloStep ==
    ASSUME Listing(table, kernel), NEW x \in Hops, NEW s \in Nat, update_aodv_neigh_route(x, s)
    PROVE  Listing(table', kernel')
  <1> DEFINE u == find_aodv_route(table, x)
             t == IF FoundCell(u, x) # NULL THEN u ELSE create_aodv_route(u, x, FALSE)
             c == FoundCell(t, x)
             r == [t.cell[c] EXCEPT !.overdue = FALSE, !.next_hop = x, !.valid = TRUE, !.seq = s, !.metric = 1]
             gw == t.cell[c].next_hop
  <1>1. /\ Listing(u, kernel) /\ TableInv(t)
        /\ c \in Learnt(t) /\ t.cell[c].ip = x /\ t.cell[c] \in RouteEntry /\ gw \in Addresses
        /\ DOMAIN t.cell = DOMAIN u.cell \cup {c} /\ Learnt(t) = Learnt(u) \cup {c}
        /\ \A b \in DOMAIN u.cell : Same(t.cell[b], u.cell[b])
    <2>1. \A late \in BOOLEAN :
            LET v == find_aodv_route(table, x)
                y == IF FoundCell(v, x) # NULL THEN v ELSE create_aodv_route(v, x, late)
                a == FoundCell(y, x)
            IN  /\ Listing(v, kernel) /\ TableInv(y)
                /\ a \in Learnt(y) /\ y.cell[a].ip = x /\ y.cell[a] \in RouteEntry
                /\ y.cell[a].next_hop \in Addresses
                /\ DOMAIN y.cell = DOMAIN v.cell \cup {a} /\ Learnt(y) = Learnt(v) \cup {a}
                /\ \A b \in DOMAIN v.cell : Same(y.cell[b], v.cell[b])
      BY WithEntry
    <2>2. FALSE \in BOOLEAN
      OBVIOUS
    <2> QED  BY <2>1, <2>2
  <1>2. /\ table' = Written(t, c, r)
        /\ kernel' = insert_kernel_route_entry(delete_kernel_route_entry(kernel, x), x, gw)
    BY DEF update_aodv_neigh_route
  <1> HIDE DEF u, t, gw
  <1>3. x \in Addresses /\ s \in Nat /\ 1 \in Nat
    BY HopsAre
  <1>4. /\ r \in RouteEntry /\ r.ip = t.cell[c].ip /\ r.next = t.cell[c].next /\ r.prev = t.cell[c].prev
        /\ r.self = t.cell[c].self /\ r.netmask = t.cell[c].netmask /\ r.next_hop = x
    BY <1>1, <1>3 DEF RouteEntry
  <1> HIDE DEF r
  <1> QED  BY <1>1, <1>2, <1>4, Routed

\* A route is learnt; the kernel's leads to the same next hop.
LEMMA LearnStep ==
    ASSUME Listing(table, kernel), NEW d \in Hops, NEW x \in Hops, NEW m \in Nat, NEW s \in Nat,
           LearnRoute(d, x, m, s)
    PROVE  LET c == FoundCell(table, d)' IN
           /\ Listing(table', kernel')
           /\ c # NULL /\ kernel'[d] = table'.cell[c].next_hop
  <1> DEFINE u == find_aodv_route(table, d)
  <1>1. PICK late \in BOOLEAN :
          LET t == IF FoundCell(u, d) # NULL THEN u ELSE create_aodv_route(u, d, late)
              c == FoundCell(t, d)
          IN  /\ table' = Written(t, c, [t.cell[c] EXCEPT !.seq = s, !.next_hop = x, !.metric = m, !.valid = TRUE])
              /\ kernel' = insert_kernel_route_entry(delete_kernel_route_entry(kernel, d), d, x)
    <2>1. CASE FoundCell(u, d) # NULL
      <3>1. LET c == FoundCell(u, d)
            IN  /\ table' = Written(u, c, [u.cell[c] EXCEPT !.seq = s, !.next_hop = x, !.metric = m, !.valid = TRUE])
                /\ kernel' = insert_kernel_route_entry(delete_kernel_route_entry(kernel, d), d, x)
        BY <2>1 DEF LearnRoute, KernelGateway
      <3>2. TRUE \in BOOLEAN
        OBVIOUS
      <3> HIDE DEF u
      <3> QED  BY <2>1, <3>1, <3>2
    <2>2. CASE FoundCell(u, d) = NULL
      BY <2>2 DEF LearnRoute, KernelGateway
    <2> QED  BY <2>1, <2>2
  <1> DEFINE t == IF FoundCell(u, d) # NULL THEN u ELSE create_aodv_route(u, d, late)
             c == FoundCell(t, d)
             r == [t.cell[c] EXCEPT !.seq = s, !.next_hop = x, !.metric = m, !.valid = TRUE]
  <1>2. /\ Listing(u, kernel) /\ TableInv(t)
        /\ c \in Learnt(t) /\ t.cell[c].ip = d /\ t.cell[c] \in RouteEntry
        /\ DOMAIN t.cell = DOMAIN u.cell \cup {c} /\ Learnt(t) = Learnt(u) \cup {c}
        /\ \A b \in DOMAIN u.cell : Same(t.cell[b], u.cell[b])
    BY WithEntry
  <1>3. /\ table' = Written(t, c, r)
        /\ kernel' = insert_kernel_route_entry(delete_kernel_route_entry(kernel, d), d, x)
    BY <1>1
  <1> HIDE DEF u, t
  <1>4. x \in Addresses
    BY HopsAre
  <1>5. /\ r \in RouteEntry /\ r.ip = t.cell[c].ip /\ r.next = t.cell[c].next /\ r.prev = t.cell[c].prev
        /\ r.self = t.cell[c].self /\ r.netmask = t.cell[c].netmask /\ r.next_hop = x
    BY <1>2, <1>4 DEF RouteEntry
  <1> HIDE DEF r
  <1>6. /\ Listing(table', kernel') /\ FoundCell(table', d) = c /\ table'.cell[FoundCell(table', d)] = r
        /\ kernel'[d] = x
    BY <1>2, <1>3, <1>4, <1>5, Routed
  <1>7. c # NULL
    BY <1>2, RouteTableAssumption DEF Learnt, TableInv, Shape
  <1>8. FoundCell(table, d)' = FoundCell(table', d)
    BY DEF FoundCell, Walk, Links, Visited, compare_aodv_route
  <1> QED  BY <1>5, <1>6, <1>7, <1>8

-----------------------------------------------------------------------------
(* The invariant.                                                          *)

\* While the module is there, the two tables are in step.
LEMMA WhileLoaded ==
    ASSUME NodeInv, rmmod # "gone"
    PROVE  Listing(table, kernel)
  <1>1. (IF rmmod = "gone" THEN {} ELSE {ME}) = {ME}
    OBVIOUS
  <1> QED  BY <1>1 DEF NodeInv, Unloading, Listing

\* A thread that is idle sends nothing.
LEMMA IdleThread ==
    ASSUME QInv, drain["thread"].op = "idle"
    PROVE  Sending
  <1>1. "thread" \in Drainers
    BY AodvNodeAssumption DEF Drainers
  <1>2. drain["thread"].e = None
    BY <1>1 DEF QInv, Loops
  <1> QED  BY <1>2 DEF Sending

\* What the thread sends, it goes on sending while the table stays alike.
LEMMA StillSending ==
    ASSUME NodeInv, Alike(table, table'), UNCHANGED <<kernel, drain>>
    PROVE  Sending'
  <1>1. Sending /\ TableInv(table)
    BY DEF NodeInv
  <1>2. ASSUME drain["thread"].op = "send"
        PROVE  LET c == FoundCell(table', drain["thread"].ip)
               IN  /\ drain["thread"].ip \in Hops /\ c # NULL
                   /\ kernel[drain["thread"].ip] = table'.cell[c].next_hop
    <2> DEFINE d == drain["thread"].ip
               c == FoundCell(table, d)
    <2>1. d \in Hops /\ c # NULL /\ kernel[d] = table.cell[c].next_hop
      BY <1>1, <1>2 DEF Sending
    <2>2. c \in DOMAIN table.cell
      BY <1>1, <2>1, FoundHop DEF Learnt
    <2>3. FoundCell(table', d) = c /\ table'.cell[c].next_hop = table.cell[c].next_hop
      BY <2>2 DEF Alike, Same
    <2> QED  BY <2>1, <2>3
  <1> QED  BY <1>1, <1>2 DEF Sending

\* Where a step leaves rmmod alone, the tables may be replaced by others that
\* are in step.
LEMMA InStep ==
    ASSUME NodeInv, rmmod # "gone", UNCHANGED rmmod, Listing(table', kernel'), Sending',
           verdict' \in [Entries -> {"none", "NF_ACCEPT", "NF_QUEUE"}],
           rmmod = "killed" => drain'["thread"].op = "idle"
    PROVE  NodeInv'
  <1>1. (IF rmmod' = "gone" THEN {} ELSE {ME}) = {ME}
    OBVIOUS
  <1>2. TableInv(table') /\ Mirrored(table', kernel', IF rmmod' = "gone" THEN {} ELSE {ME})
    BY <1>1 DEF Listing
  <1>3. Unloading'
    BY DEF NodeInv, Unloading, Listing
  <1> QED  BY <1>2, <1>3 DEF NodeInv

\* A packet in the output hook.
LEMMA HookInv ==
    ASSUME QInv, QInv', NodeInv, NEW e \in Entries, output_handler(e)
    PROVE  NodeInv'
  <1>1. rmmod = "loaded" /\ UNCHANGED <<rmmod, drain>> /\ (Accept(e) \/ Queue(e))
    BY DEF output_handler, qvars
  <1>2. Listing(table, kernel)
    BY <1>1, WhileLoaded
  <1>3. TableInv(table) /\ verdict \in [Entries -> {"none", "NF_ACCEPT", "NF_QUEUE"}]
    BY DEF NodeInv, Unloading
  <1>4. Alike(table, table') /\ UNCHANGED kernel
        /\ verdict' \in [Entries -> {"none", "NF_ACCEPT", "NF_QUEUE"}]
    <2>1. CASE Accept(e)
      <3> DEFINE t == find_aodv_route(table, Dst[e])
                 c == FoundCell(t, Dst[e])
                 r == [t.cell[c] EXCEPT !.overdue = FALSE]
      <3>1. /\ HasRoute(t, Dst[e]) /\ kernel' = kernel
            /\ table' = IF t.cell[c].self THEN t ELSE Written(t, c, r)
            /\ verdict' = [verdict EXCEPT ![e] = "NF_ACCEPT"]
        BY <2>1 DEF Accept
      <3>2. Dst[e] \in Addresses
        BY PacketQueueAssumption, AodvNodeAssumption
      <3>3. Alike(table, t)
        BY <1>3, Searched
      <3>4. c # NULL
        BY <3>1 DEF HasRoute
      <3> HIDE DEF t
      <3>5. TableInv(t) /\ Shape(t)
        BY <3>3 DEF Alike, TableInv
      <3>6. c \in DOMAIN t.cell
        BY <3>2, <3>4, <3>5, FoundIs
      <3> HIDE DEF c
      <3>7. t.cell[c] \in RouteEntry
        BY <3>5, <3>6, EntryTypes
      <3>8. r \in RouteEntry /\ Same(r, t.cell[c]) /\ r.next = t.cell[c].next /\ r.prev = t.cell[c].prev
        BY <3>7 DEF RouteEntry, Same
      <3> HIDE DEF r
      <3>9. Alike(t, Written(t, c, r))
        BY <3>5, <3>6, <3>8, WriteAlike
      <3>10. Alike(table, table')
        BY <3>1, <3>3, <3>9, AlikeTwice
      <3> QED  BY <1>3, <3>1, <3>10
    <2>2. CASE Queue(e)
      <3>1. LookUp(Dst[e]) /\ verdict' = [verdict EXCEPT ![e] = "NF_QUEUE"]
        BY <2>2 DEF Queue
      <3> QED  BY <1>2, <1>3, <3>1, LookUpStep DEF LookUp
    <2> QED  BY <1>1, <2>1, <2>2
  <1>5. Listing(table', kernel')
    BY <1>2, <1>4, AlikeListing
  <1>6. Sending'
    BY <1>1, <1>4, StillSending
  <1> QED  BY <1>1, <1>4, <1>5, <1>6, InStep

\* A table is like itself.
LEMMA AlikeSelf ==
    ASSUME NEW t, TableInv(t)
    PROVE  Alike(t, t)
  BY DEF Alike, Same

\* Nothing about the routes changes.
LEMMA IdleInv ==
    ASSUME NodeInv, UNCHANGED <<table, kernel, verdict, rmmod, drain, phase>>
    PROVE  NodeInv'
  BY DEF NodeInv, Sending, Unloading

\* An entry comes to the queue.
LEMMA QueueingInv ==
    ASSUME NodeInv, NEW e \in Entries, NfQueue(e)
    PROVE  NodeInv'
  <1>1. UNCHANGED <<table, kernel, verdict, rmmod>>
    BY DEF NfQueue, rvars
  <1>2. UNCHANGED <<drain, phase>>
    BY DEF NfQueue, netfilter_receive, ipq_enqueue, ipq_enqueue_return
  <1> QED  BY <1>1, <1>2, IdleInv

\* A handler of the thread.
LEMMA HandlerInv ==
    ASSUME QInv, QInv', NodeInv, Handler
    PROVE  NodeInv'
  <1>1. /\ drain["thread"].op = "idle" /\ rmmod \in {"loaded", "unhooking", "unhooked"}
        /\ UNCHANGED <<verdict, rmmod>>
        /\ (TableHandler /\ UNCHANGED qvars) \/ \E d \in Ips : QueueHandler(d)
    BY DEF Handler
  <1>2. Listing(table, kernel)
    BY <1>1, WhileLoaded
  <1>3. verdict' \in [Entries -> {"none", "NF_ACCEPT", "NF_QUEUE"}] /\ rmmod # "gone" /\ rmmod # "killed"
    BY <1>1 DEF NodeInv, Unloading
  <1>4. CASE TableHandler /\ UNCHANGED qvars
    <2>1. drain' = drain
      BY <1>4 DEF qvars
    <2>2. Sending'
      <3>1. drain'["thread"].op = "idle"
        BY <1>1, <2>1
      <3>2. "thread" \in Drainers
        BY AodvNodeAssumption DEF Drainers
      <3>3. drain'["thread"].e = None
        BY <3>1, <3>2 DEF QInv, Loops, Drainers
      <3> QED  BY <3>1, <3>3 DEF Sending
    <2>3. Listing(table', kernel')
      <3>1. ASSUME NEW d \in Dests, RefuseRoute(d) PROVE Listing(table', kernel')
        BY <1>2, <3>1, LookUpStep DEF RefuseRoute
      <3>2. ASSUME NEW d \in Dests, NEW x \in Hops \ {d}, NEW s \in 1 .. MaxSeq, recv_rerr(x, d, s)
            PROVE  Listing(table', kernel')
        BY <1>2, <3>2, ErrorStep
      <3>3. ASSUME NEW x \in Hops, delete_aodv_neigh(x) PROVE Listing(table', kernel')
        BY <1>2, <3>3, LostStep
      <3>4. ASSUME NEW x \in Hops, NEW s \in Numbers(x), update_aodv_neigh_route(x, s)
            PROVE  Listing(table', kernel')
        <4>1. s \in Nat
          BY <3>4, AodvNodeAssumption DEF Numbers
        <4> QED  BY <1>2, <3>4, <4>1, HelloStep
      <3>5. ASSUME NEW c \in DOMAIN table.cell, flush_aodv_route_table(c) PROVE Listing(table', kernel')
        BY <1>2, <3>5, FlushStep
      <3>6. ASSUME NEW d \in Locals, reply_to_rreq(d) PROVE Listing(table', kernel')
        BY <1>2, <3>6, LocalStep
      <3> QED  BY <1>4, <3>1, <3>2, <3>3, <3>4, <3>5, <3>6 DEF TableHandler
    <2> QED  BY <1>1, <1>3, <2>2, <2>3, InStep
  <1>5. ASSUME NEW d \in Ips, QueueHandler(d) PROVE NodeInv'
    <2>1. ASSUME d \in Dests, NEW x \in Hops, NEW s \in 1 .. MaxSeq, LearnRoute(d, x, IF x = d THEN 1 ELSE 2, s),
                 ipq_send_ip("thread", d)
          PROVE  NodeInv'
      <3>1. d \in Hops /\ s \in Nat /\ (IF x = d THEN 1 ELSE 2) \in Nat
        BY <2>1, HopsAre
      <3>2. /\ Listing(table', kernel')
            /\ FoundCell(table', d) # NULL /\ kernel'[d] = table'.cell[FoundCell(table', d)].next_hop
        BY <1>2, <2>1, <3>1, LearnStep
      <3>3. drain'["thread"] = [op |-> "send", ip |-> d, e |-> None]
        BY <2>1, AodvNodeAssumption DEF ipq_send_ip, QInv, QTypeOK, Drainers
      <3>4. Sending'
        BY <3>1, <3>2, <3>3 DEF Sending
      <3> QED  BY <1>1, <1>3, <3>2, <3>4, InStep
    <2>2. ASSUME ipq_drop_ip("thread", d), UNCHANGED rvars PROVE NodeInv'
      <3>1. drain'["thread"] = [op |-> "drop", ip |-> d, e |-> None]
        BY <2>2, AodvNodeAssumption DEF ipq_drop_ip, QInv, QTypeOK, Drainers
      <3>2. Sending'
        BY <3>1 DEF Sending
      <3>3. Listing(table', kernel')
        BY <1>2, <2>2 DEF rvars
      <3> QED  BY <1>1, <1>3, <3>2, <3>3, InStep
    <2> QED  BY <1>5, <2>1, <2>2 DEF QueueHandler
  <1> QED  BY <1>1, <1>4, <1>5

\* The thread's loop; SetLifetime ends it.
LEMMA ThreadLoopInv ==
    ASSUME QInv, QInv', NodeInv, ThreadLoop
    PROVE  NodeInv'
  <1>1. UNCHANGED <<verdict, rmmod>> /\ Sending /\ Unloading
    BY DEF ThreadLoop, NodeInv
  <1>2. /\ "thread" \in Drainers /\ drain["thread"] \in [op : {"idle", "send", "drop", "flush"},
                                       ip : Ips \cup {None}, e : Entries \cup {None}]
        /\ drain["thread"].op = "idle" => drain["thread"].e = None
        /\ \A c \in Drainers : DOMAIN drain = Drainers
    BY AodvNodeAssumption DEF QInv, QTypeOK, Loops, Drainers
  <1>3. drain["thread"].op # "idle"
    BY <1>2 DEF ThreadLoop, ipq_dequeue, nf_reinject, ipq_drained
  <1>4. rmmod # "gone" /\ rmmod # "killed"
    BY <1>1, <1>3 DEF Unloading
  <1>5. Listing(table, kernel) /\ verdict' \in [Entries -> {"none", "NF_ACCEPT", "NF_QUEUE"}]
    BY <1>1, <1>4, WhileLoaded DEF Unloading
  <1>6. CASE ipq_dequeue("thread") /\ UNCHANGED rvars
    <2>1. PICK i \in Found("thread") : drain' = [drain EXCEPT !["thread"].e = q_list[i]]
      BY <1>6 DEF ipq_dequeue
    <2>2. /\ drain'["thread"].op = drain["thread"].op /\ drain'["thread"].ip = drain["thread"].ip
          /\ drain'["thread"].e = q_list[i]
      BY <1>2, <2>1
    <2>3. Dst[q_list[i]] = drain["thread"].ip
      BY <1>1 DEF Found, Matches, ip_cmp, Sending
    <2>4. Sending'
      BY <1>1, <1>6, <2>2, <2>3 DEF Sending, rvars
    <2> QED  BY <1>1, <1>4, <1>5, <1>6, <2>4, InStep DEF rvars
  <1>7. CASE nf_reinject("thread") /\ UNCHANGED rvars
    <2>1. drain' = [drain EXCEPT !["thread"].e = None]
      BY <1>7 DEF nf_reinject
    <2>2. /\ drain'["thread"].op = drain["thread"].op /\ drain'["thread"].ip = drain["thread"].ip
          /\ drain'["thread"].e = None
      BY <1>2, <2>1
    <2>3. Sending'
      BY <1>1, <1>7, <2>2 DEF Sending, rvars
    <2> QED  BY <1>1, <1>4, <1>5, <1>7, <2>3, InStep DEF rvars
  <1>8. ASSUME ipq_drained("thread"),
               IF drain["thread"].op = "send" THEN SetLifetime(drain["thread"].ip) ELSE UNCHANGED rvars
        PROVE  NodeInv'
    <2>1. drain'["thread"] = Idle
      BY <1>2, <1>8 DEF ipq_drained
    <2>2. Sending'
      BY <2>1 DEF Sending, Idle
    <2>3. Listing(table', kernel')
      <3>1. CASE drain["thread"].op = "send"
        <4> DEFINE c == FoundCell(table, drain["thread"].ip)
                   r == [table.cell[c] EXCEPT !.overdue = FALSE]
        <4>1. drain["thread"].ip \in Hops /\ c # NULL
          BY <1>1, <3>1 DEF Sending
        <4>2. TableInv(table) /\ Shape(table)
          BY <1>5 DEF Listing, TableInv
        <4>3. c \in DOMAIN table.cell
          BY <4>1, <4>2, FoundHop DEF Learnt
        <4>4. SetLifetime(drain["thread"].ip)
          BY <1>8, <3>1
        <4>5. table' = [table EXCEPT !.cell[c].overdue = FALSE] /\ kernel' = kernel
          BY <4>4 DEF SetLifetime
        <4> HIDE DEF c
        <4>6. table.cell[c] \in RouteEntry
          BY <4>2, <4>3, EntryTypes
        <4>7. /\ r \in RouteEntry /\ Same(r, table.cell[c])
              /\ r.next = table.cell[c].next /\ r.prev = table.cell[c].prev
          BY <4>6 DEF RouteEntry, Same
        <4>8. table' = Written(table, c, r)
          BY <4>2, <4>3, <4>5 DEF Written, Shape
        <4> HIDE DEF r
        <4>9. Alike(table, Written(table, c, r))
          BY <4>2, <4>3, <4>7, WriteAlike
        <4> QED  BY <1>5, <4>5, <4>8, <4>9, AlikeListing
      <3>2. CASE drain["thread"].op # "send"
        <4>1. UNCHANGED rvars
          BY <1>8, <3>2
        <4> QED  BY <1>5, <4>1 DEF rvars
      <3> QED  BY <3>1, <3>2
    <2> QED  BY <1>1, <1>4, <1>5, <2>2, <2>3, InStep
  <1> QED  BY <1>6, <1>7, <1>8 DEF ThreadLoop

\* A lifetime ends.
LEMMA TimeInv ==
    ASSUME NodeInv, Time
    PROVE  NodeInv'
  <1>1. PICK c \in DOMAIN table.cell : Elapse(c)
    BY DEF Time
  <1>2. UNCHANGED <<drain, verdict, rmmod, phase>>
    BY DEF Time, qvars
  <1>3. rmmod # "gone"
    <2>1. rmmod = "gone" => DOMAIN table.cell = {}
      BY DEF NodeInv, Unloading, Empty
    <2> QED  BY <2>1
  <1>4. Listing(table, kernel) /\ verdict' \in [Entries -> {"none", "NF_ACCEPT", "NF_QUEUE"}]
    BY <1>2, <1>3, WhileLoaded DEF NodeInv, Unloading
  <1>5. TableInv(table) /\ Shape(table)
    BY <1>4 DEF Listing, TableInv
  <1> DEFINE r == [table.cell[c] EXCEPT !.overdue = TRUE]
  <1>6. table' = Written(table, c, r) /\ kernel' = kernel
    BY <1>1 DEF Elapse
  <1>7. table.cell[c] \in RouteEntry
    BY <1>5, EntryTypes
  <1>8. /\ r \in RouteEntry /\ Same(r, table.cell[c])
        /\ r.next = table.cell[c].next /\ r.prev = table.cell[c].prev
    BY <1>7 DEF RouteEntry, Same
  <1> HIDE DEF r
  <1>9. Alike(table, table')
    BY <1>5, <1>6, <1>8, WriteAlike
  <1>10. Listing(table', kernel')
    BY <1>4, <1>6, <1>9, AlikeListing
  <1>11. Sending'
    BY <1>2, <1>6, <1>9, StillSending
  <1>12. rmmod = "killed" => drain'["thread"].op = "idle"
    BY <1>2 DEF NodeInv, Unloading
  <1> QED  BY <1>2, <1>3, <1>4, <1>10, <1>11, <1>12, InStep

\* The list that holds nothing.
LEMMA EmptyTable == TableInv(Empty) /\ Learnt(Empty) = {} /\ DOMAIN Empty.cell = {}
  <1>1. Empty.head = NULL /\ Empty.cell = [c \in {} |-> NULL] /\ DOMAIN Empty.cell = {}
    BY DEF Empty
  <1>2. Shape(Empty)
    BY <1>1 DEF Shape, Empty
  <1>3. Chain(Empty, <<>>)
    BY <1>1 DEF Chain
  <1> QED  BY <1>1, <1>2, <1>3, Relinked DEF Learnt

\* rmmod: the kernel loses what is in the table, and that is all it has.
LEMMA RmmodInv ==
    ASSUME QInv, NodeInv, Rmmod
    PROVE  NodeInv'
  <1>1. CASE UnregisterHook \/ HookGone \/ kill_aodv
    <2>1. /\ UNCHANGED <<table, kernel, verdict, drain, phase>> /\ rmmod # "gone" /\ rmmod' # "gone"
          /\ rmmod' \in {"unhooking", "unhooked", "killed"}
          /\ rmmod' = "killed" => drain["thread"].op = "idle"
      BY <1>1 DEF UnregisterHook, HookGone, kill_aodv, rmmodStep, qvars, rvars
    <2>2. (IF rmmod' = "gone" THEN {} ELSE {ME}) = (IF rmmod = "gone" THEN {} ELSE {ME})
      BY <2>1
    <2>3. Sending' /\ Unloading'
      BY <2>1 DEF NodeInv, Sending, Unloading
    <2>4. TableInv(table') /\ Mirrored(table', kernel', IF rmmod' = "gone" THEN {} ELSE {ME})
      BY <2>1, <2>2 DEF NodeInv
    <2> QED  BY <2>3, <2>4 DEF NodeInv
  <1>2. CASE cleanup_packet_queue
    <2>1. /\ UNCHANGED <<table, kernel, verdict, rmmod>> /\ rmmod = "killed"
          /\ ipq_destroy_queue \/ ipq_dequeue("rmmod") \/ nf_reinject("rmmod")
      BY <1>2 DEF cleanup_packet_queue, rmmodStep, rvars
    <2>2. "thread" # "rmmod" /\ "thread" \in Drainers /\ DOMAIN drain = Drainers
      BY AodvNodeAssumption DEF QInv, QTypeOK, Drainers
    <2>3. drain'["thread"] = drain["thread"]
      BY <2>1, <2>2 DEF ipq_destroy_queue, nf_unregister_queue_handler, ipq_terminate, ipq_flush, ipq_flushed,
                        kfree_q, ipq_dequeue, nf_reinject
    <2>4. Sending' /\ Unloading'
      BY <2>1, <2>3 DEF NodeInv, Sending, Unloading
    <2>5. TableInv(table') /\ Mirrored(table', kernel', IF rmmod' = "gone" THEN {} ELSE {ME})
      BY <2>1 DEF NodeInv
    <2> QED  BY <2>4, <2>5 DEF NodeInv
  <1>3. CASE CleanUpTable
    <2>1. /\ UNCHANGED <<verdict, drain, phase>> /\ rmmod = "killed" /\ rmmod' = "gone" /\ phase = "freed"
          /\ table' = Empty
          /\ kernel' = Restrict(kernel, DOMAIN kernel \ {table.cell[c].ip : c \in DOMAIN table.cell})
      BY <1>3 DEF CleanUpTable, rmmodStep, qvars, cleanup_aodv_route_table
    <2>2. Listing(table, kernel)
      BY <2>1, WhileLoaded
    <2>3. DOMAIN kernel \ {table.cell[c].ip : c \in DOMAIN table.cell} = {}
      BY <2>2 DEF Listing, Mirrored, Learnt
    <2>4. DOMAIN kernel' = {}
      BY <2>1, <2>3 DEF Restrict
    <2>5. TableInv(table') /\ Mirrored(table', kernel', IF rmmod' = "gone" THEN {} ELSE {ME})
      <3>1. (IF rmmod' = "gone" THEN {} ELSE {ME}) = {}
        BY <2>1
      <3> QED  BY <2>1, <2>4, <3>1, EmptyTable DEF Mirrored
    <2>6. drain["thread"].op = "idle"
      BY <2>1 DEF NodeInv, Unloading
    <2>7. Sending'
      <3>1. drain["thread"].e = None
        BY <2>6, AodvNodeAssumption DEF QInv, Loops, Drainers
      <3> QED  BY <2>1, <2>6, <3>1 DEF Sending
    <2>8. Unloading'
      BY <2>1, <2>6 DEF NodeInv, Unloading
    <2> QED  BY <2>5, <2>7, <2>8 DEF NodeInv
  <1> QED  BY <1>1, <1>2, <1>3 DEF Rmmod

\* An entry of the daemon's own.
LEMMA SelfEntryIs ==
    ASSUME NEW ip \in {LO, ME, SUBNET} \cap Addresses, NEW mask \in SUBSET Addresses, NEW m \in Nat,
           ip \in mask, \A x \in mask : ip <= x, mask \cap Hops = {}
    PROVE  /\ SelfEntry(ip, mask, m) \in RouteEntry /\ Masked(SelfEntry(ip, mask, m))
           /\ SelfEntry(ip, mask, m).ip = ip /\ SelfEntry(ip, mask, m).self = TRUE
  <1> DEFINE r == SelfEntry(ip, mask, m)
  <1> DEFINE n == NewEntry(ip, FALSE)
  <1>1. n \in RouteEntry /\ n.ip = ip
    BY DEF NewEntry, RouteEntry
  <1> DEFINE k == IF ip = LO THEN 0 ELSE 1
  <1>6. r = [n EXCEPT !.self = TRUE, !.valid = TRUE, !.metric = m, !.netmask = mask, !.seq = k]
    BY DEF SelfEntry
  <1>7. k \in Nat
    OBVIOUS
  <1> HIDE DEF r, n, k
  <1>2. r \in RouteEntry
    BY <1>1, <1>6, <1>7 DEF RouteEntry
  <1>3. r.ip = ip /\ r.netmask = mask
    BY <1>1, <1>6 DEF RouteEntry
  <1>4. r.self = TRUE
    BY <1>1, <1>6 DEF RouteEntry
  <1>5. Masked(r)
    BY <1>3, <1>4 DEF Masked
  <1> QED  BY <1>2, <1>3, <1>4, <1>5 DEF r

\* insmod puts one in.
LEMMA AddSelf ==
    ASSUME NEW t, TableInv(t), Learnt(t) = {},
           NEW B, IsFiniteSet(B), Cardinality(B) < Cardinality(Cells),
           \A c \in DOMAIN t.cell : t.cell[c].ip \in B,
           NEW ip \in {LO, ME, SUBNET} \cap Addresses, NEW mask \in SUBSET Addresses, NEW m \in Nat,
           ip \in mask, \A x \in mask : ip <= x, mask \cap Hops = {}, ip \notin B
    PROVE  LET u == insert_aodv_route(t, FreeCell(t), SelfEntry(ip, mask, m))
           IN  /\ TableInv(u) /\ Learnt(u) = {}
               /\ \A c \in DOMAIN u.cell : u.cell[c].ip \in B \cup {ip}
               /\ \E c \in DOMAIN u.cell : u.cell[c].ip = ip
  <1> DEFINE c == FreeCell(t)
             r == SelfEntry(ip, mask, m)
             u == insert_aodv_route(t, c, r)
  <1>1. c \in Cells /\ c \notin DOMAIN t.cell
    BY Room
  <1>2. r \in RouteEntry /\ Masked(r) /\ r.ip = ip /\ r.self = TRUE
    BY SelfEntryIs
  <1>3. \A b \in DOMAIN t.cell : t.cell[b].ip # ip
    OBVIOUS
  <1> HIDE DEF c, r
  <1>4. /\ TableInv(u) /\ DOMAIN u.cell = DOMAIN t.cell \cup {c}
        /\ Same(u.cell[c], r) /\ \A b \in DOMAIN t.cell : Same(u.cell[b], t.cell[b])
    BY <1>1, <1>2, <1>3, Inserted
  <1> HIDE DEF u
  <1>5. u.cell[c].ip = ip /\ u.cell[c].self = TRUE
    BY <1>2, <1>4 DEF Same
  <1>6. \A b \in DOMAIN t.cell : u.cell[b].ip \in B /\ b \notin Learnt(u)
    <2>1. \A b \in DOMAIN t.cell : t.cell[b].self \/ t.cell[b].ip \in SUBNETMASK
      BY DEF Learnt
    <2> QED  BY <1>4, <2>1 DEF Same, Learnt
  <1>7. Learnt(u) = {}
    BY <1>4, <1>5, <1>6 DEF Learnt
  <1> QED  BY <1>4, <1>5, <1>6, <1>7 DEF u, c, r

\* After insmod the table has the daemon's own entries and the kernel the
\* route of the device.
LEMMA InitNode == Init => NodeInv
  <1> SUFFICES ASSUME Init PROVE NodeInv
    OBVIOUS
  <1> DEFINE lo == insert_aodv_route(Empty, FreeCell(Empty), SelfEntry(LO, {LO}, 0))
             sub == IF SUBNETMASK = {} THEN lo
                    ELSE insert_aodv_route(lo, FreeCell(lo), SelfEntry(SUBNET, SUBNETMASK, 1))
             me == insert_aodv_route(sub, FreeCell(sub), SelfEntry(ME, {ME}, 0))
  <1>1. table = me /\ kernel = insert_kernel_route_entry([d \in {} |-> NULL], ME, ME)
    BY DEF Init, RInit
  <1>2. /\ Addresses \subseteq Nat /\ LO \in Addresses /\ ME \in Addresses /\ LO # ME
        /\ LO \notin Hops /\ ME \notin Hops /\ SUBNETMASK \cap Hops = {} /\ SUBNETMASK \in SUBSET Addresses
        /\ LO \notin SUBNETMASK /\ ME \notin SUBNETMASK
        /\ SUBNETMASK # {} => SUBNET \in SUBNETMASK /\ \A x \in SUBNETMASK : SUBNET <= x
        /\ IsFiniteSet(Cells) /\ IsFiniteSet(Others) /\ Cardinality(Others) + 3 <= Cardinality(Cells)
    BY RouteTableAssumption, AodvNodeAssumption DEF Others
  <1>3. Cardinality(Cells) \in Nat /\ Cardinality(Others) \in Nat
    BY <1>2, FS_CardinalityType
  <1>4. Cardinality(Cells) >= 3
    BY <1>2, <1>3
  <1>5. IsFiniteSet({}) /\ Cardinality({}) = 0 /\ IsFiniteSet({LO}) /\ Cardinality({LO}) = 1
    BY FS_EmptySet, FS_Singleton
  <1>6. IsFiniteSet({LO} \cup {SUBNET}) /\ Cardinality({LO} \cup {SUBNET}) \in {1, 2}
    BY <1>5, FS_AddElement
  <1>7. TableInv(Empty) /\ Learnt(Empty) = {} /\ \A c \in DOMAIN Empty.cell : Empty.cell[c].ip \in {}
    BY EmptyTable
  <1>8. /\ TableInv(lo) /\ Learnt(lo) = {}
        /\ \A c \in DOMAIN lo.cell : lo.cell[c].ip \in {LO}
    <2>1. Cardinality({}) < Cardinality(Cells) /\ LO \notin {}
      BY <1>3, <1>4, <1>5
    <2>2. LO \in {LO, ME, SUBNET} \cap Addresses /\ {LO} \in SUBSET Addresses /\ LO \in {LO}
          /\ (\A x \in {LO} : LO <= x) /\ {LO} \cap Hops = {} /\ 0 \in Nat
      BY <1>2
    <2>3. /\ TableInv(lo) /\ Learnt(lo) = {}
          /\ \A c \in DOMAIN lo.cell : lo.cell[c].ip \in {} \cup {LO}
      BY <1>5, <1>7, <2>1, <2>2, AddSelf
    <2> HIDE DEF lo
    <2> QED  BY <2>3
  <1> HIDE DEF lo
  <1>9. /\ TableInv(sub) /\ Learnt(sub) = {}
        /\ \A c \in DOMAIN sub.cell : sub.cell[c].ip \in {LO} \cup {SUBNET}
        /\ SUBNETMASK = {} => \A c \in DOMAIN sub.cell : sub.cell[c].ip \in {LO}
    <2>1. CASE SUBNETMASK = {}
      BY <1>8, <2>1
    <2>2. CASE SUBNETMASK # {}
      <3> DEFINE x == insert_aodv_route(lo, FreeCell(lo), SelfEntry(SUBNET, SUBNETMASK, 1))
      <3>1. Cardinality({LO}) < Cardinality(Cells)
        BY <1>3, <1>4, <1>5
      <3>2. SUBNET \in {LO, ME, SUBNET} \cap Addresses /\ SUBNET \notin {LO} /\ 1 \in Nat
        BY <1>2, <2>2
      <3>5. /\ SUBNETMASK \in SUBSET Addresses /\ SUBNET \in SUBNETMASK /\ SUBNETMASK \cap Hops = {}
            /\ \A a \in SUBNETMASK : SUBNET <= a
        BY <1>2, <2>2
      <3>3. TableInv(x) /\ Learnt(x) = {} /\ \A c \in DOMAIN x.cell : x.cell[c].ip \in {LO} \cup {SUBNET}
        BY <1>5, <1>8, <3>1, <3>2, <3>5, AddSelf
      <3>4. sub = x
        BY <2>2
      <3> HIDE DEF x, sub
      <3> QED  BY <2>2, <3>3, <3>4
    <2> QED  BY <2>1, <2>2
  <1> HIDE DEF sub
  <1>10. /\ TableInv(me) /\ Learnt(me) = {} /\ \E c \in DOMAIN me.cell : me.cell[c].ip = ME
    <2> DEFINE B == IF SUBNETMASK = {} THEN {LO} ELSE {LO} \cup {SUBNET}
    <2>1. IsFiniteSet(B) /\ Cardinality(B) < Cardinality(Cells)
      <3>1. CASE SUBNETMASK = {}
        BY <1>3, <1>4, <1>5, <3>1
      <3>2. CASE SUBNETMASK # {}
        <4>1. B = {LO} \cup {SUBNET}
          BY <3>2
        <4> HIDE DEF B
        <4> QED  BY <1>3, <1>4, <1>6, <4>1
      <3> QED  BY <3>1, <3>2
    <2>2. ME \notin B
      BY <1>2
    <2>3. \A c \in DOMAIN sub.cell : sub.cell[c].ip \in B
      BY <1>9
    <2>4. ME \in {LO, ME, SUBNET} \cap Addresses /\ {ME} \in SUBSET Addresses /\ ME \in {ME}
          /\ (\A x \in {ME} : ME <= x) /\ {ME} \cap Hops = {} /\ 0 \in Nat
      BY <1>2
    <2> HIDE DEF B
    <2> QED  BY <1>9, <2>1, <2>2, <2>3, <2>4, AddSelf
  <1> HIDE DEF me
  <1>11. DOMAIN kernel = {ME} /\ kernel[ME] = ME
    BY <1>1 DEF insert_kernel_route_entry
  <1>12. rmmod = "loaded" /\ verdict = [e \in Entries |-> "none"] /\ drain = [c \in Drainers |-> Idle]
    BY DEF Init, QInit, ipq_create_queue
  <1>13. Mirrored(table, kernel, {ME})
    BY <1>1, <1>2, <1>10, <1>11 DEF Mirrored
  <1>14. drain["thread"] = Idle
    BY <1>12, AodvNodeAssumption DEF Drainers
  <1>15. Sending
    BY <1>14 DEF Sending, Idle
  <1>16. Unloading
    BY <1>1, <1>10, <1>12 DEF Unloading
  <1>17. (IF rmmod = "gone" THEN {} ELSE {ME}) = {ME}
    BY <1>12
  <1> QED  BY <1>1, <1>10, <1>13, <1>15, <1>16, <1>17 DEF NodeInv

\* Every step of hook, netfilter, thread, clock and rmmod keeps the invariant.
LEMMA StepNode == QInv /\ QInv' /\ NodeInv /\ [Next]_vars => NodeInv'
  <1> SUFFICES ASSUME QInv, QInv', NodeInv, [Next]_vars PROVE NodeInv'
    OBVIOUS
  <1>1. ASSUME NEW e \in Entries, output_handler(e) PROVE NodeInv'
    BY <1>1, HookInv
  <1>2. ASSUME NEW e \in Entries, NfQueue(e) PROVE NodeInv'
    BY <1>2, QueueingInv
  <1>3. CASE Handler
    BY <1>3, HandlerInv
  <1>4. CASE ThreadLoop
    BY <1>4, ThreadLoopInv
  <1>5. CASE Time
    BY <1>5, TimeInv
  <1>6. CASE Rmmod
    BY <1>6, RmmodInv
  <1>7. CASE UNCHANGED vars
    BY <1>7, IdleInv DEF vars, qvars, rvars
  <1> QED  BY <1>1, <1>2, <1>3, <1>4, <1>5, <1>6, <1>7 DEF Next

\* The invariant of the node.
THEOREM NodeInvariant == Spec => [](QInv /\ NodeInv)
  <1>1. Spec => []QInv
    BY NodeImplementsQueue, QueueInvariant, PTL
  <1>2. Init => NodeInv
    BY InitNode
  <1>3. QInv /\ QInv' /\ NodeInv /\ [Next]_vars => NodeInv'
    BY StepNode
  <1> QED  BY <1>1, <1>2, <1>3, PTL DEF Spec

-----------------------------------------------------------------------------
(* What it gives.                                                          *)

\* The route list is linked both ways, holds every allocated cell and is
\* sorted, whatever insert_aodv_route, remove_aodv_route and the flush do.
THEOREM ListWellLinked == Spec => []WellLinked
  <1>1. NodeInv => WellLinked
    <2> SUFFICES ASSUME NodeInv PROVE WellLinked
      OBVIOUS
    <2> DEFINE w == Walk(table)
    <2>1. Chain(table, w)
      BY DEF NodeInv, TableInv
    <2> HIDE DEF w
    <2>2. /\ w \in Seq(DOMAIN table.cell) /\ Len(w) \in Nat /\ DOMAIN w = 1 .. Len(w)
          /\ \A i \in DOMAIN w : w[i] \in DOMAIN table.cell
      BY <2>1 DEF Chain
    <2>3. {w[i] : i \in DOMAIN w} = DOMAIN table.cell
      <3>1. \A c \in DOMAIN table.cell : \E i \in DOMAIN w : w[i] = c
        BY <2>1, <2>2 DEF Chain
      <3> DEFINE D == DOMAIN table.cell
      <3>2. (\A i \in DOMAIN w : w[i] \in D) /\ \A c \in D : \E i \in DOMAIN w : w[i] = c
        BY <2>2, <3>1
      <3> HIDE DEF D
      <3>3. {w[i] : i \in DOMAIN w} = D
        BY ONLY <3>2
      <3> QED  BY <3>3 DEF D
    <2>4. ASSUME NEW i \in DOMAIN w
          PROVE  /\ table.cell[w[i]].prev = IF i = 1 THEN NULL ELSE w[i - 1]
                 /\ i > 1 => table.cell[w[i - 1]].ip < table.cell[w[i]].ip
      <3>1. i > 1 => i - 1 \in 1 .. Len(w) /\ i - 1 < i
        BY <2>2
      <3> QED  BY <2>1, <2>2, <3>1 DEF Chain
    <2> QED  BY <2>3, <2>4 DEF WellLinked, w
  <1> QED  BY <1>1, NodeInvariant, PTL

\* find_aodv_route finds the entry of an address, and else its subnet.
THEOREM RoutesFound == Spec => []FindsRoute
  <1>1. NodeInv => FindsRoute
    <2> SUFFICES ASSUME NodeInv, NEW ip \in Addresses
                 PROVE  LET exact == {c \in DOMAIN table.cell : table.cell[c].ip = ip}
                            wider == {c \in DOMAIN table.cell : ip \in table.cell[c].netmask}
                        IN  FoundCell(table, ip) \in
                              IF exact # {} THEN exact ELSE IF wider # {} THEN wider ELSE {NULL}
      BY DEF FindsRoute
    <2> DEFINE f == FoundCell(table, ip)
               exact == {c \in DOMAIN table.cell : table.cell[c].ip = ip}
               wider == {c \in DOMAIN table.cell : ip \in table.cell[c].netmask}
    <2>1. TableInv(table) /\ Shape(table) /\ \A c \in DOMAIN table.cell : Masked(table.cell[c])
      BY DEF NodeInv, TableInv
    <2>2. \/ f = NULL /\ \A c \in DOMAIN table.cell : ip \notin table.cell[c].netmask
          \/ /\ f \in DOMAIN table.cell /\ ip \in table.cell[f].netmask
             /\ \A c \in DOMAIN table.cell : ip \in table.cell[c].netmask => table.cell[c].ip <= table.cell[f].ip
      BY <2>1, FoundIs
    <2> HIDE DEF f
    <2>3. \A c \in exact : c \in wider
      BY <2>1 DEF Masked
    <2>4. CASE exact # {}
      <3>1. PICK c \in DOMAIN table.cell : table.cell[c].ip = ip
        BY <2>4
      <3>2. f \in DOMAIN table.cell /\ ip \in table.cell[f].netmask /\ ip <= table.cell[f].ip
        BY <2>2, <2>3, <3>1
      <3>3. table.cell[f].ip <= ip
        BY <2>1, <3>2 DEF Masked
      <3>4. table.cell[f].ip \in Nat /\ ip \in Nat
        BY <2>1, <3>2, EntryTypes, RouteTableAssumption
      <3>5. table.cell[f].ip = ip
        BY <3>2, <3>3, <3>4
      <3> QED  BY <2>4, <3>2, <3>5 DEF f
    <2>5. CASE exact = {}
      BY <2>2, <2>5 DEF f
    <2> QED  BY <2>4, <2>5
  <1> QED  BY <1>1, NodeInvariant, PTL

\* The kernel has a route to every node the daemon lists and to nothing
\* else, whatever the local hosts it lists as well (reply_to_rreq).
THEOREM KernelInStep == Spec => []KernelMirrors
  <1>1. NodeInv => KernelMirrors
    <2> SUFFICES ASSUME NodeInv PROVE KernelMirrors
      OBVIOUS
    <2>1. /\ Mirrored(table, kernel, IF rmmod = "gone" THEN {} ELSE {ME})
          /\ \A c \in Learnt(table) : table.cell[c].ip # ME
      BY AodvNodeAssumption, RouteTableAssumption DEF NodeInv, TableInv, Masked, Learnt, Others, Locals
    <2> QED  BY <2>1 DEF Mirrored, KernelMirrors, Learnt
  <1> QED  BY <1>1, NodeInvariant, PTL

\* Every variable has its type, and no pointer of the list leads to memory
\* that remove_aodv_route has freed.
THEOREM NodeTypes == Spec => []TypeOK
  <1>1. QInv /\ NodeInv => TypeOK
    <2> SUFFICES ASSUME QInv, NodeInv PROVE TypeOK
      OBVIOUS
    <2> DEFINE w == Walk(table)
               Pointers == DOMAIN table.cell \cup {NULL}
    <2>1. Chain(table, w) /\ Shape(table)
      BY DEF NodeInv, TableInv
    <2> HIDE DEF w
    <2>2. /\ w \in Seq(DOMAIN table.cell) /\ Len(w) \in Nat
          /\ \A i \in 1 .. Len(w) : w[i] \in DOMAIN table.cell
      BY <2>1 DEF Chain
    <2>3. table.head \in Pointers
      <3>1. Len(w) # 0 => 1 \in 1 .. Len(w)
        BY <2>2
      <3> QED  BY <2>1, <2>2, <3>1 DEF Chain
    <2>4. ASSUME NEW c \in DOMAIN table.cell
          PROVE  table.cell[c].next \in Pointers /\ table.cell[c].prev \in Pointers
      <3>1. PICK i \in 1 .. Len(w) : w[i] = c
        BY <2>1 DEF Chain
      <3>2. (i # Len(w) => i + 1 \in 1 .. Len(w)) /\ (i # 1 => i - 1 \in 1 .. Len(w))
        BY <2>2
      <3>3. /\ table.cell[w[i]].next = IF i = Len(w) THEN NULL ELSE w[i + 1]
            /\ table.cell[w[i]].prev = IF i = 1 THEN NULL ELSE w[i - 1]
        BY <2>1 DEF Chain
      <3> QED  BY <2>2, <3>1, <3>2, <3>3
    <2>5. \A c \in DOMAIN table.cell : table.cell[c].ip \in Addresses /\ table.cell[c].next_hop \in Addresses
      BY <2>1, EntryTypes
    <2>6. DOMAIN kernel \subseteq Addresses /\ \A d \in DOMAIN kernel : kernel[d] \in Addresses
      <3>1. Mirrored(table, kernel, IF rmmod = "gone" THEN {} ELSE {ME}) /\ ME \in Addresses
        BY RouteTableAssumption DEF NodeInv
      <3> QED  BY <2>5, <3>1 DEF Mirrored, Learnt
    <2>7. DOMAIN table.cell \subseteq Cells
      BY <2>1 DEF Shape
    <2>8. /\ verdict \in [Entries -> {"none", "NF_ACCEPT", "NF_QUEUE"}]
          /\ rmmod \in {"loaded", "unhooking", "unhooked", "killed", "gone"}
      BY DEF NodeInv, Unloading
    <2> QED  BY <2>3, <2>4, <2>5, <2>6, <2>7, <2>8 DEF TypeOK, QInv
  <1> QED  BY <1>1, NodeInvariant, PTL

\* Once q is freed and the thread is at rest nothing is queued or on its way
\* into the queue.
LEMMA NothingLeft ==
    ASSUME QInv, phase = "freed", drain["thread"].op = "idle"
    PROVE  \A e \in Entries : fate[e] # "entering" /\ fate[e] # "queued"
  <1>1. inside = {} /\ q_list = <<>>
    BY DEF QInv, Shutdown
  <1>2. \A c \in Drainers : drain[c].e = None
    BY AodvNodeAssumption DEF QInv, Loops, Drainers
  <1>3. \A e \in Entries : fate[e] # "entering"
    BY <1>1 DEF QInv, Shutdown
  <1>4. \A e \in Entries : fate[e] # "queued"
    <2>1. Hands = {}
      BY <1>2 DEF Hands
    <2>2. DOMAIN q_list = {}
      BY <1>1
    <2> QED  BY <2>1, <2>2 DEF QInv, HeldOnce
  <1> QED  BY <1>3, <1>4

\* cleanup_module leaves no packet in the queue and no route in the kernel.
THEOREM UnloadsClean == Spec => []CleanUnload
  <1>1. QInv /\ NodeInv => CleanUnload
    <2> SUFFICES ASSUME QInv, NodeInv, rmmod = "gone"
                 PROVE  /\ \A e \in Entries : fate[e] \notin {"entering", "queued"}
                        /\ DOMAIN kernel = {}
      BY DEF CleanUnload
    <2>1. table = Empty /\ phase = "freed" /\ drain["thread"].op = "idle"
      BY DEF NodeInv, Unloading
    <2>2. DOMAIN kernel = {}
      <3>1. (IF rmmod = "gone" THEN {} ELSE {ME}) = {}
        OBVIOUS
      <3>2. Mirrored(Empty, kernel, {})
        BY <2>1, <3>1 DEF NodeInv
      <3> QED  BY <3>2, EmptyTable DEF Mirrored
    <2> QED  BY <2>1, <2>2, NothingLeft
  <1> QED  BY <1>1, NodeInvariant, PTL

\* cleanup_module is the only one to end the module, and leaves it ended.
LEMMA EndsOnce ==
    ASSUME [Next]_vars
    PROVE  /\ rmmod = "gone" => rmmod' = "gone"
           /\ rmmod # "gone" /\ rmmod' = "gone" =>
                rmmod = "killed" /\ phase = "freed" /\ UNCHANGED qvars
  <1>1. ASSUME NEW e \in Entries, output_handler(e) \/ NfQueue(e) PROVE UNCHANGED rmmod
    BY <1>1 DEF output_handler, NfQueue
  <1>2. CASE Handler \/ ThreadLoop \/ Time
    BY <1>2 DEF Handler, ThreadLoop, Time
  <1>3. CASE Rmmod
    BY <1>3 DEF Rmmod, UnregisterHook, HookGone, kill_aodv, cleanup_packet_queue, CleanUpTable, rmmodStep
  <1>4. CASE UNCHANGED vars
    BY <1>4 DEF vars
  <1> QED  BY <1>1, <1>2, <1>3, <1>4 DEF Next

\* What the node's queue keeps is fed back at most once, and all of it has
\* been when cleanup_module is done (ipq_send_ip, ipq_drop_ip, ipq_flush).
THEOREM NodeFeedsBack == Spec => FeedsBack
  <1>1. Init => Contract!Init
    BY DEF Init, QInit, ipq_create_queue, Contract!Init, Place
  <1>2. QInv /\ NodeInv /\ [Next]_vars => [Contract!Next]_<<Place, rmmod = "gone">>
    <2> SUFFICES ASSUME QInv, NodeInv, [Next]_vars
                 PROVE  Contract!Next \/ (Place' = Place /\ (rmmod' = "gone") = (rmmod = "gone"))
      OBVIOUS
    <2>1. [QNext]_qvars
      BY PacketSteps, ThreadSteps, RmmodSteps DEF Next, vars
    <2>2. rmmod \in {"killed", "gone"} => drain["thread"].op = "idle"
      BY DEF NodeInv, Unloading
    <2>3. \/ Place' = Place
          \/ \E e \in Entries : /\ fate[e] = "entering" /\ Place[e] = "netfilter"
                                /\ \/ Place' = [Place EXCEPT ![e] = "handler"]
                                   \/ Place' = [Place EXCEPT ![e] = "lost"]
          \/ \E e \in Entries : /\ fate[e] = "queued" /\ Place[e] = "handler"
                                /\ Place' = [Place EXCEPT ![e] = "back"]
      BY <2>1, PassesOne
    <2>4. CASE rmmod = "gone"
      <3>1. \A e \in Entries : fate[e] # "entering" /\ fate[e] # "queued"
        BY <2>2, <2>4, NothingLeft DEF NodeInv, Unloading
      <3>2. Place' = Place
        BY <2>3, <3>1
      <3> QED  BY <2>4, <3>2, EndsOnce
    <2>5. CASE rmmod # "gone" /\ rmmod' = "gone"
      <3>1. rmmod = "killed" /\ phase = "freed" /\ UNCHANGED qvars
        BY <2>5, EndsOnce
      <3>2. \A e \in Entries : fate[e] # "queued"
        BY <2>2, <3>1, NothingLeft
      <3>3. Place' = Place
        BY <3>1 DEF qvars, Place
      <3>4. \A e \in Entries : Place[e] # "handler"
        BY <3>2 DEF Place, QInv, QTypeOK
      <3> QED  BY <2>5, <3>3, <3>4 DEF Contract!Next, Contract!Close
    <2>6. CASE rmmod # "gone" /\ rmmod' # "gone"
      <3>1. CASE Place' = Place
        BY <2>6, <3>1
      <3>2. CASE Place' # Place
        BY <2>3, <2>6, <3>2 DEF Contract!Next, Contract!Keep, Contract!Lose, Contract!FeedBack, Contract!Pass
      <3> QED  BY <3>1, <3>2
    <2> QED  BY <2>4, <2>5, <2>6
  <1> QED  BY <1>1, <1>2, NodeInvariant, PTL DEF Spec, FeedsBack, Contract!Spec

\* ipq_send_ip lets a packet go only when the kernel has the route that
\* update_aodv_route has put in the table.
THEOREM ReleasesToRoute == Spec => ReleasedToRoute
  <1> DEFINE Released ==
               \A e \in Entries : fate[e] # "accepted" /\ fate'[e] = "accepted" =>
                 LET c == FoundCell(table, Dst[e])
                 IN  c # NULL /\ Dst[e] \in DOMAIN kernel /\ kernel[Dst[e]] = table.cell[c].next_hop
  <1>1. QInv /\ NodeInv /\ [Next]_vars => [Released]_vars
    <2> SUFFICES ASSUME QInv, NodeInv, [QNext]_qvars, NEW e \in Entries,
                        fate[e] # "accepted", fate'[e] = "accepted"
                 PROVE  LET c == FoundCell(table, Dst[e])
                        IN  c # NULL /\ Dst[e] \in DOMAIN kernel /\ kernel[Dst[e]] = table.cell[c].next_hop
      BY PacketSteps, ThreadSteps, RmmodSteps DEF Next, vars
    <2>1. QTypeOK /\ HeldOnce
      BY DEF QInv
    <2>2. PICK c \in Drainers : nf_reinject(c)
      <3>1. ASSUME NEW x \in Entries, netfilter_receive(x) \/ ipq_enqueue(x) \/ ipq_enqueue_return(x)
            PROVE  FALSE
        BY <2>1, <3>1 DEF netfilter_receive, ipq_enqueue, ipq_enqueue_return, QTypeOK
      <3>2. ASSUME NEW c \in Contexts, NEW d \in Ips, ipq_send_ip(c, d) \/ ipq_drop_ip(c, d) PROVE FALSE
        BY <3>2 DEF ipq_send_ip, ipq_drop_ip
      <3>3. ASSUME NEW c \in Drainers, ipq_dequeue(c) \/ ipq_drained(c) PROVE FALSE
        BY <3>3 DEF ipq_dequeue, ipq_drained
      <3>4. ASSUME ipq_destroy_queue PROVE FALSE
        BY <3>4 DEF ipq_destroy_queue, nf_unregister_queue_handler, ipq_terminate, ipq_flush, ipq_flushed, kfree_q
      <3>5. ASSUME UNCHANGED qvars PROVE FALSE
        BY <3>5 DEF qvars
      <3> QED  BY <3>1, <3>2, <3>3, <3>4, <3>5 DEF QNext
    <2> DEFINE x == drain[c].e
    <2>3. x \in Entries /\ fate[x] = "queued"
      BY <2>1, <2>2 DEF nf_reinject, QTypeOK, HeldOnce, Hands
    <2>4. x = e /\ drain[c].op = "send"
      <3>1. fate' = [fate EXCEPT ![x] = IF drain[c].op = "send" THEN "accepted" ELSE "dropped"]
        BY <2>1, <2>2, <2>3 DEF nf_reinject, QTypeOK
      <3> HIDE DEF x
      <3> QED  BY <2>1, <2>3, <3>1 DEF QTypeOK
    <2>5. c = "thread"
      <3>1. drain["rmmod"].op # "send"
        BY DEF QInv, Loops
      <3> QED  BY <2>4, <3>1, AodvNodeAssumption DEF Drainers
    <2>6. /\ Dst[e] = drain["thread"].ip /\ Dst[e] \in Hops
          /\ FoundCell(table, Dst[e]) # NULL
          /\ kernel[Dst[e]] = table.cell[FoundCell(table, Dst[e])].next_hop
      <3>1. drain["thread"].op = "send" /\ drain["thread"].e = e /\ e # None
        BY <2>4, <2>5, PacketQueueAssumption
      <3> QED  BY <3>1 DEF NodeInv, Sending
    <2>7. Dst[e] \in DOMAIN kernel
      <3>1. FoundCell(table, Dst[e]) \in Learnt(table) /\ table.cell[FoundCell(table, Dst[e])].ip = Dst[e]
        BY <2>6, FoundHop DEF NodeInv
      <3> QED  BY <3>1 DEF NodeInv, Mirrored
    <2> QED  BY <2>6, <2>7
  <1> QED  BY <1>1, NodeInvariant, PTL DEF Spec, ReleasedToRoute

=============================================================================
