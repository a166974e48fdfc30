---------------------------- MODULE AodvNetwork ----------------------------
(***************************************************************************)
(* The routing daemons of a network (kaodv): route discovery (rreq.c,      *)
(* rrep.c), link errors (rerr.c), neighbours (hello.c, aodv_neigh.c), the  *)
(* route table and the kernel's copy of it (aodv_route.c, kernel_route.c), *)
(* the retry timers (timer_queue.c), and the queue of packets that wait    *)
(* for a route (packet_out.c, packet_queue.c).                             *)
(*                                                                         *)
(* A handler of the aodv thread is one action, up to where it walks the    *)
(* packet queue: update_aodv_route marks the route valid, tells the kernel *)
(* and then takes one packet per turn with the queue's lock released, and  *)
(* so does ipq_drop_ip; the output hook may run before each of these       *)
(* steps, and the handler's reply comes after them.  Radio links are FIFO  *)
(* and lossy, and come and go.  Lifetimes are left to chance: a route may  *)
(* be found overdue, a neighbour may fall silent, a timer may fire at any  *)
(* time; flood ids outlive the copies of their request.                    *)
(***************************************************************************)
EXTENDS Integers, Sequences, FiniteSets, Bags, Functions, Sublists

CONSTANTS
    Nodes,          \* the ip addresses, all in the AODV subnet
    Link,           \* the links at the start: sets of two nodes
    Movable,        \* the links that may come or go
    RREQ_RETRIES, NET_DIAMETER,
    QMAX,           \* *q->maxlen
    Preempt,        \* TRUE: other contexts run between the output hook's verdict
                    \* and the enqueueing (several processors, or preemption)
    Sends,          \* bound: the <<node, destination>> of the packets users send, in order
    MaxHellos, MaxMoves,   \* bounds
    MaxExpiries     \* bound: overdue routes and restarts together

ASSUME AodvAssumption ==
    /\ Link \subseteq SUBSET Nodes /\ Movable \subseteq SUBSET Nodes
    /\ \A l \in Link \cup Movable : \E a, b \in Nodes : a # b /\ l = {a, b}
    /\ RREQ_RETRIES \in Nat /\ NET_DIAMETER \in Nat /\ QMAX \in Nat
    /\ Preempt \in BOOLEAN /\ Sends \in Seq(Nodes \X Nodes)
    /\ MaxHellos \in Nat /\ MaxExpiries \in Nat /\ MaxMoves \in Nat

VARIABLES
    rt,        \* rt[n]: the route table, a function on the destinations it lists
    krt,       \* krt[n]: the gateways in the kernel's routing table
    rreq_id,   \* rreq_id[n]: of the node's own route
    neigh,     \* neigh[n]: the neighbour list
    fresh,     \* fresh[n]: the neighbours whose lifetime is not over
    flood,     \* flood[n]: the <<source, id>> of the requests seen
    timers,    \* timers[n]: bag of the pending timer tasks
    due,       \* due[n]: bag of the timer tasks in the task queue
    task,      \* task[n]: what the thread has left to do of the handler it is in, if any
    out,       \* out[n]: packets at the output hook, with its verdict if it has spoken
    ipq,       \* ipq[n]: the list of queued packets
    link,      \* the links there are
    air,       \* air[a, b]: what a has sent and b has not got yet
    sent, hellos, expiries, moves,     \* counters
    issued     \* observer: issued[n], the largest sequence number of n's earlier lives

vars == <<rt, krt, rreq_id, neigh, fresh, flood, timers, due, task, out, ipq, link, air,
          sent, hellos, expiries, moves, issued>>
counters == <<sent, hellos, expiries, moves>>

Hops == {l \in Nodes \X Nodes : l[1] # l[2]}
Hear(n) == {x \in Nodes : {n, x} \in link}
NEIGHBOR(x) == [type |-> "NEIGHBOR", ip |-> x, retries |-> 0]
RESEND_RREQ(d, r) == [type |-> "RESEND_RREQ", ip |-> d, retries |-> r]
Tasks == {NEIGHBOR(x) : x \in Nodes} \cup {RESEND_RREQ(d, r) : d \in Nodes, r \in 0 .. RREQ_RETRIES}

\* A table with the value v for d.
Put(table, d, v) == [x \in DOMAIN table \cup {d} |-> IF x = d THEN v ELSE table[x]]

Route(s, x, m) == [seq |-> s, next_hop |-> x, metric |-> m, valid |-> TRUE]

\* Sequence numbers are compared by the sign of their difference; they stay
\* far below 2^31 here.
seq_greater(a, b) == a >= b
seq_less_or_equal(a, b) == a <= b

expire_aodv_route(r) == [r EXCEPT !.seq = @ + 1, !.valid = FALSE]

\* The timers of a bag that delete_timer leaves.
delete_timer(B, ip, type) == Restrict(B, {t \in DOMAIN B : ~(t.ip = ip /\ t.type = type)})
find_timer(n, ip, type) == \E t \in DOMAIN timers[n] : t.ip = ip /\ t.type = type

find_flood_id(n, src, id) == <<src, id>> \in flood[n]
insert_flood_id(queue, src, id) == queue \cup {<<src, id>>}

local_broadcast(c, n, m) ==
    [l \in DOMAIN c |-> IF l[1] = n /\ l[2] \in Hear(n) THEN Append(c[l], m) ELSE c[l]]

\* The packets ms leave n for its neighbour x; out of reach, they are lost.
Transmit(c, n, x, ms) == IF x \in Hear(n) THEN [c EXCEPT ![<<n, x>>] = @ \o ms] ELSE c

-----------------------------------------------------------------------------
(* Route updates.                                                          *)

\* update_aodv_route(ip, next_hop_ip, metric, seq) does nothing.
Refused(n, d, x, m, s) ==
    \/ x \notin fresh[n]
    \/ /\ d \in DOMAIN rt[n]
       /\ \/ seq_greater(rt[n][d].seq, s)
          \/ rt[n][d].valid /\ s = rt[n][d].seq /\ m >= rt[n][d].metric

\* The table when update_aodv_route has marked the route valid.
update_aodv_route(n, d, x, m, s) ==
    IF Refused(n, d, x, m, s) THEN rt[n] ELSE Put(rt[n], d, Route(s, x, m))

\* What the handler of msg has left to do after that: tell the kernel, send
\* the packets that wait, and answer or pass on; of a refused route only the
\* last.
Left(n, d, x, m, s, msg) ==
    {[todo |-> IF Refused(n, d, x, m, s) THEN "answer" ELSE "route", ip |-> d, m |-> msg]}

\* Where the kernel sends packets for d: without a route of its own d is on
\* the interface's subnet.
Gateway(n, d) == IF d \in DOMAIN krt[n] THEN krt[n][d] ELSE d

\* ipq_dequeue: the first packet for d, and the queue without it.
Waits(n, d) == \E i \in DOMAIN ipq[n] : ipq[n][i].ip_dst = d
First(q, d) == CHOOSE i \in DOMAIN q : q[i].ip_dst = d /\ \A j \in 1 .. i - 1 : q[j].ip_dst # d
ipq_dequeue(q, d) == Kept(q, DOMAIN q \ {First(q, d)})

-----------------------------------------------------------------------------
(* Messages.                                                               *)

Data(d, i) == [type |-> "data", ip_dst |-> d, id |-> i]
Rreq(n, src, id, ss, d, ds, m, t) ==
    [type |-> "RREQ", from |-> n, src |-> src, id |-> id, src_seq |-> ss, dst |-> d, dst_seq |-> ds,
     metric |-> m, ttl |-> t]
Rrep(n, x, src, d, ds, m) ==
    [type |-> "RREP", from |-> n, ip_dst |-> x, src |-> src, dst |-> d, dst_seq |-> ds, metric |-> m]
Hello(n, s) == [type |-> "HELLO", from |-> n, dst_seq |-> s]
Rerr(n, bad) == [type |-> "RERR", from |-> n, bad |-> bad]

\* A packet that comes to n's output hook.
AtHook(p) == [p |-> p, queue |-> FALSE]

\* send_message of a reply needs some route to the next hop.
send_message(table, p) == IF p.ip_dst \in DOMAIN table THEN {AtHook(p)} ELSE {}

\* Mutant: the new sequence number is sent but not kept.
RequestMutant(n, d, r) ==
    LET id == rreq_id[n] + 1
        ds == IF d \in DOMAIN rt[n] THEN rt[n][d].seq ELSE 0
    IN  /\ rreq_id' = [rreq_id EXCEPT ![n] = id]
        /\ flood' = [flood EXCEPT ![n] = insert_flood_id(@, n, id)]
        /\ timers' = [timers EXCEPT ![n] = @ (+) SetToBag({RESEND_RREQ(d, r)})]
        /\ air' = local_broadcast(air, n, Rreq(n, n, id, rt[n][n].seq + 1, d, ds, 0, NET_DIAMETER))
        /\ UNCHANGED <<rt, krt>>

\* What gen_rreq and resend_rreq have in common: a new flood for d, and a
\* timer with r retries left.
Request(n, d, r) ==
    LET own == rt[n][n].seq + 1
        id  == rreq_id[n] + 1
        ds  == IF d \in DOMAIN rt[n] THEN rt[n][d].seq ELSE 0
    IN  /\ rt' = [rt EXCEPT ![n][n].seq = own]
        /\ rreq_id' = [rreq_id EXCEPT ![n] = id]
        /\ flood' = [flood EXCEPT ![n] = insert_flood_id(@, n, id)]
        /\ timers' = [timers EXCEPT ![n] = @ (+) SetToBag({RESEND_RREQ(d, r)})]
        /\ air' = local_broadcast(air, n, Rreq(n, n, id, own, d, ds, 0, NET_DIAMETER))
        /\ UNCHANGED krt

-----------------------------------------------------------------------------

\* The modules are loaded and the nodes in reach have heard one another.
Init ==
    /\ link = Link
    /\ rt = [n \in Nodes |-> Put([x \in {y \in Nodes : {n, y} \in Link} |-> Route(1, x, 1)], n, Route(1, n, 0))]
    /\ krt = [n \in Nodes |-> [x \in DOMAIN rt[n] |-> x]]
    /\ rreq_id = [n \in Nodes |-> 1]
    /\ neigh = [n \in Nodes |-> {x \in Nodes : {n, x} \in Link}]
    /\ fresh = neigh
    /\ flood = [n \in Nodes |-> {}]
    /\ timers = [n \in Nodes |-> SetToBag({NEIGHBOR(x) : x \in neigh[n]})]
    /\ due = [n \in Nodes |-> EmptyBag]
    /\ task = [n \in Nodes |-> {}]
    /\ out = [n \in Nodes |-> {}]
    /\ ipq = [n \in Nodes |-> <<>>]
    /\ air = [l \in Hops |-> <<>>]
    /\ sent = 0 /\ hellos = 0 /\ expiries = 0 /\ moves = 0 /\ issued = [n \in Nodes |-> 0]

\* Nothing else runs at n before the output hook and the enqueueing are done.
HookDone(n) == Preempt \/ out[n] = {}

\* The thread of n takes the next task.
Idle(n) == task[n] = {} /\ HookDone(n)

-----------------------------------------------------------------------------
(* Packets on their way out.                                               *)

\* A user's packet comes to the hook of the node.
SendData ==
    /\ sent < Len(Sends) /\ HookDone(Sends[sent + 1][1])
    /\ sent' = sent + 1
    /\ out' = [out EXCEPT ![Sends[sent'][1]] = @ \cup {AtHook(Data(Sends[sent'][2], sent'))}]
    /\ UNCHANGED <<rt, krt, rreq_id, neigh, fresh, flood, timers, due, task, ipq, link, air, hellos, expiries, moves, issued>>

\* output_handler finds a valid route: NF_ACCEPT.  The packet goes where the
\* kernel's route leads.
Accept(n, e) ==
    /\ ~e.queue /\ e.p.ip_dst \in DOMAIN rt[n] /\ rt[n][e.p.ip_dst].valid
    /\ out' = [out EXCEPT ![n] = @ \ {e}]
    /\ air' = Transmit(air, n, Gateway(n, e.p.ip_dst), <<e.p>>)
    /\ UNCHANGED <<rt, krt, rreq_id, neigh, fresh, flood, timers, due, task, ipq, link, counters, issued>>

\* It finds none: gen_rreq, unless a retry timer runs for the destination,
\* and NF_QUEUE.
gen_rreq(n, e) ==
    /\ ~e.queue /\ ~(e.p.ip_dst \in DOMAIN rt[n] /\ rt[n][e.p.ip_dst].valid)
    /\ IF find_timer(n, e.p.ip_dst, "RESEND_RREQ")
       THEN UNCHANGED <<rt, krt, rreq_id, flood, timers, air>>
       ELSE Request(n, e.p.ip_dst, RREQ_RETRIES)
    /\ out' = [out EXCEPT ![n] = (@ \ {e}) \cup {[e EXCEPT !.queue = TRUE]}]
    /\ UNCHANGED <<neigh, fresh, due, task, ipq, link, counters, issued>>

\* netfilter hands the packet over; a full queue drops it.
ipq_enqueue(n, e) ==
    /\ e.queue
    /\ out' = [out EXCEPT ![n] = @ \ {e}]
    /\ ipq' = IF Len(ipq[n]) >= QMAX THEN ipq ELSE [ipq EXCEPT ![n] = Append(@, e.p)]
    /\ UNCHANGED <<rt, krt, rreq_id, neigh, fresh, flood, timers, due, task, link, air, counters, issued>>

-----------------------------------------------------------------------------
(* Messages that arrive.  m is the next one from a to n; Rest is what      *)
(* remains on the air.                                                     *)

Next1(a, n, type) == a # n /\ air[<<a, n>>] # <<>> /\ Head(air[<<a, n>>]).type = type
Rest(a, n) == [air EXCEPT ![<<a, n>>] = Tail(@)]

\* A packet is for n, or the kernel passes it on to n's output hook.
PassOn(n, m) == IF m.ip_dst = n THEN {} ELSE {AtHook(m)}

RecvData(n, a) ==
    /\ Next1(a, n, "data") /\ HookDone(n)
    /\ air' = Rest(a, n)
    /\ out' = [out EXCEPT ![n] = @ \cup PassOn(n, Head(air[<<a, n>>]))]
    /\ UNCHANGED <<rt, krt, rreq_id, neigh, fresh, flood, timers, due, task, ipq, link, counters, issued>>

check_rreq(n, m) == ~find_flood_id(n, m.src, m.id) /\ m.from \in fresh[n]

\* reply_to_rreq: the destination moves its sequence number past the
\* requested one.
reply_to_rreq(n, table, m) ==
    IF m.dst = n /\ seq_less_or_equal(table[n].seq, m.dst_seq)
    THEN [table EXCEPT ![n].seq = m.dst_seq + 1] ELSE table

\* gen_rrep, along the route to the source as it is in the table.
gen_rrep(n, table, m) ==
    IF m.src \notin DOMAIN table THEN {}
    ELSE send_message(table, Rrep(n, table[m.src].next_hop, m.src, n, table[n].seq, table[n].metric))

recv_rreq(n, a) ==
    /\ Next1(a, n, "RREQ") /\ Idle(n)
    /\ air' = Rest(a, n)
    /\ LET m == Head(air[<<a, n>>])
       IN  IF m.ttl <= 1 \/ ~check_rreq(n, m) THEN UNCHANGED <<rt, task>>
           ELSE /\ rt' = [rt EXCEPT ![n] = update_aodv_route(n, m.src, m.from, m.metric + 1, m.src_seq)]
                /\ task' = [task EXCEPT ![n] = Left(n, m.src, m.from, m.metric + 1, m.src_seq, m)]
    /\ UNCHANGED <<krt, rreq_id, neigh, fresh, flood, timers, due, out, ipq, link, counters, issued>>

\* The input hook sees replies that are only passing through n, too: they
\* are handled as well as passed on.
recv_rrep(n, a) ==
    /\ Next1(a, n, "RREP") /\ Idle(n)
    /\ air' = Rest(a, n)
    /\ LET m == Head(air[<<a, n>>])
       IN  /\ out' = [out EXCEPT ![n] = @ \cup PassOn(n, m)]
           /\ IF m.from \notin fresh[n] THEN UNCHANGED <<rt, timers, task>>
              ELSE /\ timers' = [timers EXCEPT ![n] = delete_timer(@, m.dst, "RESEND_RREQ")]
                   /\ rt' = [rt EXCEPT ![n] = update_aodv_route(n, m.dst, m.from, m.metric + 1, m.dst_seq)]
                   /\ task' = [task EXCEPT ![n] = Left(n, m.dst, m.from, m.metric + 1, m.dst_seq, m)]
    /\ UNCHANGED <<krt, rreq_id, neigh, fresh, flood, due, ipq, link, counters, issued>>

\* update_aodv_route tells the kernel (two calls of ip_rt_ioctl) ...
insert_kernel_route_entry(n, w) ==
    /\ w.todo = "route" /\ HookDone(n)
    /\ krt' = [krt EXCEPT ![n] = Put(@, w.ip, rt[n][w.ip].next_hop)]
    /\ task' = [task EXCEPT ![n] = {[w EXCEPT !.todo = "send"]}]
    /\ UNCHANGED <<rt, rreq_id, neigh, fresh, flood, timers, due, out, ipq, link, air, counters, issued>>

\* ... and then sends what waits for the route, a packet per turn.
ipq_send_ip(n, w) ==
    /\ w.todo = "send" /\ Waits(n, w.ip) /\ HookDone(n)
    /\ ipq' = [ipq EXCEPT ![n] = ipq_dequeue(@, w.ip)]
    /\ air' = Transmit(air, n, Gateway(n, w.ip), <<ipq[n][First(ipq[n], w.ip)]>>)
    /\ UNCHANGED <<rt, krt, rreq_id, neigh, fresh, flood, timers, due, task, out, link, counters, issued>>

\* update_aodv_route has returned.
Updated(n, w) == w.todo = "answer" \/ (w.todo = "send" /\ ~Waits(n, w.ip))

\* The rest of recv_rreq: the request is answered or goes on.
answer_rreq(n, w) ==
    /\ Updated(n, w) /\ w.m.type = "RREQ" /\ HookDone(n)
    /\ task' = [task EXCEPT ![n] = {}]
    /\ flood' = [flood EXCEPT ![n] = insert_flood_id(@, w.m.src, w.m.id)]
    /\ rt' = [rt EXCEPT ![n] = reply_to_rreq(n, @, w.m)]
    /\ IF w.m.dst = n
       THEN out' = [out EXCEPT ![n] = @ \cup gen_rrep(n, rt'[n], w.m)] /\ UNCHANGED air
       ELSE /\ air' = local_broadcast(air, n, [w.m EXCEPT !.from = n, !.metric = @ + 1, !.ttl = @ - 1])
            /\ UNCHANGED out
    /\ UNCHANGED <<krt, rreq_id, neigh, fresh, timers, due, ipq, link, counters, issued>>

\* The rest of recv_rrep: the reply goes on along the route to the source.
forward_rrep(n, w) ==
    /\ Updated(n, w) /\ w.m.type = "RREP" /\ HookDone(n)
    /\ task' = [task EXCEPT ![n] = {}]
    /\ out' = [out EXCEPT ![n] = @ \cup
                 IF w.m.src \notin DOMAIN rt[n] \/ w.m.src = n THEN {}
                 ELSE send_message(rt[n], [w.m EXCEPT !.from = n, !.ip_dst = rt[n][w.m.src].next_hop,
                                                      !.metric = @ + 1])]
    /\ UNCHANGED <<rt, krt, rreq_id, neigh, fresh, flood, timers, due, ipq, link, air, counters, issued>>

\* The route to a neighbour is whatever its hello says; nothing queued for
\* it is sent.  The kernel is given the next hop of before.
update_aodv_neigh_route(table, m) == Put(table, m.from, Route(m.dst_seq, m.from, 1))
OldGateway(table, x) == IF x \in DOMAIN table THEN table[x].next_hop ELSE x

recv_hello(n, a) ==
    /\ Next1(a, n, "HELLO") /\ Idle(n)
    /\ LET m == Head(air[<<a, n>>])
       IN  /\ neigh' = [neigh EXCEPT ![n] = @ \cup {m.from}]
           /\ fresh' = [fresh EXCEPT ![n] = @ \cup {m.from}]
           /\ timers' = [timers EXCEPT ![n] = delete_timer(@, m.from, "NEIGHBOR")
                                              (+) SetToBag({NEIGHBOR(m.from)})]
           /\ rt' = [rt EXCEPT ![n] = update_aodv_neigh_route(@, m)]
           /\ krt' = [krt EXCEPT ![n] = Put(@, m.from, OldGateway(rt[n], m.from))]
    /\ air' = Rest(a, n)
    /\ UNCHANGED <<rreq_id, flood, due, task, out, ipq, link, counters, issued>>

\* Routes through the sender end with the sequence number of the error, plus
\* one for the ones that were valid; the error goes on for all of them.
recv_rerr(n, a) ==
    /\ Next1(a, n, "RERR") /\ Idle(n)
    /\ LET m == Head(air[<<a, n>>])
           hit == {b \in m.bad : b[1] \in DOMAIN rt[n] /\ b[1] # n /\ rt[n][b[1]].next_hop = m.from}
           Told(d) == [rt[n][d] EXCEPT !.seq = (CHOOSE b \in hit : b[1] = d)[2]]
       IN  /\ rt' = [rt EXCEPT ![n] =
                       [d \in DOMAIN @ |-> IF \A b \in hit : b[1] # d THEN @[d]
                                           ELSE IF @[d].valid THEN expire_aodv_route(Told(d)) ELSE Told(d)]]
           /\ air' = IF hit = {} THEN Rest(a, n) ELSE local_broadcast(Rest(a, n), n, Rerr(n, hit))
    /\ UNCHANGED <<krt, rreq_id, neigh, fresh, flood, timers, due, task, out, ipq, link, counters, issued>>

-----------------------------------------------------------------------------
(* Timers.                                                                 *)

\* A neighbour's lifetime ends before its timer fires.
TimerFires(n, t) ==
    /\ t.type = "NEIGHBOR" => t.ip \notin fresh[n]
    /\ timers' = [timers EXCEPT ![n] = @ (-) SetToBag({t})]
    /\ due' = [due EXCEPT ![n] = @ (+) SetToBag({t})]
    /\ UNCHANGED <<rt, krt, rreq_id, neigh, fresh, flood, task, out, ipq, link, air, counters, issued>>

\* Mutant: the packets are kept when the retries are used up.
resend_rreqMutant(n, t) ==
    /\ t.type = "RESEND_RREQ" /\ Idle(n)
    /\ due' = [due EXCEPT ![n] = @ (-) SetToBag({t})]
    /\ IF t.retries <= 0 THEN UNCHANGED <<rt, krt, rreq_id, flood, timers, air>>
       ELSE Request(n, t.ip, t.retries - 1)
    /\ UNCHANGED <<neigh, fresh, task, out, ipq, link, counters, issued>>

\* TASK_RESEND_RREQ: another request, or the packets are to be dropped ...
resend_rreq(n, t) ==
    /\ t.type = "RESEND_RREQ" /\ Idle(n)
    /\ due' = [due EXCEPT ![n] = @ (-) SetToBag({t})]
    /\ IF t.retries <= 0
       THEN /\ task' = [task EXCEPT ![n] = {[todo |-> "drop", ip |-> t.ip, m |-> t]}]
            /\ UNCHANGED <<rt, krt, rreq_id, flood, timers, air>>
       ELSE Request(n, t.ip, t.retries - 1) /\ UNCHANGED task
    /\ UNCHANGED <<neigh, fresh, out, ipq, link, counters, issued>>

\* ... a packet per turn, until none is left.
ipq_drop_ip(n, w) ==
    /\ w.todo = "drop" /\ HookDone(n)
    /\ IF Waits(n, w.ip)
       THEN ipq' = [ipq EXCEPT ![n] = ipq_dequeue(@, w.ip)] /\ UNCHANGED task
       ELSE task' = [task EXCEPT ![n] = {}] /\ UNCHANGED ipq
    /\ UNCHANGED <<rt, krt, rreq_id, neigh, fresh, flood, timers, due, out, link, air, counters, issued>>

\* gen_rerr reports the routes through x, valid or not, with the sequence
\* numbers they have, and then ends the valid ones.
Through(n, x) == {d \in DOMAIN rt[n] \ {n} : rt[n][d].next_hop = x}
gen_rerr(n, x) ==
    [d \in DOMAIN rt[n] |->
        IF d \in Through(n, x) /\ rt[n][d].valid THEN expire_aodv_route(rt[n][d]) ELSE rt[n][d]]

\* TASK_NEIGHBOR.  Only if the neighbour's own route is direct are the
\* routes through it ended; its own entry is then removed.
delete_aodv_neigh(n, t) ==
    /\ t.type = "NEIGHBOR" /\ Idle(n)
    /\ due' = [due EXCEPT ![n] = @ (-) SetToBag({t})]
    /\ IF t.ip \notin neigh[n] THEN UNCHANGED <<rt, krt, neigh, fresh, timers, air>>
       ELSE /\ neigh' = [neigh EXCEPT ![n] = @ \ {t.ip}]
            /\ fresh' = [fresh EXCEPT ![n] = @ \ {t.ip}]
            /\ timers' = [timers EXCEPT ![n] = delete_timer(@, t.ip, "NEIGHBOR")]
            /\ IF ~(t.ip \in DOMAIN rt[n] /\ rt[n][t.ip].next_hop = t.ip)
               THEN UNCHANGED <<rt, krt, air>>
               ELSE /\ krt' = [krt EXCEPT ![n] = Restrict(@, DOMAIN @ \ {t.ip})]
                    /\ rt' = [rt EXCEPT ![n] = Restrict(gen_rerr(n, t.ip), DOMAIN @ \ {t.ip})]
                    /\ air' = local_broadcast(air, n,
                                  Rerr(n, {<<d, rt[n][d].seq>> : d \in Through(n, t.ip)}))
    /\ UNCHANGED <<rreq_id, flood, task, out, ipq, link, counters, issued>>

\* TASK_HELLO.
send_hello(n) ==
    /\ hellos < MaxHellos /\ Idle(n)
    /\ hellos' = hellos + 1
    /\ air' = local_broadcast(air, n, Hello(n, rt[n][n].seq))
    /\ UNCHANGED <<rt, krt, rreq_id, neigh, fresh, flood, timers, due, task, out, ipq, link, sent, expiries, moves, issued>>

\* Mutant: self_route is not asked.
flush_aodv_route_tableMutant(n, d) ==
    /\ expiries < MaxExpiries /\ HookDone(n)
    /\ rt[n][d].valid \/ task[n] = {}
    /\ expiries' = expiries + 1
    /\ rt' = [rt EXCEPT ![n] = IF rt[n][d].valid THEN [rt[n] EXCEPT ![d] = expire_aodv_route(@)]
                               ELSE Restrict(rt[n], DOMAIN rt[n] \ {d})]
    /\ krt' = IF rt[n][d].valid THEN krt ELSE [krt EXCEPT ![n] = Restrict(@, DOMAIN @ \ {d})]
    /\ UNCHANGED <<rreq_id, neigh, fresh, flood, timers, due, task, out, ipq, link, air, sent, hellos, moves, issued>>

\* A route is found overdue: find_aodv_route, in any context, and the
\* thread's flush_aodv_route_table let it expire, and the latter removes it
\* the second time.  The lifetime of an entry depends on all that has used
\* it: any entry but the node's own may be overdue, one of a neighbour too.
flush_aodv_route_table(n, d) ==
    /\ expiries < MaxExpiries /\ HookDone(n) /\ d # n
    /\ rt[n][d].valid \/ task[n] = {}
    /\ expiries' = expiries + 1
    /\ rt' = [rt EXCEPT ![n] = IF rt[n][d].valid THEN [rt[n] EXCEPT ![d] = expire_aodv_route(@)]
                               ELSE Restrict(rt[n], DOMAIN rt[n] \ {d})]
    /\ krt' = IF rt[n][d].valid THEN krt ELSE [krt EXCEPT ![n] = Restrict(@, DOMAIN @ \ {d})]
    /\ UNCHANGED <<rreq_id, neigh, fresh, flood, timers, due, task, out, ipq, link, air, sent, hellos, moves, issued>>

\* Messages update_aodv_route takes a route to n from.
About(m, n) == (m.type = "RREQ" /\ m.src = n) \/ (m.type = "RREP" /\ m.dst = n)

\* rmmod and insmod, while no packet is between hook and queue and the thread
\* has returned from its handler.  Nothing is remembered, and the queue is flushed.  kill_aodv alone takes a second:
\* longer than a message about n stays on the air (NET_TRAVERSAL_TIME),
\* shorter or longer than the others keep a flood id (PATH_DISCOVERY_TIME).
Restart(n) ==
    /\ expiries < MaxExpiries /\ out[n] = {} /\ task[n] = {}
    /\ expiries' = expiries + 1
    /\ issued' = [issued EXCEPT ![n] = IF rt[n][n].seq > @ THEN rt[n][n].seq ELSE @]
    /\ rt' = [rt EXCEPT ![n] = [x \in {n} |-> Route(1, n, 0)]]
    /\ krt' = [krt EXCEPT ![n] = [x \in {n} |-> n]]
    /\ rreq_id' = [rreq_id EXCEPT ![n] = 1]
    /\ neigh' = [neigh EXCEPT ![n] = {}]
    /\ fresh' = [fresh EXCEPT ![n] = {}]
    /\ \A l \in DOMAIN air : \A i \in DOMAIN air[l] : ~About(air[l][i], n)
    /\ \A x \in Nodes : \A w \in task[x] : ~About(w.m, n)
    /\ \E keep \in BOOLEAN :
         flood' = [x \in Nodes |-> IF x = n THEN {} ELSE {f \in flood[x] : keep \/ f[1] # n}]
    /\ timers' = [timers EXCEPT ![n] = EmptyBag]
    /\ due' = [due EXCEPT ![n] = EmptyBag]
    /\ ipq' = [ipq EXCEPT ![n] = <<>>]
    /\ UNCHANGED <<task, out, link, air, sent, hellos, moves>>

-----------------------------------------------------------------------------
(* The radio.                                                              *)

\* n has not heard x for longer than the lifetime of a neighbour: x is out
\* of reach, or its hellos have been lost.
Silent(n, x) ==
    /\ x \in Hear(n) => moves < MaxMoves /\ {n, x} \in Movable
    /\ moves' = IF x \in Hear(n) THEN moves + 1 ELSE moves
    /\ fresh' = [fresh EXCEPT ![n] = @ \ {x}]
    /\ UNCHANGED <<rt, krt, rreq_id, neigh, flood, timers, due, task, out, ipq, link, air, sent, hellos, expiries, issued>>

Lose(a, b) ==
    /\ a # b /\ air[<<a, b>>] # <<>>
    /\ air' = Rest(a, b)
    /\ UNCHANGED <<rt, krt, rreq_id, neigh, fresh, flood, timers, due, task, out, ipq, link, counters, issued>>

Move(l) ==
    /\ moves < MaxMoves
    /\ moves' = moves + 1
    /\ link' = IF l \in link THEN link \ {l} ELSE link \cup {l}
    /\ UNCHANGED <<rt, krt, rreq_id, neigh, fresh, flood, timers, due, task, out, ipq, air, sent, hellos, expiries, issued>>

Next ==
    \/ SendData
    \/ \E n \in Nodes : \E e \in out[n] : Accept(n, e) \/ gen_rreq(n, e) \/ ipq_enqueue(n, e)
    \/ \E n, a \in Nodes :
         RecvData(n, a) \/ recv_rreq(n, a) \/ recv_rrep(n, a) \/ recv_hello(n, a) \/ recv_rerr(n, a)
         \/ Lose(a, n)
    \/ \E n \in Nodes : \E w \in task[n] : insert_kernel_route_entry(n, w) \/ ipq_send_ip(n, w)
         \/ ipq_drop_ip(n, w) \/ answer_rreq(n, w) \/ forward_rrep(n, w)
    \/ \E n \in Nodes : \E t \in DOMAIN timers[n] : TimerFires(n, t)
    \/ \E n \in Nodes : \E t \in DOMAIN due[n] : resend_rreq(n, t) \/ delete_aodv_neigh(n, t)
    \/ \E n \in Nodes : send_hello(n)
    \/ \E n \in Nodes : \E d \in DOMAIN rt[n] : flush_aodv_route_table(n, d)
    \/ \E n \in Nodes : \E x \in fresh[n] : Silent(n, x)
    \/ \E l \in Movable : Move(l)
    \/ \E n \in Nodes : Restart(n)

Spec == Init /\ [][Next]_vars

\* What the thread of n does with the handler it is in.
GoesOn(n, w) ==
    \/ insert_kernel_route_entry(n, w) \/ ipq_send_ip(n, w) \/ ipq_drop_ip(n, w)
    \/ answer_rreq(n, w) \/ forward_rrep(n, w)

\* The hook runs to its end, timers fire, the thread goes on with what it is
\* in and handles what is due.  Nothing is assumed of the radio.
FairSpec ==
    /\ Spec
    /\ \A n \in Nodes :
         /\ WF_vars(\E e \in out[n] : Accept(n, e) \/ gen_rreq(n, e) \/ ipq_enqueue(n, e))
         /\ WF_vars(\E t \in DOMAIN timers[n] : TimerFires(n, t))
         /\ WF_vars(\/ \E w \in task[n] : GoesOn(n, w)
                    \/ \E t \in DOMAIN due[n] : resend_rreq(n, t) \/ delete_aodv_neigh(n, t))

-----------------------------------------------------------------------------
(* Properties.                                                             *)

Routes == [seq : Nat, next_hop : Nodes, metric : Nat, valid : BOOLEAN]

\* What goes through the output hook, and what a node hears.
Packets ==
    [type : {"data"}, ip_dst : Nodes, id : 1 .. Len(Sends)]
    \cup [type : {"RREP"}, from : Nodes, ip_dst : Nodes, src : Nodes, dst : Nodes, dst_seq : Nat,
          metric : Nat]
Messages ==
    Packets
    \cup [type : {"RREQ"}, from : Nodes, src : Nodes, id : Nat, src_seq : Nat, dst : Nodes,
          dst_seq : Nat, metric : Nat, ttl : Nat]
    \cup [type : {"HELLO"}, from : Nodes, dst_seq : Nat]
    \cup [type : {"RERR"}, from : Nodes, bad : SUBSET (Nodes \X Nat)]

\* What the thread has in hand.
Works ==
    [todo : {"route", "send", "answer"}, ip : Nodes, m : {m \in Messages : m.type \in {"RREQ", "RREP"}}]
    \cup [todo : {"drop"}, ip : Nodes, m : Tasks]

\* Every variable has its type: every table lists a valid route to the node
\* itself, the kernel has routes to nothing the table does not list, the
\* thread is in one handler at most and its route is listed, only listed
\* neighbours are fresh, a broadcast comes from the node at the other end of
\* the hop, and the packet queue (ipq_enqueue) never holds more than its
\* limit.
TypeOK ==
    /\ DOMAIN rt = Nodes /\ DOMAIN krt = Nodes /\ DOMAIN task = Nodes
    /\ \A n \in Nodes :
          /\ DOMAIN rt[n] \subseteq Nodes /\ rt[n] \in [DOMAIN rt[n] -> Routes]
          /\ n \in DOMAIN rt[n] /\ rt[n][n].valid
          /\ DOMAIN krt[n] \subseteq DOMAIN rt[n] /\ krt[n] \in [DOMAIN krt[n] -> Nodes]
          /\ task[n] \subseteq Works /\ \A w, v \in task[n] : w = v
          /\ \A w \in task[n] : w.todo \in {"route", "send"} => w.ip \in DOMAIN rt[n]
    /\ rreq_id \in [Nodes -> Nat] /\ flood \in [Nodes -> SUBSET (Nodes \X Nat)]
    /\ neigh \in [Nodes -> SUBSET Nodes] /\ fresh \in [Nodes -> SUBSET Nodes]
    /\ \A n \in Nodes : n \notin neigh[n] /\ fresh[n] \subseteq neigh[n]
    /\ DOMAIN timers = Nodes /\ DOMAIN due = Nodes
    /\ \A n \in Nodes : /\ IsABag(timers[n]) /\ DOMAIN timers[n] \subseteq Tasks
                        /\ IsABag(due[n]) /\ DOMAIN due[n] \subseteq Tasks
    /\ out \in [Nodes -> SUBSET [p : Packets, queue : BOOLEAN]]
    /\ ipq \in [Nodes -> Seq(Packets)] /\ \A n \in Nodes : Len(ipq[n]) <= QMAX
    /\ DOMAIN air = Hops
    /\ \A l \in Hops :
          /\ air[l] \in Seq(Messages)
          /\ \A i \in DOMAIN air[l] :
                air[l][i].type \in {"RREQ", "HELLO", "RERR"} => air[l][i].from = l[1]
    /\ link \subseteq Link \cup Movable
    /\ sent \in 0 .. Len(Sends) /\ hellos \in Nat /\ expiries \in Nat /\ moves \in Nat
    /\ issued \in [Nodes -> Nat]

\* A node that was never restarted keeps its own route as aodv_dev.c made it,
\* but for the sequence number: expiry, errors and lost neighbours pass it
\* by, and no request or reply update_aodv_route takes a route to the node
\* from is newer than the node is.  After a restart a reply that waited in a
\* queue elsewhere may be.
OwnRoute ==
    \A n \in Nodes : issued[n] = 0 => rt[n][n] = Route(rt[n][n].seq, n, 0)

\* A valid route is never newer than its destination: the sequence number a
\* node holds for d in a valid route is one d has itself given out, in this
\* life or an earlier one (gen_rreq, reply_to_rreq, send_hello), whatever was
\* lost, expired or reported broken on the way.  The numbers expire_aodv_route and recv_rerr
\* make up stay in invalid routes.
ValidNotNewer ==
    \A n, x \in Nodes : x \in DOMAIN rt[n] /\ rt[n][x].valid =>
        rt[n][x].seq <= rt[x][x].seq \/ rt[n][x].seq <= issued[x]

\* A packet that is queued is eventually fed back (ipq_send_ip, ipq_drop_ip).
FedBack ==
    \A i \in 1 .. Len(Sends) :
        LET queued == \E n \in Nodes : \E k \in DOMAIN ipq[n] : ipq[n][k].type = "data" /\ ipq[n][k].id = i
        IN  queued ~> ~queued
=============================================================================
