------------------------------ MODULE AodvNode ------------------------------
(***************************************************************************)
(* The data path of one routing daemon: the output hook (packet_out.c),    *)
(* the aodv thread, and rmmod (module.c) at work on the route table, the   *)
(* kernel's routes (RouteTable) and the packet queue (PacketQueue).        *)
(*                                                                         *)
(* What the network makes the thread do is free: any handler may run at    *)
(* any time, with any sequence number.  AodvNetwork is about that.         *)
(***************************************************************************)
EXTENDS PacketQueue, RouteTable

CONSTANTS
    Hops,                              \* the nodes that may be neighbours
    Dests,                             \* those of them routes are asked for
    MaxSeq, MaxHandlers, MaxElapses    \* bounds

ASSUME AodvNodeAssumption ==
    /\ Dests \subseteq Hops \cap Ips /\ Hops \subseteq Addresses \ ({LO, ME} \cup SUBNETMASK)
    /\ Ips \subseteq Addresses
    /\ IsFiniteSet(Hops \cup Locals)
    /\ Cardinality(Hops \cup Locals) + 3 <= Cardinality(Cells)      \* memory enough
    /\ Entries \subseteq Nat /\ Contexts = {"thread"}
    /\ MaxSeq \in Nat /\ MaxHandlers \in Nat /\ MaxElapses \in Nat

VARIABLES
    verdict,            \* verdict[e]: what output_handler has said, if anything
    rmmod,              \* how far cleanup_module is
    handlers, elapses   \* counters

vars == <<qvars, rvars, verdict, rmmod, handlers, elapses>>

Init ==
    /\ QInit /\ RInit
    /\ verdict = [e \in Entries |-> "none"]
    /\ rmmod = "loaded"
    /\ handlers = 0 /\ elapses = 0

-----------------------------------------------------------------------------
(* Packets on their way out.                                               *)

\* What output_handler asks of a table it has just searched.
HasRoute(t, ip) == LET c == FoundCell(t, ip) IN IF c = NULL THEN FALSE ELSE t.cell[c].valid

\* output_handler: a valid route is given a new lifetime and the packet goes.
Accept(e) ==
    LET t == find_aodv_route(table, Dst[e])
        c == FoundCell(t, Dst[e])
    IN  /\ HasRoute(t, Dst[e])
        /\ table' = IF t.cell[c].self THEN t ELSE Written(t, c, [t.cell[c] EXCEPT !.overdue = FALSE])
        /\ verdict' = [verdict EXCEPT ![e] = "NF_ACCEPT"]
        /\ UNCHANGED kernel

\* Without one it asks for a route (gen_rreq) and has the packet queued.
Queue(e) ==
    /\ ~HasRoute(find_aodv_route(table, Dst[e]), Dst[e])
    /\ LookUp(Dst[e])
    /\ verdict' = [verdict EXCEPT ![e] = "NF_QUEUE"]

\* A packet is in the hook, or on its way from there into the queue.
InHook(e) == e \in inside \/ (verdict[e] = "NF_QUEUE" /\ fate[e] = "new")

\* Bound: packets come one at a time, in the order of their numbers.
Comes(e) == /\ \A b \in Entries : ~InHook(b)
            /\ \A b \in Entries : b < e => verdict[b] # "none" \/ fate[b] # "new"

output_handler(e) ==
    /\ rmmod = "loaded" /\ e \in PostRouting /\ verdict[e] = "none" /\ Comes(e)
    /\ Accept(e) \/ Queue(e)
    /\ UNCHANGED <<qvars, rmmod, handlers, elapses>>

\* Entries come to the queue by the hook's verdict, or from elsewhere.
NfQueue(e) ==
    /\ \/ (IF e \in PostRouting THEN InHook(e) ELSE Comes(e)) /\ netfilter_receive(e)
       \/ ipq_enqueue(e)
       \/ ipq_enqueue_return(e)
    /\ UNCHANGED <<rvars, verdict, rmmod, handlers, elapses>>

-----------------------------------------------------------------------------
(* The thread.                                                             *)

\* Bound: the sequence number of a neighbour no route is asked for is never
\* compared with anything.
Numbers(x) == 1 .. (IF x \in Dests THEN MaxSeq ELSE 1)

\* Handlers that touch the route table only.
TableHandler ==
    \/ \E d \in Dests : RefuseRoute(d)
    \/ \E d \in Dests : \E x \in Hops \ {d}, s \in 1 .. MaxSeq : recv_rerr(x, d, s)
    \/ \E x \in Hops : delete_aodv_neigh(x)
    \/ \E x \in Hops : \E s \in Numbers(x) : update_aodv_neigh_route(x, s)
    \/ \E d \in Locals : reply_to_rreq(d)
    \/ \E c \in DOMAIN table.cell : flush_aodv_route_table(c)

\* update_aodv_route takes on a route and goes on to release the queue, and
\* resend_rreq gives up.
QueueHandler(d) ==
    \/ /\ d \in Dests
       /\ \E x \in Hops, s \in 1 .. MaxSeq : LearnRoute(d, x, IF x = d THEN 1 ELSE 2, s)
       /\ ipq_send_ip("thread", d)
    \/ ipq_drop_ip("thread", d) /\ UNCHANGED rvars

Handler ==
    /\ handlers < MaxHandlers /\ drain["thread"].op = "idle"
    /\ rmmod \in {"loaded", "unhooking", "unhooked"}
    /\ handlers' = handlers + 1
    /\ \/ TableHandler /\ UNCHANGED qvars
       \/ \E d \in Ips : QueueHandler(d)
    /\ UNCHANGED <<verdict, rmmod, elapses>>

\* The loop of ipq_send_ip or ipq_drop_ip; update_aodv_route ends after it.
ThreadLoop ==
    /\ \/ (ipq_dequeue("thread") \/ nf_reinject("thread")) /\ UNCHANGED rvars
       \/ /\ ipq_drained("thread")
          /\ IF drain["thread"].op = "send" THEN SetLifetime(drain["thread"].ip) ELSE UNCHANGED rvars
    /\ UNCHANGED <<verdict, rmmod, handlers, elapses>>

Time ==
    /\ elapses < MaxElapses
    /\ elapses' = elapses + 1
    /\ \E c \in DOMAIN table.cell : Elapse(c)
    /\ UNCHANGED <<qvars, verdict, rmmod, handlers>>

-----------------------------------------------------------------------------
(* rmmod: cleanup_module.                                                  *)

rmmodStep(from, to) == rmmod = from /\ rmmod' = to /\ UNCHANGED <<verdict, handlers, elapses>>

\* nf_unregister_hook takes the output hook away ...
UnregisterHook == rmmodStep("loaded", "unhooking") /\ UNCHANGED <<qvars, rvars>>

\* Mutant: it waits until the queue has let them go.
HookGoneMutant ==
    /\ \A e \in PostRouting : ~InHook(e) /\ fate[e] # "queued"
    /\ rmmodStep("unhooking", "unhooked")
    /\ UNCHANGED <<qvars, rvars>>

\* ... and waits for the packets it has seen to be queued.
HookGone ==
    /\ \A e \in PostRouting : ~InHook(e)
    /\ rmmodStep("unhooking", "unhooked")
    /\ UNCHANGED <<qvars, rvars>>

\* kill_aodv: the second it waits is enough for the handler under way.
kill_aodv ==
    /\ drain["thread"].op = "idle"
    /\ rmmodStep("unhooked", "killed")
    /\ UNCHANGED <<qvars, rvars>>

cleanup_packet_queue ==
    /\ rmmodStep("killed", "killed") /\ UNCHANGED rvars
    /\ ipq_destroy_queue \/ ipq_dequeue("rmmod") \/ nf_reinject("rmmod")

CleanUpTable ==
    /\ phase = "freed"
    /\ rmmodStep("killed", "gone")
    /\ cleanup_aodv_route_table
    /\ UNCHANGED qvars

Rmmod == UnregisterHook \/ HookGone \/ kill_aodv \/ cleanup_packet_queue \/ CleanUpTable

Next ==
    \/ \E e \in Entries : output_handler(e) \/ NfQueue(e)
    \/ Handler \/ ThreadLoop \/ Time
    \/ Rmmod

Spec == Init /\ [][Next]_vars

\* A packet in the hook goes on, and so do the thread's loops and an rmmod
\* that has begun: not all of them need to be scheduled, but one that can go
\* on is.  Nobody has to send, to ask or to unload.
Progress ==
    \/ \E e \in Entries : InHook(e) /\ NfQueue(e)
    \/ ThreadLoop
    \/ HookGone \/ kill_aodv \/ cleanup_packet_queue \/ CleanUpTable

FairSpec == Spec /\ WF_vars(Progress)

-----------------------------------------------------------------------------
(* Properties.                                                             *)

\* Every variable has its type, and no pointer of the route table leads to
\* memory that remove_aodv_route has freed.
TypeOK ==
    LET Pointers == DOMAIN table.cell \cup {NULL} IN
    /\ QTypeOK
    /\ table.head \in Pointers /\ DOMAIN table.cell \subseteq Cells
    /\ \A c \in DOMAIN table.cell :
         /\ table.cell[c].ip \in Addresses /\ table.cell[c].next_hop \in Addresses
         /\ table.cell[c].next \in Pointers /\ table.cell[c].prev \in Pointers
    /\ DOMAIN kernel \subseteq Addresses /\ \A d \in DOMAIN kernel : kernel[d] \in Addresses
    /\ verdict \in [Entries -> {"none", "NF_ACCEPT", "NF_QUEUE"}]
    /\ rmmod \in {"loaded", "unhooking", "unhooked", "killed", "gone"}

\* A packet that waited is let go (ipq_send_ip) only when the kernel's route
\* to its destination, which ip_route_me_harder is about to look up, leads to
\* the next hop that update_aodv_route has just put in the table.
ReleasedToRoute ==
    [][\A e \in Entries : fate[e] # "accepted" /\ fate'[e] = "accepted" =>
         LET c == FoundCell(table, Dst[e])
         IN  c # NULL /\ Dst[e] \in DOMAIN kernel /\ kernel[Dst[e]] = table.cell[c].next_hop]_vars

\* When cleanup_module is done no packet is left behind, in the queue or on
\* its way into it, and no route of the daemon is left in the kernel.
CleanUnload ==
    rmmod = "gone" => /\ \A e \in Entries : fate[e] \notin {"entering", "queued"}
                      /\ DOMAIN kernel = {}

\* What ipq_enqueue keeps is fed back at most once, by whichever of
\* ipq_send_ip, ipq_drop_ip and ipq_flush, and exactly once when
\* cleanup_module is done: then nothing is kept any more.  An entry that
\* finds the queue full is not covered: ipq_enqueue frees it and netfilter,
\* told of an error, does so again.
Contract == INSTANCE Custody WITH place <- Place, closed <- rmmod = "gone"
FeedsBack == Contract!Spec

\* cleanup_module comes to its end: neither the wait for the hooks nor the
\* one for the queue handler nor the flush goes on for ever.
UnloadEnds == rmmod = "unhooking" ~> rmmod = "gone"
=============================================================================
