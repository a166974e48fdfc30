---------------------------- MODULE PacketQueue ----------------------------
(***************************************************************************)
(* The queue of packets that wait for a route (kaodv's packet_queue.c),    *)
(* lock section by lock section.  Netfilter hands entries over in any      *)
(* context and on any processor; a context of the daemon takes them out    *)
(* one at a time, with the lock released in between; rmmod flushes what    *)
(* is left and frees the queue.                                            *)
(***************************************************************************)
EXTENDS Integers, Sequences

CONSTANTS
    Entries,       \* the nf_queue_entry structures
    Ips,           \* destination addresses
    Dst,           \* Dst[e]: iphdr->daddr
    PostRouting,   \* the entries queued at NF_INET_POST_ROUTING, where the
                   \* output hook is; others come from iptables' QUEUE target
    Contexts,      \* the contexts that may send or drop
    MAXLEN,        \* *q->maxlen
    None

ASSUME PacketQueueAssumption ==
    /\ Dst \in [Entries -> Ips] /\ PostRouting \subseteq Entries
    /\ "rmmod" \notin Contexts /\ MAXLEN \in Nat /\ None \notin Entries

VARIABLES
    q_list,        \* the list of entries
    len, flushing, terminate,   \* the fields of q
    phase,         \* how far ipq_destroy_queue is; in "freed" q is freed
    inside,        \* the entries netfilter_receive has not returned for
    fate,          \* fate[e]: what has become of e
    drain,         \* drain[c]: the loop context c is in, and the entry in its hand
    came, taken    \* observers: entries in the order they were put in, taken out

qvars == <<q_list, len, flushing, terminate, phase, inside, fate, drain, came, taken>>

Drainers == Contexts \cup {"rmmod"}
Idle == [op |-> "idle", ip |-> None, e |-> None]

\* ipq_create_queue has registered the handler.
ipq_create_queue ==
    /\ q_list = <<>> /\ len = 0 /\ flushing = FALSE /\ terminate = FALSE
    /\ phase = "live"
    /\ inside = {}
    /\ fate = [e \in Entries |-> "new"]
    /\ drain = [c \in Drainers |-> Idle]
    /\ came = <<>> /\ taken = <<>>

-----------------------------------------------------------------------------
(* Netfilter hands an entry over.                                          *)

netfilter_receive(e) ==
    /\ phase = "live" /\ fate[e] = "new"
    /\ fate' = [fate EXCEPT ![e] = "entering"]
    /\ inside' = inside \cup {e}
    /\ UNCHANGED <<q_list, len, flushing, terminate, phase, drain, came, taken>>

\* Mutant: the limit is not asked.
FullMutant == flushing \/ terminate

Full == len >= MAXLEN \/ flushing \/ terminate

\* The lock section: the entry goes to the end of the list, or is freed.
ipq_enqueue(e) ==
    /\ fate[e] = "entering"
    /\ IF Full
       THEN /\ fate' = [fate EXCEPT ![e] = "freed"]
            /\ UNCHANGED <<q_list, len, came>>
       ELSE /\ fate' = [fate EXCEPT ![e] = "queued"]
            /\ q_list' = Append(q_list, e)
            /\ len' = len + 1
            /\ came' = Append(came, e)
    /\ UNCHANGED <<flushing, terminate, phase, inside, drain, taken>>

\* After it: q->len is read once more, and the call returns.
ipq_enqueue_return(e) ==
    /\ e \in inside /\ fate[e] # "entering"
    /\ inside' = inside \ {e}
    /\ UNCHANGED <<q_list, len, flushing, terminate, phase, fate, drain, came, taken>>

-----------------------------------------------------------------------------
(* Taking entries out.                                                     *)

ip_cmp(e, d) == e \in PostRouting /\ Dst[e] = d

\* Mutant: a flush compares addresses, too.
MatchesMutant(c, e) == ip_cmp(e, drain[c].ip)

\* cmp is NULL for a flush.
Matches(c, e) == drain[c].op = "flush" \/ ip_cmp(e, drain[c].ip)
Found(c) == {i \in DOMAIN q_list : Matches(c, q_list[i])}

\* Mutant: the entry stays linked.
list_delMutant(s, i) == s

list_del(s, i) == [j \in 1 .. Len(s) - 1 |-> IF j < i THEN s[j] ELSE s[j + 1]]

\* Mutant: the list is searched from its end.
FirstMutant(i, S) == \A j \in S : j <= i

First(i, S) == \A j \in S : i <= j

\* The loops of ipq_send_ip and ipq_drop_ip are entered ...
ipq_send_ip(c, d) == /\ drain[c].op = "idle"
                     /\ drain' = [drain EXCEPT ![c] = [op |-> "send", ip |-> d, e |-> None]]
                     /\ UNCHANGED <<q_list, len, flushing, terminate, phase, inside, fate, came, taken>>
ipq_drop_ip(c, d) == /\ drain[c].op = "idle"
                     /\ drain' = [drain EXCEPT ![c] = [op |-> "drop", ip |-> d, e |-> None]]
                     /\ UNCHANGED <<q_list, len, flushing, terminate, phase, inside, fate, came, taken>>

\* ... each turn takes the first entry that matches into the hand ...
ipq_dequeue(c) ==
    /\ drain[c].op # "idle" /\ drain[c].e = None
    /\ \E i \in Found(c) :
         /\ First(i, Found(c))
         /\ q_list' = list_del(q_list, i)
         /\ len' = len - 1
         /\ drain' = [drain EXCEPT ![c].e = q_list[i]]
         /\ taken' = Append(taken, q_list[i])
    /\ UNCHANGED <<flushing, terminate, phase, inside, fate, came>>

\* ... and feeds it back, without the lock.  That frees the entry: another
\* time it would be memory that belongs to somebody else ...
nf_reinject(c) ==
    /\ drain[c].e # None
    /\ fate' = [fate EXCEPT ![drain[c].e] = CASE @ # "queued" -> "corrupt"
                                              [] drain[c].op = "send" -> "accepted"
                                              [] OTHER -> "dropped"]
    /\ drain' = [drain EXCEPT ![c].e = None]
    /\ UNCHANGED <<q_list, len, flushing, terminate, phase, inside, came, taken>>

\* ... until nothing is found.
ipq_drained(c) ==
    /\ drain[c].op \in {"send", "drop"} /\ drain[c].e = None /\ Found(c) = {}
    /\ drain' = [drain EXCEPT ![c] = Idle]
    /\ UNCHANGED <<q_list, len, flushing, terminate, phase, inside, fate, came, taken>>

-----------------------------------------------------------------------------
(* rmmod: ipq_destroy_queue, which calls ipq_flush.                        *)

\* From here on netfilter finds no handler.
nf_unregister_queue_handler ==
    /\ phase = "live"
    /\ phase' = "waiting"
    /\ UNCHANGED <<q_list, len, flushing, terminate, inside, fate, drain, came, taken>>

\* Mutant: the calls that are under way are not waited for.
SynchronizedMutant == TRUE

Synchronized == inside = {}

\* It returns when no call is under way.
ipq_terminate ==
    /\ phase = "waiting" /\ Synchronized
    /\ terminate' = TRUE
    /\ phase' = "terminated"
    /\ UNCHANGED <<q_list, len, flushing, inside, fate, drain, came, taken>>

ipq_flush ==
    /\ phase = "terminated"
    /\ flushing' = TRUE
    /\ phase' = "flushing"
    /\ drain' = [drain EXCEPT !["rmmod"] = [op |-> "flush", ip |-> None, e |-> None]]
    /\ UNCHANGED <<q_list, len, terminate, inside, fate, came, taken>>

ipq_flushed ==
    /\ phase = "flushing" /\ drain["rmmod"].e = None /\ Found("rmmod") = {}
    /\ flushing' = FALSE
    /\ phase' = "flushed"
    /\ drain' = [drain EXCEPT !["rmmod"] = Idle]
    /\ UNCHANGED <<q_list, len, terminate, inside, fate, came, taken>>

kfree_q ==
    /\ phase = "flushed"
    /\ phase' = "freed"
    /\ UNCHANGED <<q_list, len, flushing, terminate, inside, fate, drain, came, taken>>

ipq_destroy_queue ==
    nf_unregister_queue_handler \/ ipq_terminate \/ ipq_flush \/ ipq_flushed \/ kfree_q

QInit == ipq_create_queue

QNext ==
    \/ \E e \in Entries : netfilter_receive(e) \/ ipq_enqueue(e) \/ ipq_enqueue_return(e)
    \/ \E c \in Contexts, d \in Ips : ipq_send_ip(c, d) \/ ipq_drop_ip(c, d)
    \/ \E c \in Drainers : ipq_dequeue(c) \/ nf_reinject(c) \/ ipq_drained(c)
    \/ ipq_destroy_queue

QSpec == QInit /\ [][QNext]_qvars

-----------------------------------------------------------------------------
(* Properties.                                                             *)

Phases == {"live", "waiting", "terminated", "flushing", "flushed", "freed"}

\* Every variable has its type.
QTypeOK ==
    /\ q_list \in Seq(Entries) /\ len \in Int
    /\ flushing \in BOOLEAN /\ terminate \in BOOLEAN /\ phase \in Phases
    /\ inside \subseteq Entries
    /\ fate \in [Entries -> {"new", "entering", "queued", "accepted", "dropped", "freed", "corrupt"}]
    /\ drain \in [Drainers -> [op : {"idle", "send", "drop", "flush"}, ip : Ips \cup {None},
                               e : Entries \cup {None}]]
    /\ came \in Seq(Entries) /\ taken \in Seq(Entries)

Hands == {c \in Drainers : drain[c].e # None}

\* No entry is lost or held twice between ipq_enqueue, ipq_dequeue and
\* nf_reinject: an entry that was kept and not yet fed back is at one place
\* of the list or in one hand, and q->len is the length of the list, within
\* its limit.
HeldOnce ==
    /\ \A i, j \in DOMAIN q_list : q_list[i] = q_list[j] => i = j
    /\ \A c, b \in Hands : drain[c].e = drain[b].e => c = b
    /\ \A c \in Hands, i \in DOMAIN q_list : drain[c].e # q_list[i]
    /\ \A e \in Entries :
         fate[e] = "queued" <=> \/ \E i \in DOMAIN q_list : q_list[i] = e
                                \/ \E c \in Hands : drain[c].e = e
    /\ len = Len(q_list) /\ len <= MAXLEN

\* kfree(q) comes after the last use of q: no netfilter_receive is under way
\* and ipq_dequeue, in whatever context, finds nothing to count down.
NoUseAfterFree == phase = "freed" => inside = {} /\ q_list = <<>>

SameFlow(a, b) == \E d \in Ips : ip_cmp(a, d) /\ ip_cmp(b, d)

\* What waits for one destination is sent or dropped in the order in which it
\* came, whoever takes it out of the list: when a packet is taken, every one
\* of its flow that came before it has been.
TakenInOrder ==
    \A i, j \in DOMAIN came, l \in DOMAIN taken :
        i < j /\ SameFlow(came[i], came[j]) /\ taken[l] = came[j] =>
            \E k \in 1 .. l - 1 : taken[k] = came[i]

\* An entry as netfilter's contract sees it.
Place == [e \in Entries |->
             CASE fate[e] \in {"new", "entering"} -> "netfilter"
               [] fate[e] = "queued" -> "handler"
               [] fate[e] = "freed" -> "lost"
               [] fate[e] \in {"accepted", "dropped"} -> "back"
               [] OTHER -> "corrupt"]

\* Whatever ipq_enqueue keeps is fed back (nf_reinject) at most once, and
\* nothing else is.  Whether all of it is depends on who drains the queue.
KeptThenBack == INSTANCE Custody WITH place <- Place, closed <- FALSE
BackOnce == KeptThenBack!Spec
=============================================================================
