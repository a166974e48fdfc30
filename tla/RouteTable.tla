----------------------------- MODULE RouteTable -----------------------------
(***************************************************************************)
(* One daemon's route table as it is in memory (kaodv's aodv_route.c): a   *)
(* doubly linked list sorted by address; and the kernel's routing table,   *)
(* which the daemon keeps in step with it (kernel_route.c).                *)
(*                                                                         *)
(* A table is a record: head, and the allocated cells.  The operations     *)
(* are operators on such records, assignment by assignment; the actions    *)
(* are what the thread's handlers do to the two tables.  A netmask is the  *)
(* set of the addresses it lets compare_aodv_route match.                  *)
(***************************************************************************)
EXTENDS Integers, Sequences, FiniteSets, Functions

CONSTANTS
    Cells,        \* memory for entries
    NULL,
    Addresses,    \* addresses, as the integers they are compared as
    LO, ME,       \* 127.0.0.1 and the address of the device
    SUBNET,       \* the local_subnet parameter: its address ...
    SUBNETMASK    \* ... and the addresses in it; {} if there is none

ASSUME RouteTableAssumption ==
    /\ Addresses \subseteq Nat /\ {LO, ME} \subseteq Addresses /\ LO # ME
    /\ SUBNETMASK \subseteq Addresses \ {LO, ME}
    /\ SUBNETMASK # {} => SUBNET \in SUBNETMASK /\ \A x \in SUBNETMASK : SUBNET <= x
    /\ IsFiniteSet(Cells) /\ NULL \notin Cells

VARIABLES
    table,        \* [head, cell]
    kernel        \* the kernel's routes: gateway by destination

rvars == <<table, kernel>>

-----------------------------------------------------------------------------
(* The list.                                                               *)

\* The cell after each; NULL stays NULL.
Links(t) == [c \in DOMAIN t.cell \cup {NULL} |-> IF c = NULL THEN NULL ELSE t.cell[c].next]

\* The cells in the order of the list.
Walk(t) ==
    LET At[n \in 1 .. Cardinality(Cells)] == IF n = 1 THEN t.head ELSE Links(t)[At[n - 1]]
    IN  [i \in {n \in 1 .. Cardinality(Cells) : At[n] # NULL} |-> At[i]]

\* The last of some positions of a walk.
LastOf(w, S) == IF S = {} THEN NULL ELSE w[CHOOSE i \in S : \A j \in S : j <= i]

compare_aodv_route(r, ip) == ip \in r.netmask

\* Mutant: the walk stops before the address itself.
VisitedMutant(t, w, ip) == {i \in DOMAIN w : \A j \in 1 .. i : t.cell[w[j]].ip < ip}

\* The positions a walk for ip visits: it stops at the first larger address.
Visited(t, w, ip) == {i \in DOMAIN w : \A j \in 1 .. i : t.cell[w[j]].ip <= ip}

\* The last one that matches.
FoundCell(t, ip) ==
    LET w == Walk(t)
    IN  LastOf(w, {i \in Visited(t, w, ip) : compare_aodv_route(t.cell[w[i]], ip)})

expire_aodv_route(r) == [r EXCEPT !.overdue = FALSE, !.seq = @ + 1, !.valid = FALSE]

\* What is to expire.
IsLate(r) == r.overdue /\ ~r.self /\ r.valid

\* find_aodv_route also expires what is overdue on its way.
find_aodv_route(t, ip) ==
    LET w == Walk(t)
        passed == {w[i] : i \in Visited(t, w, ip)}
    IN  [t EXCEPT !.cell = [c \in DOMAIN t.cell |->
            IF IsLate(t.cell[c]) /\ c \in passed THEN expire_aodv_route(t.cell[c]) ELSE t.cell[c]]]

\* The cell that comes after prev.
NextOf(t, prev) == IF prev = NULL THEN t.head ELSE t.cell[prev].next

\* Mutant: the old neighbour in the list is not told of the new one.
LinkAfterMutant(t, c, r, prev) ==
    [head |-> IF prev = NULL THEN c ELSE t.head,
     cell |-> [x \in DOMAIN t.cell \cup {c} |->
                 IF x = c THEN [r EXCEPT !.next = NextOf(t, prev), !.prev = prev]
                 ELSE IF x = prev THEN [t.cell[x] EXCEPT !.next = c] ELSE t.cell[x]]]

\* The cell c, with the contents r, goes in after prev.
LinkAfter(t, c, r, prev) ==
    [head |-> IF prev = NULL THEN c ELSE t.head,
     cell |-> [x \in DOMAIN t.cell \cup {c} |->
                 IF x = c THEN [r EXCEPT !.next = NextOf(t, prev), !.prev = prev]
                 ELSE IF x = prev THEN [t.cell[x] EXCEPT !.next = c]
                 ELSE IF x = NextOf(t, prev) THEN [t.cell[x] EXCEPT !.prev = c] ELSE t.cell[x]]]

\* It goes in before the first cell that is not below it.
insert_aodv_route(t, c, r) ==
    LET w == Walk(t)
    IN  LinkAfter(t, c, r, LastOf(w, {i \in DOMAIN w : \A j \in 1 .. i : t.cell[w[j]].ip < r.ip}))

\* A new entry; its lifetime is what is in memory.
NewEntry(ip, late) ==
    [ip |-> ip, next |-> NULL, prev |-> NULL, self |-> FALSE, seq |-> 0, next_hop |-> ip,
     metric |-> 0, valid |-> FALSE, netmask |-> {ip}, overdue |-> late]

FreeCell(t) == CHOOSE c \in Cells : c \notin DOMAIN t.cell
create_aodv_route(t, ip, late) == insert_aodv_route(t, FreeCell(t), NewEntry(ip, late))

\* Mutant: the next cell is not told.
remove_aodv_routeMutant(t, c) ==
    LET dead == t.cell[c]
    IN  [head |-> IF t.head = c THEN dead.next ELSE t.head,
         cell |-> [x \in DOMAIN t.cell \ {c} |->
                     IF x = dead.prev THEN [t.cell[x] EXCEPT !.next = dead.next] ELSE t.cell[x]]]

\* A cell is unlinked and freed.
remove_aodv_route(t, c) ==
    LET dead == t.cell[c]
    IN  [head |-> IF t.head = c THEN dead.next ELSE t.head,
         cell |-> [x \in DOMAIN t.cell \ {c} |->
                     IF x = dead.prev THEN [t.cell[x] EXCEPT !.next = dead.next]
                     ELSE IF x = dead.next THEN [t.cell[x] EXCEPT !.prev = dead.prev] ELSE t.cell[x]]]

-----------------------------------------------------------------------------
(* The kernel's table.  SIOCDELRT is tried until it does not return a      *)
(* positive number, which is once.                                         *)

delete_kernel_route_entry(k, ip) == Restrict(k, DOMAIN k \ {ip})
insert_kernel_route_entry(k, ip, gw) ==
    [d \in DOMAIN k \cup {ip} |-> IF d = ip THEN gw ELSE k[d]]

-----------------------------------------------------------------------------
(* insmod.                                                                 *)

SelfEntry(ip, mask, m) ==
    [NewEntry(ip, FALSE) EXCEPT !.self = TRUE, !.valid = TRUE, !.metric = m, !.netmask = mask,
                                !.seq = IF ip = LO THEN 0 ELSE 1]

\* The list that holds nothing.
Empty == [head |-> NULL, cell |-> [c \in {} |-> NULL]]

\* init_aodv_route_table, the local_subnet parameter and create_aodv_dev.
RInit ==
    LET Add(t, r) == insert_aodv_route(t, FreeCell(t), r)
        lo  == Add(Empty, SelfEntry(LO, {LO}, 0))
        sub == IF SUBNETMASK = {} THEN lo ELSE Add(lo, SelfEntry(SUBNET, SUBNETMASK, 1))
    IN  /\ table = Add(sub, SelfEntry(ME, {ME}, 0))
        /\ kernel = insert_kernel_route_entry([d \in {} |-> NULL], ME, ME)

-----------------------------------------------------------------------------
(* The handlers.                                                           *)

\* An entry is written to.
Written(t, c, r) == [t EXCEPT !.cell[c] = r]

\* Time passes: the lifetime of a cell is over.
Elapse(c) ==
    /\ ~table.cell[c].overdue /\ ~table.cell[c].self
    /\ table' = Written(table, c, [table.cell[c] EXCEPT !.overdue = TRUE])
    /\ UNCHANGED kernel

\* A look-up that uses nothing but the answer (output_handler).
LookUp(ip) == table' = find_aodv_route(table, ip) /\ UNCHANGED kernel

seq_greater(a, b) == a >= b

\* update_aodv_route returns early: the table knows better.  It does so for
\* a next hop that is no valid neighbour, too, which may be at any time.
Refused(t, d, m, s) ==
    LET c == FoundCell(t, d)
    IN  /\ c # NULL
        /\ \/ seq_greater(t.cell[c].seq, s)
           \/ t.cell[c].valid /\ s = t.cell[c].seq /\ m >= t.cell[c].metric
RefuseRoute(d) == LookUp(d)

\* Mutant: the kernel's entry is replaced before the next hop is known.
KernelGatewayMutant(t, d, x) == t.cell[FoundCell(t, d)].next_hop

KernelGateway(t, d, x) == x

\* It goes on: up to ipq_send_ip the lifetime is the old one.
LearnRoute(d, x, m, s) ==
    LET t == find_aodv_route(table, d)
    IN  /\ ~Refused(t, d, m, s)
        /\ \E t2 \in (IF FoundCell(t, d) # NULL THEN {t}
                      ELSE {create_aodv_route(t, d, late) : late \in BOOLEAN}) :
             LET c == FoundCell(t2, d)
             IN  /\ table' = Written(t2, c, [t2.cell[c] EXCEPT !.seq = s, !.next_hop = x,
                                                               !.metric = m, !.valid = TRUE])
                 /\ kernel' = insert_kernel_route_entry(delete_kernel_route_entry(kernel, d),
                                                        d, KernelGateway(t2, d, x))

\* After ipq_send_ip the lifetime is set.
SetLifetime(d) ==
    /\ table' = [table EXCEPT !.cell[FoundCell(table, d)].overdue = FALSE]
    /\ UNCHANGED kernel

\* A hello: the kernel's entry is replaced before the next hop is set.
update_aodv_neigh_route(x, s) ==
    LET t  == find_aodv_route(table, x)
        t2 == IF FoundCell(t, x) # NULL THEN t ELSE create_aodv_route(t, x, FALSE)
        c  == FoundCell(t2, x)
    IN  /\ table' = Written(t2, c, [t2.cell[c] EXCEPT !.overdue = FALSE, !.next_hop = x, !.valid = TRUE,
                                                      !.seq = s, !.metric = 1])
        /\ kernel' = insert_kernel_route_entry(delete_kernel_route_entry(kernel, x), x, t2.cell[c].next_hop)

\* g_my_route.
MyRoute(t) == t.cell[FoundCell(t, ME)]

\* The hosts of the local subnet.
Locals == SUBNETMASK \ {SUBNET}

\* A request for one of them: unless it has an entry of its own already it
\* is given one, and the kernel is not told.
reply_to_rreq(d) ==
    LET t == find_aodv_route(table, d)
        c == FoundCell(t, d)
        new == FreeCell(t)
        t2 == create_aodv_route(t, d, FALSE)
    IN  IF c = NULL \/ t.cell[c].netmask = {t.cell[c].ip}
        THEN LookUp(d)
        ELSE /\ table' = Written(t2, new, [t2.cell[new] EXCEPT !.seq = MyRoute(t).seq, !.next_hop = d,
                                                               !.metric = 1, !.valid = TRUE])
             /\ UNCHANGED kernel

\* The routes through x end.
Broken(r, x) == r.next_hop = x /\ ~r.self /\ r.valid
gen_rerr(t, x) ==
    [t EXCEPT !.cell = [c \in DOMAIN t.cell |->
        IF Broken(t.cell[c], x) THEN expire_aodv_route(t.cell[c]) ELSE t.cell[c]]]

\* A neighbour is lost; its entry, if direct, is removed from both tables.
delete_aodv_neigh(x) ==
    LET t == find_aodv_route(table, x)
        c == FoundCell(t, x)
    IN  IF c = NULL \/ t.cell[c].next_hop # t.cell[c].ip
        THEN LookUp(x)
        ELSE /\ table' = remove_aodv_route(gen_rerr(t, x), c)
             /\ kernel' = delete_kernel_route_entry(kernel, x)

\* An error from x about d.
recv_rerr(x, d, s) ==
    LET t == find_aodv_route(table, d)
        c == FoundCell(t, d)
        told == [t.cell[c] EXCEPT !.seq = s]
    IN  IF c = NULL \/ t.cell[c].self \/ t.cell[c].next_hop # x
        THEN LookUp(d)
        ELSE /\ table' = Written(t, c, IF told.valid THEN expire_aodv_route(told) ELSE told)
             /\ UNCHANGED kernel

\* Mutant: the kernel's entry is left behind.
flush_aodv_route_tableMutant(c) ==
    /\ table.cell[c].overdue /\ ~table.cell[c].self
    /\ table' = IF table.cell[c].valid THEN Written(table, c, expire_aodv_route(table.cell[c]))
                ELSE remove_aodv_route(table, c)
    /\ UNCHANGED kernel

\* The visit of one cell; the lock is released for each removal.
flush_aodv_route_table(c) ==
    /\ table.cell[c].overdue /\ ~table.cell[c].self
    /\ IF table.cell[c].valid
       THEN table' = Written(table, c, expire_aodv_route(table.cell[c])) /\ UNCHANGED kernel
       ELSE /\ table' = remove_aodv_route(table, c)
            /\ kernel' = delete_kernel_route_entry(kernel, table.cell[c].ip)

\* rmmod.
cleanup_aodv_route_table ==
    /\ table' = Empty
    /\ kernel' = Restrict(kernel, DOMAIN kernel \ {table.cell[c].ip : c \in DOMAIN table.cell})

-----------------------------------------------------------------------------
(* Properties.                                                             *)

\* The list is linked both ways, holds every allocated cell, and its
\* addresses rise: what flush_aodv_route_table asks for before it prints
\* "Routing table error! ... prev is wrong!", and what the walks rely on.
WellLinked ==
    LET w == Walk(table) IN
    /\ {w[i] : i \in DOMAIN w} = DOMAIN table.cell
    /\ \A i \in DOMAIN w :
         /\ table.cell[w[i]].prev = IF i = 1 THEN NULL ELSE w[i - 1]
         /\ i > 1 => table.cell[w[i - 1]].ip < table.cell[w[i]].ip

\* find_aodv_route, which stops at the first larger address and keeps the
\* last match, finds the entry of an address if it has one, and else the
\* subnet it is in.
FindsRoute ==
    \A ip \in Addresses :
        LET exact == {c \in DOMAIN table.cell : table.cell[c].ip = ip}
            wider == {c \in DOMAIN table.cell : ip \in table.cell[c].netmask}
        IN  FoundCell(table, ip) \in IF exact # {} THEN exact ELSE IF wider # {} THEN wider ELSE {NULL}

\* The kernel has a route for exactly the destinations the daemon lists, but
\* those of the local subnet: reply_to_rreq gives them none, they are reached
\* by the route the kernel has to the subnet.  It leads through the next hop
\* the daemon knows.  Left out is the next hop that is the destination
\* itself: after the hello of a node last reached by a detour the kernel
\* still takes the detour (update_aodv_neigh_route), and the two disagree.
KernelMirrors ==
    LET listed == {c \in DOMAIN table.cell : ~table.cell[c].self /\ table.cell[c].ip \notin SUBNETMASK}
    IN  /\ DOMAIN kernel \ {ME} = {table.cell[c].ip : c \in listed}
        /\ \A c \in listed : LET r == table.cell[c]
                             IN  kernel[r.ip] # r.next_hop => r.next_hop = r.ip
=============================================================================
