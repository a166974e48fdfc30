# Verification of MobileCloudCaching

The repository holds two Linux kernel modules and a small user program for
wireless mesh nodes: `caching` (a daemon that finds the fragments of a file,
retrieves k of n of them and prefetches popular ones), `kaodv` (an AODV routing
daemon) and `simpleFS` (the user's command to create and ask for fragments).
This directory holds TLA+ modules translated from that source, TLC
configurations, and proofs checked by TLAPS. `PROJECT.json` lists components,
runs, the source lines behind every definition, the findings and the hazards.

## Inventory

| Part | State | Operations | Speaks to |
|---|---|---|---|
| cache table (`cacheTable.c`, `cExchange.c`) | `ctable`, `ct_len` | `create_cache`, `remove_cache`, `update_ref`, `getScore`, `retrieve_frag` | every handler of the daemon |
| file request flood (`cFileReq.c`, `cFlood.c`) | flood ids | `recv_flreq`, `forward_flreq` | broadcast; `gen_flrep` |
| replies, retrieval (`cFileRep.c`) | `rinfo`, `cSuccess` | `recv_flrep`, `process_flrep` | timer queue; fragment requests |
| fragment requests (`cFragReq.c`, `cReqList.c`, `cPacketIn.c`) | `crlist` | `recv_frreq_ori`, `recv_frreq_fwd`, hook verdict | every relay on the path |
| exchange (`cExchange.c`) | `extable` | `recv_exreq`, `recv_exrep`, `select_agent`, `recv_addcache` | neighbours; cache table |
| work loop (`cTask.c`, `cTimer.c`, `cThread.c`, and the same three files in `kaodv`) | `task_q`, `task_end`, `timer_queue`, kernel timer, wait queue, `kill_thread` | `insmod`, hook, timer signal, thread, `rmmod` | all of the above |
| AODV routes (`aodv_route.c`, `rreq.c`, `rrep.c`, `flood_id.c`) | route table, own sequence number, `rreq_id`, flood ids, retry timers | `gen_rreq`, `resend_rreq`, `recv_rreq`, `recv_rrep`, expiry | broadcast, unicast; packet queue |
| AODV neighbours (`aodv_neigh.c`, `hello.c`, `rerr.c`) | neighbour list and lifetimes | `send_hello`, `recv_hello`, `delete_aodv_neigh`, `gen_rerr`, `recv_rerr` | route table |
| route list (`aodv_route.c`, `kernel_route.c`) | doubly linked sorted list, the kernel's routes | look-up, insertion, removal, expiry, `delete_aodv_neigh` | the kernel's routing table |
| packet queue (`packet_out.c`, `packet_queue.c`) | netfilter queue | `output_handler`, `ipq_enqueue`, `ipq_send_ip`, `ipq_drop_ip`, `ipq_flush`, `ipq_destroy_queue` | route table, netfilter |
| user program (`simpleFS`) | files under `/myfs` | `gen_flreq`, `createFrag` | broadcast to port 655 |
| sockets, devices, signal strength, proc files, parsing | - | kernel I/O, formatting | - |

What is hard here: the thread, the netfilter hook, the kernel timer and `rmmod`
share queues and one wait queue; every message may be late, lost or overtaken;
timers race with the answers they wait for; caches and queues have limits; and
route sequence numbers are made up by several parties. Each part's correctness,
in one line:

* cache table: never over capacity by prefetching, never without its stored
  fragments, never a whole file by prefetching, honest bids;
* flood: answered once per node;
* retrieval: k different fragments, no reply left without a timer;
* exchange: prefetching is paid for by demand;
* work loop: every task handled once, in order, and freed once; every timer
  fires, nothing slept through, the thread dead before its queues are freed;
* AODV protocol: own routes intact, no valid route newer than what its
  destination gave out, no packet kept for ever;
* route list: linked both ways and sorted, look-ups right, the kernel's table in
  step with it;
* packet queue: every entry that is kept is held at one place, taken in its
  turn and fed back once, nothing used after it is freed, and an unload that ends
  and leaves nothing behind.

## Modules

**FragmentList** is what the functions of `cacheTable.c` compute on the list of
fragments, and what `getScore`, `gen_flrep` and `process_flrep` read off it, as
plain operators; **Sublists** is what is left of a linked list after a walk that
frees some of its entries. Both are shared: a list of fragments by CacheTable and
CacheNetwork, the shortened lists (`rinfo`, `extable`, the queue of packets that
wait for a route) by CacheNetwork and AodvNetwork.

**CacheTable** is one daemon's cache: the list `ctable` as a sequence, head
first, with `refs` kept modulo `U32`. Its environment is any message: `UpdateRef`
(a request for a fragment), `LocalHits` (the first loop of `process_flrep`),
`StoreFree` and `StoreEvict` (`retrieve_frag` with and without room), `Reload`
(the table is rebuilt from `/myfs`). It is the abstract specification
`CacheNetwork` implements, once per node.

**CacheNetwork** composes the caching daemons. A handler of the cache thread is
one action; a message is a member of a bag and is delivered at any time, in any
order, or never. A fragment request is the exception: `packet_in` queues the
task and decides about the packet afterwards, so the task (`recv_frreq_ori`) and
the verdict (`packet_verdict`) interleave. The hook compares one byte of the ids
(`HighByte`), exactly what `packet->data[...]` yields on the big-endian target.
`retrieve_frag` is called by a node that finds itself the best bidder and by a
node that is told to. `recv_exrep` and `recv_addcache` have no destination
check in the code: every relay applies them. Timers fire in any order.

**WorkLoop** is the plumbing of one daemon at the granularity of its locks:
`insmod` starts the thread, registers the hook and sets the first timer, in that
order, and the thread gets to its own initialisation before (`ThreadFirst`) or at
any time during that; a kick before it is a panic and ends the behaviour. The
hook queues a task and then kicks the thread; the kernel timer moves due entries
to the task queue; the thread tests `kill_thread`, sleeps, tests again, and
empties the queue; `rmmod` unregisters the hook, deletes the timer, kills the
thread and frees the queue. `update_timer_queue` is two steps, the reading of
`timer_pending` and the setting. The task
list is what is in memory: `task_q` holds everything the `next` pointers lead to,
newest first, and `task_end` the task to be taken next. `get_task` moves `task_end`
and leaves the new tail's `next` alone, so until the last task is taken the
list runs on into tasks that were taken and, handled, are freed (`freed`);
`cleanup_task_queue` follows it to its end. `delete_timer` and the
`update_timer_queue` that comes after it are two steps, and the second happens
whether the first found a timer or not (`NoneDeleted`). `SMP` says whether contexts run in parallel;
on one processor softirqs run to completion. The thread's handlers are reduced
to what matters here, the timers they set and delete. With `Routing` the daemon
is `kaodv`, whose output hook also sets timers (`insert_rreq_timer`) in its own
context.

**AodvNetwork** is the routing protocol of a network: route tables, neighbours,
floods, retry timers and the packet queue, on FIFO, lossy links that come and
go. Lifetimes are nondeterministic, bounded by counters. The output hook's
verdict and the enqueueing are two steps; `Preempt` says whether anything runs
between them, and whether hooks run between the steps of a handler. `recv_rreq`
and `recv_rrep` are taken apart at the locks: `update_aodv_route` marks the route
valid, then tells the kernel (`insert_kernel_route_entry`), then sends what waits,
one packet per turn (`ipq_send_ip`), and only then is the request answered or the
message passed on (`answer_rreq`, `forward_rrep`); what a thread has left to do is
in `task`. So a packet that comes meanwhile can use the route and overtake the ones that
wait. Before the kernel has been told, it sends such a packet by the route it had, or
to the destination itself. Unicast replies pass the sender's own hook, may be queued
themselves, and are seen by the input hook of every node they pass. Packets
follow the kernel's routes (`krt`), not the daemon's. `Restart` is `rmmod` and
`insmod`: numbers start over at 1 while the others remember; it happens when no
message about the node is on the air or being handled, as `kill_aodv` alone takes a second and
`NET_TRAVERSAL_TIME` is 800 ms.

**Custody** is what netfilter can rely on with `packet_queue.c` as its queue
handler: what the handler keeps it feeds back at most once, and when it is gone
(`Close`) everything it kept has been fed back. Of an entry that finds the queue
full it says nothing but that it is lost: `ipq_enqueue` frees it and returns an
error, at which netfilter frees it again.

**PacketQueue** is `packet_queue.c` lock section by lock section: netfilter's
calls in any context, the loops of `ipq_send_ip`, `ipq_drop_ip` and `ipq_flush`
that take one entry at a time with the lock released in between, and
`ipq_destroy_queue`, from `nf_unregister_queue_handler` with its wait to
`kfree`. Feeding an entry back a second time makes it `"corrupt"`. It implements
Custody without a `Close` (`BackOnce`); the node, which has `rmmod`, implements all of it
(`FeedsBack`).

**RouteTable** is `aodv_route.c` as it is in memory: cells with `next` and
`prev`, the operations assignment by assignment, and the kernel's table. Entries
for 127.0.0.1, the device and the `local_subnet` parameter are there, with
netmasks as sets of addresses. A request for a host of the local subnet makes
`reply_to_rreq` add an entry for it, of which the kernel is not told. `Locals` are
these hosts; the subnet's own address is not one of them. When such an entry has expired it
hides the subnet's from the look-up until it is removed.

**AodvNode** composes the two with the output hook, the thread and `rmmod`: the
data path of one daemon. What the network makes the thread do is free, so the
handlers run in any order with any sequence numbers; AodvNetwork is about which
of that can happen. Numbers of a neighbour no route is asked for are never compared,
and are not enumerated (`Numbers`).

`MCCacheTable`, `MCCacheNetwork`, `MCWorkLoop`, `MCAodv` and `MCAodvNode` give the instances.
The modules named `...Proofs` hold the theorems and the lemmas under them:
`FragmentListProofs` and `SublistProofs` about the operators, and one for each
of `CacheTable`, `CacheNetwork`, `WorkLoop`, `AodvNetwork`, `PacketQueue` and
`AodvNode`. Definitions named `...Mutant` are
plausible wrong versions of the definition that follows them; each property is
known to fail when one of them takes its place.

## Runs

| Run | Instance | Checks |
|---|---|---|
| cache_table | 3 files of 2 fragments, k = 3, buffer 4, counters modulo 7, 2 stored fragments; 69 thousand states | `TypeOK`, `Capacity`, `ServiceCenterKept`, `BelowK`, `ScoreFits`, `BidHonoured` |
| cache_prefetch | line of 3, all prefetch, buffer 1, threshold 2, two requests for one file, floods that come back; 222 thousand states | `TypeOK`, `PrefetchBudget`, `AnsweredOnce`, `TablesRefine`, `RetrievalsWhole` |
| cache_off | line of 3, no prefetching, a reload anywhere, overlapping fragments | `KDistinct`, `CollectionTimed` |
| k_distinct (violated) | line of 3, three requests, buffer 2 | `KDistinct` |
| work_smp | routing daemon, 2 packets, clock to 3, parallel contexts, from `insmod` to `rmmod`, the thread late or not; 5.1 million states | `TypeOK`, `InOrder`, `FreedOnce`, `Armed` |
| work_up | routing daemon, one processor, fair; 351 thousand states | `AddNotPending`, `TimersFire` |
| lost_wakeup (violated) | one processor, one packet, fair | `CleanUpHandled` |
| kill_race (violated) | one processor, the wait long enough for the thread to do all it can | `DeadBeforeCleanup` |
| aodv_mobile | line of 3, the far link moves, 1 packet, no retry, 1 expiry or restart of any node, hooks between all steps; 1 million states | `TypeOK`, `OwnRoute`, `ValidNotNewer` |
| aodv_static | line of 3, lossy, 2 packets, 1 hello, no retry, fair; 75 thousand states | `FedBack` |
| aodv_node | 3 packets (two at the hook, one queued by iptables elsewhere), queue of 2, two neighbours, 6 addresses with a local subnet and a host in it, 3 handlers, `rmmod` at any time, fair; 336 thousand states | `TypeOK`, `HeldOnce`, `NoUseAfterFree`, `TakenInOrder`, `WellLinked`, `FindsRoute`, `KernelMirrors`, `CleanUnload`, `FeedsBack`, `ReleasedToRoute`, `UnloadEnds` |
| aodv_stuck (violated) | 2 nodes, a neighbour falls silent and is heard again, fair | `FedBack` |

Why the bounds are enough for what is asked. A buffer of 1 or 2 is full after
one or two pushes, so eviction and refusal happen; counters modulo 7 or 8 wrap;
threshold 2 is the least that both counts and resets; two requests bring a
fragment over the threshold, and a third finds what was prefetched. Three nodes
in a line have a requester, a relay and a holder. Ids 0 to 2 make the hook's one-byte lookup
hit, ids from 1 on make it miss. In WorkLoop the clock lets `TASK_CLEAN_UP` fire
twice and a one-shot timer fall between. In AodvNetwork one move breaks or mends
the far link once, and one expiry or restart (aodv_mobile) or one hello (aodv_static)
meets every stage of a discovery. Neither run retries a request, since with the stepwise
handlers a second flood takes more states than a run can hold: the drop comes after the first
timer there, retries are part of `aodv_stuck`, and the theorems hold with any
number of them. In AodvNode three packets fill a queue of two and the third meets
the full queue; three handlers are enough to learn a route by a
detour, hear the neighbour and lose it; six addresses put a route below, between
and above the fixed entries of the list, the last inside the local subnet.

The runs that stop (bounded packets, requests, time) set `CHECK_DEADLOCK FALSE`:
with no more input a daemon rests. CacheTable always has a step.

Fairness. `WorkLoop!FairSpec`: time passes, pending softirqs run, and a thread
that is not asleep is scheduled; nobody has to send a packet or unload the
module. `AodvNetwork!FairSpec`: a hook that has begun ends, timers fire, and
the thread handles what is due; nothing is assumed of the radio, which may lose
everything. `AodvNode!FairSpec`: a packet in the hook, the thread's loop and an
`rmmod` that has begun go on as long as one of them can; nobody has to send, ask
or unload. There `kill_aodv` is taken to wait for the handler under way: its
second is ample for a loop over a short queue. The AODV specifications take the thread's waking for granted: `lost_wakeup`
shows that the code does not always give it.

## What the violations show

* **k_distinct**: `retrieve_frag` stores a fragment the node already holds when
  it is told to twice; `process_flrep` counts own entries without comparing
  them and reports success with fewer than k different fragments.
* **lost_wakeup**: the thread finds the queue empty, the timer queues
  `TASK_CLEAN_UP` and kicks, the thread then sleeps. On a quiet network the
  clean-up never runs again, since it sets its own next timer.
* **kill_race**: the same window at unload; `kill_cache` returns after a second
  with the thread asleep, and its queues are freed. (If the second is also too
  short for the tasks at hand, the clean-up meets a thread inside its loop and frees tasks twice:
  that is the exception in `FreedOnce`, and CleanUnlink excludes it only with `AmpleWait`.)
* **aodv_stuck**: a packet for a neighbour just deleted is queued and requested;
  the neighbour's hello makes the route valid without releasing the queue; the
  reply, with the sequence number of that hello, deletes the retry timer and is
  refused because `seq_greater` is true of equal numbers.

Three more results of exploration are not runs, as nothing in the repository
promises otherwise. On a ring of four nodes (packets d to b and a to d, the
link a-d silent, no retries) TLC reaches a state in which a and b hold valid
routes to d through each other: `delete_aodv_neigh` forgets the sequence number,
the RERR is lost, and the reply is refused at b but accepted at a. And with
`SMP = TRUE` `AddNotPending` fails: both holders of the read lock see the timer
not pending and call `add_timer`. Finally, if `Restart` did not wait for the air to
be clear, a node's own request would come back to it as new and overwrite its
self route, which the code answers with "updating a SELF-ROUTE!!!" and nothing
else.

## Proofs

TLC's runs fix three nodes, a few fragments and a few packets; the theorems hold
for every value of the constants. Each theorem about a property is `Spec =>
[]Property`, from an inductive invariant that is stronger than the property. All
proofs are in the `...Proofs` modules; `PROJECT.json` lists the theorems a
reader should know of.

| Property | Theorem | Assumed beyond the modules' ASSUMEs |
|---|---|---|
| `CacheTable`: `TypeOK`, `Capacity`, `ServiceCenterKept`, `BelowK`, `ScoreFits`, `BidHonoured` | `TypeCorrect`, `CapacityHolds`, `StoredFragmentsKept`, `NeverWholeFile`, `ScoreNeverWraps`, `BidsAreHonoured` | - |
| `CacheNetwork`: `TypeOK` | `TypeCorrect` | - |
| `CacheNetwork`: `TablesRefine` | `Refinement` | - |
| `CacheNetwork`: `CollectionTimed` | `CollectionsTimed` | - |
| `CacheNetwork`: `AnsweredOnce` | `RequestsAnsweredOnce` | - |
| `CacheNetwork`: `PrefetchBudget` | `PrefetchPaid` | `DirectRoutes` |
| `CacheNetwork`: `RetrievalsWhole` | `RetrievalsGather` | - |
| `CacheNetwork`: `KDistinct` | `RetrievedDistinct` | `ActOn = {}`, `StoredOnce` |
| `WorkLoop`: `TypeOK`, `Armed`, `InOrder`, `FreedOnce` | `TypeCorrect`, `TimerArmed`, `HandledInOrder`, `FreedByOne` | - |
| `WorkLoop`: `AddNotPending` | `AddTimerOnce` | `~SMP` |
| `AodvNetwork`: `TypeOK`, `OwnRoute`, `ValidNotNewer` | `TypeCorrect`, `OwnRouteKept`, `NotNewer` | - |
| `PacketQueue`: `HeldOnce`, `NoUseAfterFree`, `TakenInOrder`, `BackOnce` | `EntriesHeldOnce`, `FreedUnused`, `FlowsInOrder`, `KeptOnce` | - |
| `AodvNode`: the first three again, and `FeedsBack` | `NodeHoldsOnce`, `NodeFreesUnused`, `NodeTakesInOrder`, `NodeFeedsBack` | - |
| `RouteTable` in `AodvNode`: `WellLinked`, `FindsRoute`, `KernelMirrors` | `ListWellLinked`, `RoutesFound`, `KernelInStep` | - |
| `AodvNode`: `TypeOK`, `CleanUnload`, `ReleasedToRoute` | `NodeTypes`, `UnloadsClean`, `ReleasesToRoute` | - |

### Assumptions on the constants

They are what the code's types and parameters say. FragmentList: k at least 1, a
natural buffer size, a positive modulus. CacheNetwork: finitely many nodes,
files and fragments; k at most 8 (`fileRepInfo.map` has 8 slots); a modulus above
1; a threshold below the modulus (`theta` is an int and is compared with a
`u_int32_t`); a positive `NET_DIAMETER`. Neighbourhood and routing are any
functions: links need not work both ways, and routes may go anywhere. WorkLoop:
natural delays, and a `TASK_CLEAN_UP` that can fire before the model's last
time. AodvNetwork: links between two different nodes, natural bounds.
PacketQueue: `rmmod` is not one of the contexts and `None` no entry. RouteTable: addresses are
numbers, 127.0.0.1 and the device's differ and lie outside the local subnet, whose
own address is its smallest. AodvNode: the neighbours and destinations are
finitely many, none of the fixed addresses and outside the local subnet, and there is a
memory cell for each of them, for each local host and for the three fixed entries.

### One cache: CacheTableProofs

`TypeCorrect` is by itself inductive, from the lemmas of `FragmentListProofs` on
what `create_cache`, `remove_cache`, `update_ref` and `local_hits` return. The
others rest on `Inv`, which adds `MarksStored`: the entries marked as the
service center's are no more than the stored fragments. It is needed because
`BidHonoured` asks for an evictable entry in a full table: if all entries were
marked there would be at most `Len(Stored)` of them, less than `BUF_SIZE`.
`ServiceCenterKept` is inductive because a victim is never a marked entry.
`BelowK` and the capacity are counting arguments: `GrowsByOne` and its
consequences show that storing, with or without eviction, adds at most one to
the entries of the pushed file and none to those of another, and `ReachedK`
guards the step.

### The network of caches: CacheNetworkProofs

*Types.* The bags of messages, tasks and timers are treated by what is in them:
every handler sends messages of `Message` and sets timers of `Timer`, and taking
out a copy adds none. The counting types need a bound each: `getScore` and the
counts of a request list stay below `U32`, an offer has at most k fragments.

*Refinement.* Each handler does to each node's table what one action of
CacheTable does, or nothing: `local_hits` in `process_flrep`, `update_ref` in the
requests, `retrieve_frag` with and without room, the reload. So the theorems
about one cache hold of every node, whatever the others send.

*`CollectionTimed`* is inductive together with the types. The work is in `process_flrep`, which has to leave no reply behind of the file
whose timer has fired, and in the reload, which deletes the node's timers and
replies together.

*`AnsweredOnce`* as a run checks it speaks of all of a node's replies to another
at once. `Answered` says the same with sets: for each pair, the replies held in
the list plus the copies on the air are at most the requests seen. It is
inductive because `recv_flreq` notes a request in the flood list in the same
step in which it answers; because a reply that arrives leaves the air for the
list, a reply lost or expired leaves both; and because every other handler is
`Quiet`, sends and receives no file reply. `Quiet` is proved once for each
handler and any set of messages it has nothing to do with, and used again below.

*`PrefetchBudget`.* Its invariant `Funded` adds what the request lists still
hold: THRESHOLD for each fragment stored, pushed or bid for, plus everything
listed, is at most what was counted. A request counted moves one into the
lists; one that reaches the threshold takes THRESHOLD out of them and puts one
exchange in; an exchange becomes a push and a push a stored fragment. The last
step needs `Nearby`: a push must end at the node it is for, since
`recv_addcache` stores before it looks where the message goes, so a relay on the
way stores a second, unpaid copy. With `DirectRoutes` (links work both ways, and a
neighbour is reached without a relay) the messages of the exchange, which start
with a one-hop broadcast, stay between neighbours. The run's line of three nodes
satisfies it; a route to a neighbour by a detour, which AODV can leave behind,
does not, and then the budget can be exceeded. `counted` and the lists are
compared by sets of "units", one for each copy (`CopiesUnits`, `CopiesSplit`,
`CopiesAtLeast`), as sums over a function cannot be defined without recursion.

*k-out-of-n.* `RetrievalsWhole` is about one step, `process_flrep`, and what has
to be proved is about its walk. `TakenBefore` says in which order the walk takes
the fragments: by the distance of the reply, by its place in the list, by the
place in the reply. `TakenInTurn` shows that no fragment comes before itself and
that the order is transitive, which needs that a fragment's place in its reply is
found (`SlotIsPlace`) and that each fragment has one reply it is taken from
(`ProviderIsReply`). `FirstOnes` then counts: of a finite ordered set with m
members or more, at least m have fewer than m before them. So the walk finds the
`Need` fragments it stops at, all different and none of the node's own. `OwnDifferent`
is where the hypothesis `NoRepeats` is used: the node's own entries are as many
different fragments as `Need` takes them for. `k_distinct` shows what happens
without it. `RetrievedDistinct` makes an invariant of it: where nobody prefetches
and the user stores no fragment twice (`StoredOnce`, which `cache_off`
satisfies), no message or timer of an exchange exists (`NoPush`), so no table ever
repeats a fragment (`Single`), and every success counted since the last reload had
k different fragments. So only pushes, or a user who stores a fragment twice, break
k-out-of-n.

### The plumbing: WorkLoopProofs

`TInv` adds to the types that each context is a record of its fields, that there
is a task to take exactly while the list has a head (until `rmmod` is gone), and `ArmHasTimer`:
a context that is about to set the kernel timer still has an entry to set it to.
On several processors this is not obvious: it holds as the entry can only be
taken by the kernel timer or a deletion, and both exclude the holder of the
read lock. From it and `Sorted` (`queue_timer` inserts in order of time, and deleting
or taking the due ones keeps the order) follows `Armed`. `InOrder` and `FreedOnce`
rest on `QInv`. `OnceQueued` says that a task is in one queue and there once. `Linked` says what
the pointers mean although the list runs on into tasks already taken: what is reached
from `task_q` is the newest part of all that was queued, what was handled is its beginning,
and `task_end` is the oldest not yet handled. `Released` says which of the handled tasks
the thread has freed: all but the one in its hand. `FreedByOne` follows: each
task is freed once, by the thread or by `cleanup_task_queue`, unless the clean-up
comes while the thread is inside its loop, where it frees again what the dangling
`next` pointers lead to. `CleanUnlink` says that it never comes then if the
second that `kill_cache` or `kill_aodv` waits is long enough (`AmpleWait`). `AddNotPending` is
false with `SMP`; without, `UpInv` says that from the reading of `timer_pending`
to the setting no other context runs (`Exclusive`), so what was read still stands.

### The routing protocol: AodvNetworkProofs

`Hi(d)` is the largest sequence number that d has given out, in this life or an
earlier one. The invariant says that nothing on the air (`Heard`), in a packet
queue or a hook (`KnownPackets`) and no valid route tells of d a newer number,
and that no step lowers `Hi` (`Grown`), so what is on the air stays true while it
waits. An invalid route may have a newer number, as expiry and route errors add
one; hence the property speaks of valid ones, and the request that carries such a
number to the destination is where a destination raises its own. `OwnRoute` speaks of
nodes that were never restarted: such a node gives out every number itself, so no
request or reply it hears about itself is newer than its own entry. After a restart
it need not hold: a reply of the former life, waiting in the packet queue of
another node, may be released when the restarted node counts from 1 again.
A message whose handling is not finished (`task`) tells no more than it did on the
air, and `TaskInv` says so of each node's.
There is one lemma for each handler or step of one (`...Keeps`), and each part of the invariant
that a handler does not touch is dealt with by `Untouched` and `TablesAlone`.

### The packet queue: PacketQueueProofs, AodvNodeProofs

`QInv` adds two parts to the types and `HeldOnce`. `Loops`: a context outside a
loop has an empty hand, and `rmmod` is in a loop exactly during `ipq_flush`;
without it the flush could begin with an entry in hand, or end with a comparison
that skips some. `Shutdown`: an entry on its way in is one of a call under way,
no call is under way once the wait is over, and nothing is queued after the
flush; so nothing can be put into the list any more when `q` is freed. The work
is in `ipq_enqueue` and `ipq_dequeue`, where `ListDelRest` says that the list
loses just the entry that goes to the hand. `BackOnce`, the
contract without its end, then needs of the
invariant only that what is in a hand is still the handler's, which is why
`nf_reinject` never feeds back twice. `TakenInOrder` needs `Order`: what has come
waits in the list or was taken, never both, and what waits stands in the list in
the order in which it came. `ipq_dequeue` takes the oldest entry that matches,
so every older one of the same flow, which matches as well, was taken before.

Every step of AodvNode is a step of its queue or none (`NodeImplementsQueue`), so
`HeldOnce`, `NoUseAfterFree` and `TakenInOrder` hold of the node with its hook,
thread and `rmmod`. `FeedsBack` says more of the node than `BackOnce` does of the queue: at the step that ends
`cleanup_module` every entry that was kept has been fed back. By then the thread has stopped
(`Unloading`) and the list was flushed after the last call into the handler ended
(`Shutdown`), so `NothingLeft` follows from the invariants, and no later step moves an entry.

### The route list: AodvNodeProofs

A route list is correct if there is *some* sequence of its cells in which
each cell's `next` and `prev` are its neighbours, every allocated cell is there and the
addresses rise: `Chain(t, w)`. Everything else follows from that.

* `WalkOf`: the walk from the head along `next` is then that sequence. The walk
  is a recursive function, and only one function satisfies its equation:
  two would differ at a least position, where both take the same step. No cell comes
  twice, as addresses rise, so `NoLonger` says that the walk fits the number of
  steps that `Walk` allows it.
* `Inserted` and `Removed` give the new sequence: one cell put in after those
  with smaller addresses, or one left out. `LinkAfter` and `remove_aodv_route`
  write to the two neighbours at most; the lemmas say what each of
  the cells holds afterwards and compare it with its place in the new
  sequence. `Rewritten` deals with the steps that write to entries and leave
  links and addresses alone (expiry, lifetimes, new sequence numbers and next hops).
* `FoundIs`: `find_aodv_route` returns the last match among the cells not above
  the address. Since no netmask matches an address below its own entry
  (`Masked`), every match is among them, and the one with the largest address is
  the entry itself if there is one.

The invariant `NodeInv` needs more than the list, so that every handler keeps it.
`Masked` separates the daemon's own entries from what it learns: the handlers
name neighbours, destinations and hosts of the local subnet. None of them can find, overwrite
or remove an own entry for one of the first two, which the subnet's netmask does not cover; for a host
`reply_to_rreq` may find the subnet's entry, and then there is none of the host's own
(`NotListed`), so the new one has a new address. `Mirrored` says that the kernel's routes are the
device's and one for each entry outside the local subnet that is not the daemon's own; it is
`KernelMirrors` and the types. An entry for a local host has none (`LocalStep`). `Sending` says what holds between `update_aodv_route`'s writes and the last
`nf_reinject`: the route to the address being released is in both tables with
the same next hop, and what the thread has in its hand goes there. Without it
`ReleasedToRoute` would not be inductive: a flush or a lost neighbour could remove the
route first, and it does not because one thread does all of it. `Unloading` says how far
`rmmod` is: the thread is idle before the tables are freed. TLC checked
`NodeInv` over the states of `aodv_node` before it was proved. `Room` uses
the assumption on the memory: distinct entries have distinct addresses, so a new
address means a free cell.

The theorems follow from `NodeInvariant` and the queue's `QInv`; `UnloadsClean`
takes the packets from the second and the routes from the first.

### Only model-checked

The liveness properties `TimersFire`, `FedBack` and `UnloadEnds`: liveness under fairness
is out of this prover's reach.

Where an argument by induction on numbers was needed (the positions kept by
`Kept`, the fragments of a walk that stops after k, the first ones of an ordered set, the cells of the route list), it is made from the least
number that fails: `LeastNat`, in `SublistProofs`.


## Abstractions

Left out everywhere: statistics nothing reads, printing, `/proc`, allocation
failures, memory reuse after `kfree`. Caching: the host is big-endian (the build
target is), a flood id outlives the copies of its request, a reply carries at
most eight fragments (`map[8]`, hence `KVAL <= 8`), users take fresh sequence
numbers, expired entries of `rinfo` and `extable` are dropped at once since every
reader skips them. WorkLoop: the clock starts with the first timer; the handlers are
reduced to the timers they set and delete; timers beyond `MaxTime` are not set. AodvNetwork: sequence
numbers stay far below 2^31; one AODV subnet, no gateway, no local subnet; the 20 ms between a
neighbour's lifetime and its route's are ignored. AodvNode: packets come one at
a time, in the order of their numbers; a handler reads the route table in one
step; `ip_rt_ioctl` succeeds; nobody requests a route to the local subnet's own address,
for which `reply_to_rreq` would put in one more entry each time, before the subnet's.

Nothing is promised of the order in which the packets of a flow arrive. Those that wait in a
queue are taken out in the order in which they came (`TakenInOrder`), but a packet that
comes after the route has become valid and before the last that waits is sent
overtakes it without ever being queued. AodvNetwork and AodvNode both allow this, as the code does.

## Not modelled

* `signal.c`: compiled only with `AODV_SIGNAL`, and made of wireless ioctls.
* `/proc` files and the statistics they print: formatting of state nothing
  else reads.
* Opening sockets, choosing devices, the failure paths of `init_module` and
  failing `kmalloc` calls.
* `ipq_dev_drop` and `receive_event`: `ipq_dev_notifier` is never registered, so
  they cannot run.
* The gateway branch of `reply_to_rreq`, which needs `aodv_gateway` and destinations outside the
  AODV subnet; 64-bit wall-clock lifetimes and clock steps.
* The parsing and the canned experiments of `simpleFS`.
* Four-node networks: routes kept through a lost neighbour after a detour, and
  loops, take more states than a run can hold.

## Plan

1. Done: the models and runs above; the theorems of the table above, that is
   every safety invariant, action property and refinement the runs check.
2. Left: the hazards in `PROJECT.json` without a property, most of which need
   four nodes, failing allocations or the processor's memory model.
