------------------------- MODULE PacketQueueProofs -------------------------
(***************************************************************************)
(* The packet queue holds every entry once, is not used after it is freed, *)
(* and feeds what it keeps back at most once, for any entries, contexts    *)
(* and limit.                                                              *)
(***************************************************************************)
EXTENDS PacketQueue, TLAPS

USE DEF Drainers

\* A context that is in no loop has nothing in its hand, and rmmod is in one
\* exactly while it is in ipq_flush.
Loops ==
    /\ \A c \in Drainers : drain[c].op = "idle" => drain[c].e = None
    /\ drain["rmmod"].op = IF phase = "flushing" THEN "flush" ELSE "idle"

\* ipq_destroy_queue: once synchronize_rcu has returned no call of
\* netfilter_receive is under way, and after ipq_flush nothing is queued.
Shutdown ==
    /\ \A e \in Entries : fate[e] = "entering" => e \in inside
    /\ phase \notin {"live", "waiting"} => inside = {}
    /\ phase \in {"flushed", "freed"} => q_list = <<>>

QInv == QTypeOK /\ HeldOnce /\ Loops /\ Shutdown

-----------------------------------------------------------------------------
(* list_del.                                                               *)

\* list_del takes one place out of the list and keeps the others.
LEMMA ListDel ==
    ASSUME NEW s \in Seq(Entries), NEW i \in 1 .. Len(s)
    PROVE  /\ list_del(s, i) \in Seq(Entries)
           /\ Len(list_del(s, i)) = Len(s) - 1
           /\ \A j \in 1 .. Len(s) - 1 : list_del(s, i)[j] = IF j < i THEN s[j] ELSE s[j + 1]
  <1>1. Len(s) \in Nat /\ Len(s) - 1 \in Nat
    OBVIOUS
  <1>2. \A j \in 1 .. Len(s) - 1 : (IF j < i THEN s[j] ELSE s[j + 1]) \in Entries
    <2> TAKE j \in 1 .. Len(s) - 1
    <2>1. j \in 1 .. Len(s) /\ j + 1 \in 1 .. Len(s)
      BY <1>1
    <2> QED  BY <2>1
  <1> QED  BY <1>1, <1>2 DEF list_del

\* What is left of a list without repetitions: everything but what was taken,
\* and without repetitions.
LEMMA ListDelRest ==
    ASSUME NEW s \in Seq(Entries), NEW i \in 1 .. Len(s),
           \A a, b \in DOMAIN s : s[a] = s[b] => a = b
    PROVE  /\ \A a, b \in DOMAIN list_del(s, i) : list_del(s, i)[a] = list_del(s, i)[b] => a = b
           /\ \A e : (\E a \in DOMAIN list_del(s, i) : list_del(s, i)[a] = e)
                     <=> (\E a \in DOMAIN s : s[a] = e) /\ e # s[i]
  <1> DEFINE t == list_del(s, i)
             At(j) == IF j < i THEN j ELSE j + 1
  <1>1. /\ t \in Seq(Entries) /\ Len(t) = Len(s) - 1
        /\ \A j \in 1 .. Len(s) - 1 : t[j] = IF j < i THEN s[j] ELSE s[j + 1]
    BY ListDel
  <1>2. DOMAIN t = 1 .. Len(s) - 1 /\ DOMAIN s = 1 .. Len(s) /\ Len(s) \in Nat
    BY <1>1
  <1>3. \A j \in DOMAIN t : At(j) \in DOMAIN s /\ At(j) # i /\ t[j] = s[At(j)]
    BY <1>1, <1>2
  <1> HIDE DEF t
  <1>4. ASSUME NEW a \in DOMAIN t, NEW b \in DOMAIN t, t[a] = t[b]
        PROVE  a = b
    <2>1. At(a) = At(b)
      BY <1>3, <1>4
    <2> QED  BY <2>1, <1>2
  <1>5. ASSUME NEW a \in DOMAIN t
        PROVE  (\E b \in DOMAIN s : s[b] = t[a]) /\ t[a] # s[i]
    BY <1>3, <1>2
  <1>6. ASSUME NEW b \in DOMAIN s, s[b] # s[i]
        PROVE  \E a \in DOMAIN t : t[a] = s[b]
    <2>1. b # i
      BY <1>6
    <2>2. CASE b < i
      <3>1. b \in DOMAIN t /\ t[b] = s[b]
        BY <2>2, <1>1, <1>2
      <3> QED  BY <3>1
    <2>3. CASE b > i
      <3>1. b - 1 \in DOMAIN t /\ t[b - 1] = s[b]
        BY <2>3, <1>1, <1>2
      <3> QED  BY <3>1
    <2> QED  BY <2>1, <2>2, <2>3, <1>2
  <1> QED  BY <1>4, <1>5, <1>6 DEF t

-----------------------------------------------------------------------------
(* The invariant.                                                          *)

\* The invariant holds of the empty queue.
LEMMA InitInv == QInit => QInv
  <1> SUFFICES ASSUME QInit PROVE QInv
    OBVIOUS
  <1>1. QTypeOK
    <2>1. Idle \in [op : {"idle", "send", "drop", "flush"}, ip : Ips \cup {None}, e : Entries \cup {None}]
      BY DEF Idle
    <2>2. <<>> \in Seq(Entries)
      OBVIOUS
    <2>3. drain \in [Drainers -> [op : {"idle", "send", "drop", "flush"}, ip : Ips \cup {None},
                                 e : Entries \cup {None}]]
      BY <2>1 DEF QInit, ipq_create_queue
    <2>4. fate \in [Entries -> {"new", "entering", "queued", "accepted", "dropped", "freed", "corrupt"}]
      BY DEF QInit, ipq_create_queue
    <2>5. q_list \in Seq(Entries) /\ came \in Seq(Entries) /\ taken \in Seq(Entries) /\ len \in Int
      BY <2>2 DEF QInit, ipq_create_queue
    <2>6. flushing \in BOOLEAN /\ terminate \in BOOLEAN
      BY Zenon DEF QInit, ipq_create_queue
    <2>7. phase \in Phases /\ inside \subseteq Entries
      BY DEF QInit, ipq_create_queue, Phases
    <2> QED  BY <2>3, <2>4, <2>5, <2>6, <2>7 DEF QTypeOK
  <1>2. HeldOnce
    BY PacketQueueAssumption DEF QInit, ipq_create_queue, HeldOnce, Hands, Idle
  <1>3. Loops /\ Shutdown
    BY PacketQueueAssumption DEF QInit, ipq_create_queue, Loops, Shutdown, Idle
  <1> QED  BY <1>1, <1>2, <1>3 DEF QInv

\* Steps that leave the list, the entries' fates and the hands alone.
LEMMA HandsAlone ==
    ASSUME QInv, UNCHANGED <<q_list, len, fate>>,
           \A c \in Drainers : drain'[c].e = drain[c].e
    PROVE  HeldOnce'
  BY DEF QInv, HeldOnce, Hands

\* netfilter_receive keeps the invariant.
LEMMA ReceiveInv ==
    ASSUME QInv, NEW e \in Entries, netfilter_receive(e)
    PROVE  QInv'
  <1> USE DEF netfilter_receive
  <1>1. QTypeOK'
    BY DEF QInv, QTypeOK
  <1>2. \A x \in Entries : fate'[x] = "queued" <=> fate[x] = "queued"
    BY DEF QInv, QTypeOK
  <1>3. HeldOnce'
    BY <1>2 DEF QInv, HeldOnce, Hands
  <1>4. Loops' /\ Shutdown'
    BY DEF QInv, QTypeOK, Loops, Shutdown
  <1> QED  BY <1>1, <1>3, <1>4 DEF QInv

\* So does the lock section of ipq_enqueue.
LEMMA EnqueueInv ==
    ASSUME QInv, NEW e \in Entries, ipq_enqueue(e)
    PROVE  QInv'
  <1> USE DEF ipq_enqueue
  <1>1. fate[e] = "entering" /\ e \in inside /\ phase \in {"live", "waiting"}
    BY DEF QInv, QTypeOK, Shutdown
  <1>2. CASE Full
    <2>1. QTypeOK'
      BY <1>2 DEF QInv, QTypeOK
    <2>2. \A x \in Entries : fate'[x] = "queued" <=> fate[x] = "queued"
      BY <1>1, <1>2 DEF QInv, QTypeOK
    <2>3. HeldOnce'
      BY <1>2, <2>2 DEF QInv, HeldOnce, Hands
    <2>4. Loops' /\ Shutdown'
      BY <1>1, <1>2 DEF QInv, QTypeOK, Loops, Shutdown
    <2> QED  BY <2>1, <2>3, <2>4 DEF QInv
  <1>3. CASE ~Full
    <2>1. /\ fate' = [fate EXCEPT ![e] = "queued"] /\ len' = len + 1
          /\ q_list' = Append(q_list, e) /\ came' = Append(came, e)
      BY <1>3
    <2>2. QTypeOK'
      BY <2>1 DEF QInv, QTypeOK
    <2>3. /\ q_list \in Seq(Entries) /\ Len(q_list) \in Nat /\ DOMAIN q_list = 1 .. Len(q_list)
          /\ DOMAIN q_list' = 1 .. Len(q_list) + 1 /\ Len(q_list') = Len(q_list) + 1
          /\ q_list'[Len(q_list) + 1] = e
          /\ \A i \in DOMAIN q_list : q_list'[i] = q_list[i]
      BY <2>1 DEF QInv, QTypeOK
    <2>4. /\ \A i \in DOMAIN q_list : q_list[i] # e
          /\ \A c \in Drainers : drain[c].e # None => drain[c].e # e
      BY <1>1 DEF QInv, HeldOnce, Hands
    <2>5. \A i, j \in DOMAIN q_list' : q_list'[i] = q_list'[j] => i = j
      BY <2>3, <2>4 DEF QInv, HeldOnce
    <2>6. Hands' = Hands /\ drain' = drain
      BY DEF Hands
    <2>7. \A c \in Hands, i \in DOMAIN q_list' : drain[c].e # q_list'[i]
      BY <2>3, <2>4 DEF QInv, HeldOnce, Hands
    <2>8. \A x : (\E i \in DOMAIN q_list' : q_list'[i] = x)
                 <=> x = e \/ \E i \in DOMAIN q_list : q_list[i] = x
      <3>1. ASSUME NEW i \in DOMAIN q_list'
            PROVE  q_list'[i] = e \/ \E j \in DOMAIN q_list : q_list[j] = q_list'[i]
        BY <2>3
      <3>2. Len(q_list) + 1 \in DOMAIN q_list'
        BY <2>3
      <3>3. \A i \in DOMAIN q_list : i \in DOMAIN q_list' /\ q_list'[i] = q_list[i]
        BY <2>3
      <3> QED  BY <3>1, <3>2, <3>3, <2>3
    <2>9. \A x \in Entries : fate'[x] = "queued" <=> x = e \/ fate[x] = "queued"
      BY <2>1 DEF QInv, QTypeOK
    <2>10. \A x \in Entries :
             fate'[x] = "queued" <=> \/ \E i \in DOMAIN q_list' : q_list'[i] = x
                                     \/ \E c \in Hands : drain[c].e = x
      BY <2>8, <2>9 DEF QInv, HeldOnce
    <2>11. len' = Len(q_list') /\ len' <= MAXLEN
      BY <1>3, <2>1, <2>3, PacketQueueAssumption DEF QInv, HeldOnce, Full
    <2>12. HeldOnce'
      BY <2>5, <2>6, <2>7, <2>10, <2>11 DEF QInv, HeldOnce
    <2>13. Loops' /\ Shutdown'
      BY <1>1, <2>1 DEF QInv, QTypeOK, Loops, Shutdown
    <2> QED  BY <2>2, <2>12, <2>13 DEF QInv
  <1> QED  BY <1>2, <1>3

\* ipq_enqueue_packet returns: the hook is done with the packet.
LEMMA EnqueueReturnInv ==
    ASSUME QInv, NEW e \in Entries, ipq_enqueue_return(e)
    PROVE  QInv'
  <1> USE DEF ipq_enqueue_return
  <1>1. QTypeOK'
    BY DEF QInv, QTypeOK
  <1>2. HeldOnce'
    BY HandsAlone
  <1>3. Loops' /\ Shutdown'
    BY DEF QInv, QTypeOK, Loops, Shutdown
  <1> QED  BY <1>1, <1>2, <1>3 DEF QInv

\* A loop of ipq_send_ip or ipq_drop_ip begins.
LEMMA LoopInv ==
    ASSUME QInv, NEW c \in Contexts, NEW d \in Ips, ipq_send_ip(c, d) \/ ipq_drop_ip(c, d)
    PROVE  QInv'
  <1>1. PICK op \in {"send", "drop"} :
            /\ drain[c].op = "idle"
            /\ drain' = [drain EXCEPT ![c] = [op |-> op, ip |-> d, e |-> None]]
            /\ UNCHANGED <<q_list, len, flushing, terminate, phase, inside, fate, came, taken>>
    BY DEF ipq_send_ip, ipq_drop_ip
  <1>2. drain[c].e = None
    BY <1>1 DEF QInv, Loops
  <1>3. QTypeOK'
    BY <1>1 DEF QInv, QTypeOK
  <1>4. HeldOnce'
    <2>1. \A b \in Drainers : drain'[b].e = drain[b].e
      BY <1>1, <1>2 DEF QInv, QTypeOK
    <2> QED  BY <1>1, <2>1, HandsAlone
  <1>5. Loops' /\ Shutdown'
    BY <1>1, PacketQueueAssumption DEF QInv, QTypeOK, Loops, Shutdown
  <1> QED  BY <1>3, <1>4, <1>5 DEF QInv

\* ipq_dequeue moves the entry from the list to the hand.
LEMMA DequeueInv ==
    ASSUME QInv, NEW c \in Drainers, ipq_dequeue(c)
    PROVE  QInv'
  <1>1. PICK i \in Found(c) :
            /\ q_list' = list_del(q_list, i)
            /\ len' = len - 1
            /\ drain' = [drain EXCEPT ![c].e = q_list[i]]
            /\ taken' = Append(taken, q_list[i])
    BY DEF ipq_dequeue
  <1>2. /\ drain[c].op # "idle" /\ drain[c].e = None
        /\ UNCHANGED <<flushing, terminate, phase, inside, fate, came>>
    BY DEF ipq_dequeue
  <1>3. /\ q_list \in Seq(Entries) /\ Len(q_list) \in Nat
        /\ DOMAIN q_list = 1 .. Len(q_list) /\ i \in 1 .. Len(q_list)
        /\ q_list[i] \in Entries /\ q_list[i] # None
    BY PacketQueueAssumption DEF QInv, QTypeOK, Found
  <1> DEFINE x == q_list[i]
  <1>4. /\ q_list' \in Seq(Entries) /\ Len(q_list') = Len(q_list) - 1
        /\ \A a, b \in DOMAIN q_list' : q_list'[a] = q_list'[b] => a = b
        /\ \A e : (\E a \in DOMAIN q_list' : q_list'[a] = e)
                  <=> (\E a \in DOMAIN q_list : q_list[a] = e) /\ e # x
    <2> DEFINE t == list_del(q_list, i)
    <2>1. \A a, b \in DOMAIN q_list : q_list[a] = q_list[b] => a = b
      BY DEF QInv, HeldOnce
    <2>2. t \in Seq(Entries) /\ Len(t) = Len(q_list) - 1
      BY <1>3, ListDel
    <2>3. /\ \A a, b \in DOMAIN t : t[a] = t[b] => a = b
          /\ \A e : (\E a \in DOMAIN t : t[a] = e)
                    <=> (\E a \in DOMAIN q_list : q_list[a] = e) /\ e # x
      BY <1>3, <2>1, ListDelRest
    <2> HIDE DEF t
    <2>4. q_list' = t
      BY <1>1 DEF t
    <2> QED  BY <2>2, <2>3, <2>4
  <1>5. /\ drain'[c].e = x /\ drain'[c].op = drain[c].op
        /\ \A b \in Drainers : drain'[b].op = drain[b].op
        /\ \A b \in Drainers \ {c} : drain'[b].e = drain[b].e
    BY <1>1 DEF QInv, QTypeOK
  <1>6. QTypeOK'
    <2>1. drain' \in [Drainers -> [op : {"idle", "send", "drop", "flush"}, ip : Ips \cup {None},
                                   e : Entries \cup {None}]]
      BY <1>1, <1>3, ZenonT(60) DEF QInv, QTypeOK
    <2>2. taken' \in Seq(Entries) /\ len' \in Int
      BY <1>1, <1>3 DEF QInv, QTypeOK
    <2> QED  BY <1>2, <1>4, <2>1, <2>2 DEF QInv, QTypeOK
  <1>7. HeldOnce'
    <2>1. Hands' = Hands \cup {c} /\ c \notin Hands
      BY <1>2, <1>3, <1>5 DEF Hands
    <2>2. \A b \in Hands : drain'[b].e = drain[b].e /\ drain[b].e # x
      BY <1>3, <1>5, <2>1 DEF QInv, HeldOnce, Hands
    <2>3. \A a, b \in Hands' : drain'[a].e = drain'[b].e => a = b
      BY <1>5, <2>1, <2>2 DEF QInv, HeldOnce
    <2>4. \A b \in Hands', a \in DOMAIN q_list' : drain'[b].e # q_list'[a]
      <3> SUFFICES ASSUME NEW b \in Hands', NEW a \in DOMAIN q_list', drain'[b].e = q_list'[a]
                   PROVE  FALSE
        OBVIOUS
      <3>1. q_list'[a] # x /\ \E k \in DOMAIN q_list : q_list[k] = q_list'[a]
        BY <1>4
      <3>2. b \in Hands
        BY <1>5, <2>1, <3>1
      <3> QED  BY <2>2, <3>1, <3>2 DEF QInv, HeldOnce
    <2>5. \A e \in Entries :
            fate'[e] = "queued" <=> \/ \E a \in DOMAIN q_list' : q_list'[a] = e
                                    \/ \E b \in Hands' : drain'[b].e = e
      <3> SUFFICES ASSUME NEW e \in Entries
                   PROVE  fate'[e] = "queued" <=> \/ \E a \in DOMAIN q_list' : q_list'[a] = e
                                                  \/ \E b \in Hands' : drain'[b].e = e
        OBVIOUS
      <3>1. fate[e] = "queued" <=> \/ \E a \in DOMAIN q_list : q_list[a] = e
                                   \/ \E b \in Hands : drain[b].e = e
        BY DEF QInv, HeldOnce
      <3>2. (\E b \in Hands' : drain'[b].e = e) <=> e = x \/ \E b \in Hands : drain[b].e = e
        BY <1>5, <2>1, <2>2
      <3>3. \E a \in DOMAIN q_list : q_list[a] = x
        BY <1>3
      <3> QED  BY <1>2, <1>4, <3>1, <3>2, <3>3
    <2>6. len' = Len(q_list') /\ len' <= MAXLEN
      BY <1>1, <1>3, <1>4, PacketQueueAssumption DEF QInv, HeldOnce
    <2> QED  BY <1>4, <2>3, <2>4, <2>5, <2>6 DEF HeldOnce
  <1>8. Loops'
    BY <1>2, <1>5 DEF QInv, Loops
  <1>9. Shutdown'
    BY <1>2, <1>3 DEF QInv, Shutdown
  <1> QED  BY <1>6, <1>7, <1>8, <1>9 DEF QInv

\* nf_reinject empties the hand; the entry was still the handler's.
LEMMA ReinjectInv ==
    ASSUME QInv, NEW c \in Drainers, nf_reinject(c)
    PROVE  QInv'
  <1> DEFINE x == drain[c].e
  <1>1. /\ x # None
        /\ fate' = [fate EXCEPT ![x] = CASE @ # "queued" -> "corrupt"
                                         [] drain[c].op = "send" -> "accepted"
                                         [] OTHER -> "dropped"]
        /\ drain' = [drain EXCEPT ![c].e = None]
        /\ UNCHANGED <<q_list, len, flushing, terminate, phase, inside, came, taken>>
    BY DEF nf_reinject
  <1>2. x \in Entries /\ c \in Hands
    BY <1>1 DEF QInv, QTypeOK, Hands
  <1>3. /\ drain'[c].e = None
        /\ \A b \in Drainers : drain'[b].op = drain[b].op
        /\ \A b \in Drainers \ {c} : drain'[b].e = drain[b].e
    BY <1>1 DEF QInv, QTypeOK
  <1>4. /\ fate'[x] \in {"accepted", "dropped", "corrupt"}
        /\ \A e \in Entries \ {x} : fate'[e] = fate[e]
        /\ fate' \in [Entries -> {"new", "entering", "queued", "accepted", "dropped", "freed", "corrupt"}]
    BY <1>1, <1>2 DEF QInv, QTypeOK
  <1>5. QTypeOK'
    <2>1. drain' \in [Drainers -> [op : {"idle", "send", "drop", "flush"}, ip : Ips \cup {None},
                                   e : Entries \cup {None}]]
      BY <1>1, ZenonT(60) DEF QInv, QTypeOK
    <2> QED  BY <1>1, <1>4, <2>1 DEF QInv, QTypeOK
  <1>6. HeldOnce'
    <2>1. Hands' = Hands \ {c}
      BY <1>2, <1>3 DEF Hands
    <2>2. \A b \in Hands' : drain'[b].e = drain[b].e /\ drain[b].e # x
      BY <1>2, <1>3, <2>1 DEF QInv, HeldOnce, Hands
    <2>3. \A i \in DOMAIN q_list : q_list[i] # x
      BY <1>2 DEF QInv, HeldOnce
    <2>4. \A e \in Entries :
            fate'[e] = "queued" <=> \/ \E a \in DOMAIN q_list : q_list[a] = e
                                    \/ \E b \in Hands' : drain'[b].e = e
      <3> SUFFICES ASSUME NEW e \in Entries
                   PROVE  fate'[e] = "queued" <=> \/ \E a \in DOMAIN q_list : q_list[a] = e
                                                  \/ \E b \in Hands' : drain'[b].e = e
        OBVIOUS
      <3>1. CASE e = x
        BY <1>4, <2>2, <2>3, <3>1
      <3>2. CASE e # x
        <4>1. (\E b \in Hands' : drain'[b].e = e) <=> (\E b \in Hands : drain[b].e = e)
          BY <2>1, <2>2, <3>2
        <4> QED  BY <1>4, <3>2, <4>1 DEF QInv, HeldOnce
      <3> QED  BY <3>1, <3>2
    <2> QED  BY <1>1, <2>1, <2>2, <2>4 DEF QInv, HeldOnce
  <1>7. Loops'
    BY <1>1, <1>3 DEF QInv, Loops
  <1>8. Shutdown'
    BY <1>1, <1>2, <1>4 DEF QInv, Shutdown
  <1> QED  BY <1>5, <1>6, <1>7, <1>8 DEF QInv

\* A drainer finds no more packets that are meant for it.
LEMMA DrainedInv ==
    ASSUME QInv, NEW c \in Drainers, ipq_drained(c)
    PROVE  QInv'
  <1> USE DEF ipq_drained
  <1>1. Idle \in [op : {"idle", "send", "drop", "flush"}, ip : Ips \cup {None}, e : Entries \cup {None}]
        /\ Idle.e = None /\ Idle.op = "idle"
    BY DEF Idle
  <1>2. QTypeOK'
    BY <1>1 DEF QInv, QTypeOK
  <1>3. \A b \in Drainers : drain'[b].e = drain[b].e
    BY <1>1 DEF QInv, QTypeOK
  <1>4. HeldOnce'
    BY <1>3, HandsAlone
  <1>5. Loops'
    BY <1>1 DEF QInv, QTypeOK, Loops
  <1>6. Shutdown'
    BY DEF QInv, Shutdown
  <1> QED  BY <1>2, <1>4, <1>5, <1>6 DEF QInv

\* ipq_destroy_queue: the wait comes before the flush, the flush before the
\* free.
LEMMA DestroyInv ==
    ASSUME QInv, ipq_destroy_queue
    PROVE  QInv'
  <1>1. CASE nf_unregister_queue_handler
    <2> USE <1>1 DEF nf_unregister_queue_handler
    <2>1. QTypeOK'
      BY DEF QInv, QTypeOK, Phases
    <2>2. HeldOnce'
      BY HandsAlone
    <2>3. Loops' /\ Shutdown'
      BY DEF QInv, Loops, Shutdown
    <2> QED  BY <2>1, <2>2, <2>3 DEF QInv
  <1>2. CASE ipq_terminate
    <2> USE <1>2 DEF ipq_terminate, Synchronized
    <2>1. QTypeOK'
      <3>1. terminate' \in BOOLEAN
        BY Zenon
      <3> QED  BY <3>1 DEF QInv, QTypeOK, Phases
    <2>2. HeldOnce'
      BY HandsAlone
    <2>3. Loops' /\ Shutdown'
      BY DEF QInv, Loops, Shutdown
    <2> QED  BY <2>1, <2>2, <2>3 DEF QInv
  <1>3. CASE ipq_flush
    <2> USE <1>3 DEF ipq_flush
    <2>1. drain["rmmod"].e = None
      BY DEF QInv, Loops
    <2>2. QTypeOK'
      <3>1. flushing' \in BOOLEAN
        BY Zenon
      <3> QED  BY <3>1 DEF QInv, QTypeOK, Phases
    <2>3. \A c \in Drainers : drain'[c].e = drain[c].e
      BY <2>1 DEF QInv, QTypeOK
    <2>4. HeldOnce'
      BY <2>3, HandsAlone
    <2>5. Loops' /\ Shutdown'
      BY DEF QInv, QTypeOK, Loops, Shutdown
    <2> QED  BY <2>2, <2>4, <2>5 DEF QInv
  <1>4. CASE ipq_flushed
    <2> USE <1>4 DEF ipq_flushed
    <2>1. Idle \in [op : {"idle", "send", "drop", "flush"}, ip : Ips \cup {None}, e : Entries \cup {None}]
          /\ Idle.e = None /\ Idle.op = "idle"
      BY DEF Idle
    <2>2. QTypeOK'
      <3>1. flushing' \in BOOLEAN
        BY Zenon
      <3> QED  BY <2>1, <3>1 DEF QInv, QTypeOK, Phases
    <2>3. \A c \in Drainers : drain'[c].e = drain[c].e
      BY <2>1 DEF QInv, QTypeOK
    <2>4. HeldOnce'
      BY <2>3, HandsAlone
    <2>5. q_list = <<>>
      <3>1. drain["rmmod"].op = "flush"
        BY DEF QInv, Loops
      <3>2. DOMAIN q_list = {}
        BY <3>1 DEF Found, Matches
      <3> QED  BY <3>2 DEF QInv, QTypeOK
    <2>6. Loops'
      BY <2>1 DEF QInv, QTypeOK, Loops
    <2>7. Shutdown'
      BY <2>5 DEF QInv, Shutdown
    <2> QED  BY <2>2, <2>4, <2>6, <2>7 DEF QInv
  <1>5. CASE kfree_q
    <2> USE <1>5 DEF kfree_q
    <2>1. QTypeOK'
      BY DEF QInv, QTypeOK, Phases
    <2>2. HeldOnce'
      BY HandsAlone
    <2>3. Loops' /\ Shutdown'
      BY DEF QInv, Loops, Shutdown
    <2> QED  BY <2>1, <2>2, <2>3 DEF QInv
  <1> QED  BY <1>1, <1>2, <1>3, <1>4, <1>5 DEF ipq_destroy_queue

\* Every step keeps the invariant.
LEMMA StepInv == QInv /\ [QNext]_qvars => QInv'
  <1> SUFFICES ASSUME QInv, [QNext]_qvars PROVE QInv'
    OBVIOUS
  <1>1. ASSUME NEW e \in Entries, netfilter_receive(e) \/ ipq_enqueue(e) \/ ipq_enqueue_return(e)
        PROVE  QInv'
    BY <1>1, ReceiveInv, EnqueueInv, EnqueueReturnInv
  <1>2. ASSUME NEW c \in Contexts, NEW d \in Ips, ipq_send_ip(c, d) \/ ipq_drop_ip(c, d)
        PROVE  QInv'
    BY <1>2, LoopInv
  <1>3. ASSUME NEW c \in Drainers, ipq_dequeue(c) \/ nf_reinject(c) \/ ipq_drained(c)
        PROVE  QInv'
    BY <1>3, DequeueInv, ReinjectInv, DrainedInv
  <1>4. CASE UNCHANGED qvars
    <2> USE <1>4 DEF qvars
    <2>1. QTypeOK'
      BY DEF QInv, QTypeOK
    <2>2. HeldOnce'
      BY HandsAlone
    <2>3. Loops' /\ Shutdown'
      BY DEF QInv, Loops, Shutdown
    <2> QED  BY <2>1, <2>2, <2>3 DEF QInv
  <1> QED  BY <1>1, <1>2, <1>3, <1>4, DestroyInv DEF QNext

-----------------------------------------------------------------------------
(* What follows.                                                           *)

\* The packet queue's inductive invariant.
THEOREM QueueInvariant == QSpec => []QInv
  <1> QED  BY InitInv, StepInv, PTL DEF QSpec

\* ipq_enqueue, ipq_dequeue and nf_reinject neither lose nor double an entry,
\* and q->len is the length of the list and within the limit, whatever the
\* contexts that drain the list at the same time.
THEOREM EntriesHeldOnce == QSpec => []HeldOnce
  <1>1. QInv => HeldOnce
    BY DEF QInv
  <1> QED  BY <1>1, QueueInvariant, PTL

\* ipq_destroy_queue frees q when nothing uses it any more.
THEOREM FreedUnused == QSpec => []NoUseAfterFree
  <1>1. QInv => NoUseAfterFree
    BY DEF QInv, Shutdown, NoUseAfterFree
  <1> QED  BY <1>1, QueueInvariant, PTL

\* A step hands over an entry that is on its way in, which is kept or lost,
\* or feeds back one that is queued, or passes on nothing.
LEMMA PassesOne ==
    ASSUME QInv, [QNext]_qvars
    PROVE  \/ Place' = Place
           \/ \E e \in Entries : /\ fate[e] = "entering" /\ Place[e] = "netfilter"
                                 /\ \/ Place' = [Place EXCEPT ![e] = "handler"]
                                    \/ Place' = [Place EXCEPT ![e] = "lost"]
           \/ \E e \in Entries : /\ fate[e] = "queued" /\ Place[e] = "handler"
                                 /\ Place' = [Place EXCEPT ![e] = "back"]
  <1>1. ASSUME UNCHANGED fate PROVE Place' = Place
    BY <1>1 DEF Place
  <1>2. ASSUME NEW e \in Entries, netfilter_receive(e) PROVE Place' = Place
    <2>1. \A x \in Entries : Place'[x] = Place[x]
      BY <1>2 DEF netfilter_receive, Place, QInv, QTypeOK
    <2> QED  BY <2>1 DEF Place
  <1>3. ASSUME NEW e \in Entries, ipq_enqueue(e)
        PROVE  /\ fate[e] = "entering" /\ Place[e] = "netfilter"
               /\ \/ Place' = [Place EXCEPT ![e] = "handler"]
                  \/ Place' = [Place EXCEPT ![e] = "lost"]
    <2>1. CASE Full
      BY <1>3, <2>1 DEF ipq_enqueue, Place, QInv, QTypeOK
    <2>2. CASE ~Full
      BY <1>3, <2>2 DEF ipq_enqueue, Place, QInv, QTypeOK
    <2> QED  BY <2>1, <2>2
  <1>4. ASSUME NEW c \in Drainers, nf_reinject(c)
        PROVE  \E x \in Entries : /\ fate[x] = "queued" /\ Place[x] = "handler"
                                  /\ Place' = [Place EXCEPT ![x] = "back"]
    <2> DEFINE x == drain[c].e
    <2>1. x \in Entries /\ fate[x] = "queued"
      BY <1>4 DEF nf_reinject, QInv, QTypeOK, HeldOnce, Hands
    <2>2. PICK v \in {"accepted", "dropped"} : fate' = [fate EXCEPT ![x] = v]
      BY <1>4, <2>1 DEF nf_reinject, QInv, QTypeOK
    <2> HIDE DEF x
    <2>3. Place' = [Place EXCEPT ![x] = "back"] /\ Place[x] = "handler"
      BY <2>1, <2>2 DEF Place, QInv, QTypeOK
    <2> QED  BY <2>1, <2>3
  <1>5. ASSUME NEW e \in Entries, ipq_enqueue_return(e) PROVE UNCHANGED fate
    BY <1>5 DEF ipq_enqueue_return
  <1>6. ASSUME NEW c \in Contexts, NEW d \in Ips, ipq_send_ip(c, d) \/ ipq_drop_ip(c, d)
        PROVE  UNCHANGED fate
    BY <1>6 DEF ipq_send_ip, ipq_drop_ip
  <1>7. ASSUME NEW c \in Drainers, ipq_dequeue(c) \/ ipq_drained(c) PROVE UNCHANGED fate
    BY <1>7 DEF ipq_dequeue, ipq_drained
  <1>8. ASSUME ipq_destroy_queue PROVE UNCHANGED fate
    BY <1>8 DEF ipq_destroy_queue, nf_unregister_queue_handler, ipq_terminate, ipq_flush, ipq_flushed, kfree_q
  <1>9. ASSUME UNCHANGED qvars PROVE UNCHANGED fate
    BY <1>9 DEF qvars
  <1> QED  BY <1>1, <1>2, <1>3, <1>4, <1>5, <1>6, <1>7, <1>8, <1>9 DEF QNext

\* What ipq_enqueue keeps is fed back at most once, by however many contexts
\* that drain the queue.
THEOREM KeptOnce == QSpec => BackOnce
  <1>1. QInit => KeptThenBack!Init
    BY DEF QInit, ipq_create_queue, KeptThenBack!Init, Place
  <1>2. QInv /\ [QNext]_qvars => [KeptThenBack!Next]_<<Place, FALSE>>
    <2> SUFFICES ASSUME QInv, [QNext]_qvars, Place' # Place PROVE KeptThenBack!Next
      OBVIOUS
    <2>1. \/ \E e \in Entries : /\ Place[e] = "netfilter"
                                /\ \/ Place' = [Place EXCEPT ![e] = "handler"]
                                   \/ Place' = [Place EXCEPT ![e] = "lost"]
          \/ \E e \in Entries : Place[e] = "handler" /\ Place' = [Place EXCEPT ![e] = "back"]
      BY PassesOne
    <2> QED  BY <2>1 DEF KeptThenBack!Next, KeptThenBack!Keep, KeptThenBack!Lose, KeptThenBack!FeedBack,
                        KeptThenBack!Pass
  <1> QED  BY <1>1, <1>2, QueueInvariant, PTL DEF QSpec, BackOnce, KeptThenBack!Spec

-----------------------------------------------------------------------------
(* The order in which packets are taken.                                   *)

\* Every entry comes once; what came waits in the list or was taken, never
\* both; what waits stands in the list in the order in which it came.
Order ==
    /\ \A i, j \in DOMAIN came : came[i] = came[j] => i = j
    /\ \A i \in DOMAIN came : fate[came[i]] \notin {"new", "entering"}
    /\ \A i \in DOMAIN came : \/ \E a \in DOMAIN q_list : q_list[a] = came[i]
                              \/ \E l \in DOMAIN taken : taken[l] = came[i]
    /\ \A a \in DOMAIN q_list : \E i \in DOMAIN came : came[i] = q_list[a]
    /\ \A l \in DOMAIN taken, a \in DOMAIN q_list : taken[l] # q_list[a]
    /\ \A l \in DOMAIN taken : \E i \in DOMAIN came : came[i] = taken[l]
    /\ \A a, b \in DOMAIN q_list, i, j \in DOMAIN came :
         a < b /\ q_list[a] = came[i] /\ q_list[b] = came[j] => i < j

\* Steps that move no entry keep the order.
LEMMA OrderAlone ==
    ASSUME Order, TakenInOrder, QTypeOK, UNCHANGED <<q_list, came, taken>>,
           \A e \in Entries : fate'[e] \in {"new", "entering"} => fate[e] \in {"new", "entering"}
    PROVE  Order' /\ TakenInOrder'
  <1>1. \A i \in DOMAIN came : came[i] \in Entries
    BY DEF QTypeOK
  <1>2. TakenInOrder'
    BY DEF TakenInOrder, SameFlow, ip_cmp
  <1>3. Order'
    BY <1>1 DEF Order
  <1> QED  BY <1>2, <1>3

\* Appending to a list.
LEMMA Appended ==
    ASSUME NEW s \in Seq(Entries), NEW e \in Entries
    PROVE  /\ DOMAIN Append(s, e) = 1 .. Len(s) + 1 /\ DOMAIN s = 1 .. Len(s) /\ Len(s) \in Nat
           /\ \A i \in DOMAIN s : i \in DOMAIN Append(s, e) /\ i < Len(s) + 1 /\ Append(s, e)[i] = s[i]
           /\ \A i \in DOMAIN Append(s, e) : i \in DOMAIN s \/ i = Len(s) + 1
           /\ Append(s, e)[Len(s) + 1] = e /\ Len(s) + 1 \in DOMAIN Append(s, e)
  OBVIOUS

\* ipq_enqueue puts an entry that has not been there before at the end of
\* both.
LEMMA EnqueueOrder ==
    ASSUME QInv, Order, TakenInOrder, NEW e \in Entries, ipq_enqueue(e)
    PROVE  Order' /\ TakenInOrder'
  <1>1. CASE Full
    <2>1. \A x \in Entries : fate'[x] \in {"new", "entering"} => fate[x] \in {"new", "entering"}
      BY <1>1 DEF ipq_enqueue, QInv, QTypeOK
    <2> QED  BY <1>1, <2>1, OrderAlone DEF ipq_enqueue, QInv
  <1>2. CASE ~Full
    <2> DEFINE n == Len(came) + 1
               m == Len(q_list) + 1
    <2>1. /\ fate' = [fate EXCEPT ![e] = "queued"] /\ fate[e] = "entering"
          /\ q_list' = Append(q_list, e) /\ came' = Append(came, e) /\ taken' = taken
      BY <1>2 DEF ipq_enqueue
    <2>2. q_list \in Seq(Entries) /\ came \in Seq(Entries) /\ taken \in Seq(Entries)
      BY DEF QInv, QTypeOK
    <2>3. /\ \A i \in DOMAIN came : i \in DOMAIN came' /\ i < n /\ came'[i] = came[i]
          /\ \A i \in DOMAIN came' : i \in DOMAIN came \/ i = n
          /\ n \in DOMAIN came' /\ came'[n] = e
          /\ DOMAIN came' = 1 .. n /\ n \in Nat /\ DOMAIN came = 1 .. n - 1
      BY <2>1, <2>2, Appended
    <2>4. /\ \A i \in DOMAIN q_list : i \in DOMAIN q_list' /\ i < m /\ q_list'[i] = q_list[i]
          /\ \A i \in DOMAIN q_list' : i \in DOMAIN q_list \/ i = m
          /\ m \in DOMAIN q_list' /\ q_list'[m] = e
          /\ DOMAIN q_list' = 1 .. m /\ m \in Nat /\ DOMAIN q_list = 1 .. m - 1
      BY <2>1, <2>2, Appended
    <2> HIDE DEF n, m
    <2>5. \A i \in DOMAIN came : came[i] # e /\ came[i] \in Entries
      BY <2>1, <2>2 DEF Order
    <2>6. /\ \A a \in DOMAIN q_list : q_list[a] # e
          /\ \A l \in DOMAIN taken : taken[l] # e
      BY <2>5 DEF Order
    <2>7. /\ \A i, j \in DOMAIN came' : came'[i] = came'[j] => i = j
          /\ \A i \in DOMAIN came' : fate'[came'[i]] \notin {"new", "entering"}
      BY <2>1, <2>3, <2>5 DEF Order, QInv, QTypeOK
    <2>8. \A i \in DOMAIN came' : \/ \E a \in DOMAIN q_list' : q_list'[a] = came'[i]
                                  \/ \E l \in DOMAIN taken' : taken'[l] = came'[i]
      BY <2>1, <2>3, <2>4 DEF Order
    <2>9. /\ \A a \in DOMAIN q_list' : \E i \in DOMAIN came' : came'[i] = q_list'[a]
          /\ \A l \in DOMAIN taken', a \in DOMAIN q_list' : taken'[l] # q_list'[a]
          /\ \A l \in DOMAIN taken' : \E i \in DOMAIN came' : came'[i] = taken'[l]
      BY <2>1, <2>3, <2>4, <2>6 DEF Order
    <2>10. ASSUME NEW a \in DOMAIN q_list', NEW b \in DOMAIN q_list',
                  NEW i \in DOMAIN came', NEW j \in DOMAIN came',
                  a < b, q_list'[a] = came'[i], q_list'[b] = came'[j]
           PROVE  i < j
      <3>1. a \in DOMAIN q_list /\ q_list'[a] = q_list[a]
        BY <2>4, <2>10
      <3>2. i \in DOMAIN came /\ came'[i] = came[i]
        BY <2>3, <2>6, <2>10, <3>1
      <3>3. CASE b = m
        <4>1. j = n
          BY <2>3, <2>4, <2>5, <2>10, <3>3
        <4> QED  BY <2>3, <3>2, <4>1
      <3>4. CASE b \in DOMAIN q_list
        <4>1. j \in DOMAIN came /\ came'[j] = came[j]
          BY <2>3, <2>4, <2>6, <2>10, <3>4
        <4>2. q_list[a] = came[i] /\ q_list[b] = came[j]
          BY <2>4, <2>10, <3>1, <3>2, <3>4, <4>1
        <4> QED  BY <2>10, <3>1, <3>2, <3>4, <4>1, <4>2 DEF Order
      <3> QED  BY <2>4, <3>3, <3>4
    <2>11. TakenInOrder'
      <3> SUFFICES ASSUME NEW i \in DOMAIN came', NEW j \in DOMAIN came', NEW l \in DOMAIN taken,
                          i < j, SameFlow(came'[i], came'[j]), taken[l] = came'[j]
                   PROVE  \E k \in 1 .. l - 1 : taken[k] = came'[i]
        BY <2>1 DEF TakenInOrder, SameFlow, ip_cmp
      <3>1. j \in DOMAIN came /\ came'[j] = came[j]
        BY <2>3, <2>6
      <3>2. i \in DOMAIN came /\ came'[i] = came[i]
        BY <2>3, <3>1
      <3> QED  BY <3>1, <3>2 DEF TakenInOrder
    <2> QED  BY <2>7, <2>8, <2>9, <2>10, <2>11 DEF Order
  <1> QED  BY <1>1, <1>2

\* ipq_dequeue takes the first entry that matches: one of the same flow in
\* front of it would match, too.
LEMMA DequeueOrder ==
    ASSUME QInv, Order, TakenInOrder, NEW c \in Drainers, ipq_dequeue(c)
    PROVE  Order' /\ TakenInOrder'
  <1>1. PICK p \in Found(c) :
            /\ \A q \in Found(c) : p <= q
            /\ q_list' = list_del(q_list, p)
            /\ taken' = Append(taken, q_list[p])
    BY DEF ipq_dequeue, First
  <1> DEFINE x == q_list[p]
             n == Len(taken) + 1
             At(a) == IF a < p THEN a ELSE a + 1
  <1>2. /\ UNCHANGED <<fate, came>>
        /\ q_list \in Seq(Entries) /\ came \in Seq(Entries) /\ taken \in Seq(Entries)
        /\ p \in 1 .. Len(q_list) /\ DOMAIN q_list = 1 .. Len(q_list) /\ Len(q_list) \in Nat
        /\ DOMAIN came = 1 .. Len(came) /\ x \in Entries
    BY DEF ipq_dequeue, QInv, QTypeOK, Found
  <1>3. /\ \A l \in DOMAIN taken : l \in DOMAIN taken' /\ l < n /\ taken'[l] = taken[l]
        /\ \A l \in DOMAIN taken' : l \in DOMAIN taken \/ l = n
        /\ n \in DOMAIN taken' /\ taken'[n] = x
        /\ DOMAIN taken' = 1 .. n /\ n \in Nat /\ DOMAIN taken = 1 .. n - 1
    BY <1>1, <1>2, Appended
  <1>4. /\ DOMAIN q_list' = 1 .. Len(q_list) - 1
        /\ \A a \in DOMAIN q_list' : q_list'[a] = q_list[At(a)]
    <2> DEFINE t == list_del(q_list, p)
    <2>1. /\ t \in Seq(Entries) /\ Len(t) = Len(q_list) - 1
          /\ \A j \in 1 .. Len(q_list) - 1 : t[j] = IF j < p THEN q_list[j] ELSE q_list[j + 1]
      BY <1>2, ListDel
    <2>2. q_list' = t
      BY <1>1
    <2> HIDE DEF t
    <2> QED  BY <2>1, <2>2
  <1>5. /\ \A a \in DOMAIN q_list' : At(a) \in DOMAIN q_list
        /\ \A a, b \in DOMAIN q_list' : a < b => At(a) < At(b)
    BY <1>2, <1>4
  <1>6. \A e : (\E a \in DOMAIN q_list' : q_list'[a] = e)
               <=> (\E a \in DOMAIN q_list : q_list[a] = e) /\ e # x
    <2> DEFINE t == list_del(q_list, p)
    <2>1. \A a, b \in DOMAIN q_list : q_list[a] = q_list[b] => a = b
      BY DEF QInv, HeldOnce
    <2>2. \A e : (\E a \in DOMAIN t : t[a] = e) <=> (\E a \in DOMAIN q_list : q_list[a] = e) /\ e # x
      BY <1>2, <2>1, ListDelRest
    <2>3. q_list' = t
      BY <1>1
    <2> HIDE DEF t
    <2> QED  BY <2>2, <2>3
  <1> HIDE DEF n, At
  <1>7. \A l \in DOMAIN taken, a \in DOMAIN q_list : taken[l] # q_list[a]
    BY DEF Order
  <1>8. /\ \A i, j \in DOMAIN came' : came'[i] = came'[j] => i = j
        /\ \A i \in DOMAIN came' : fate'[came'[i]] \notin {"new", "entering"}
    BY <1>2 DEF Order
  <1>9. \A i \in DOMAIN came' : \/ \E a \in DOMAIN q_list' : q_list'[a] = came'[i]
                                \/ \E l \in DOMAIN taken' : taken'[l] = came'[i]
    <2> SUFFICES ASSUME NEW i \in DOMAIN came
                 PROVE  \/ \E a \in DOMAIN q_list' : q_list'[a] = came[i]
                        \/ \E l \in DOMAIN taken' : taken'[l] = came[i]
      BY <1>2
    <2>1. CASE came[i] = x
      BY <1>3, <2>1
    <2>2. CASE came[i] # x /\ \E a \in DOMAIN q_list : q_list[a] = came[i]
      BY <1>6, <2>2
    <2>3. CASE \E l \in DOMAIN taken : taken[l] = came[i]
      BY <1>3, <2>3
    <2> QED  BY <2>1, <2>2, <2>3 DEF Order
  <1>10. \A a \in DOMAIN q_list' : \E i \in DOMAIN came' : came'[i] = q_list'[a]
    BY <1>2, <1>4, <1>5 DEF Order
  <1>11. \A l \in DOMAIN taken', a \in DOMAIN q_list' : taken'[l] # q_list'[a]
    <2> SUFFICES ASSUME NEW l \in DOMAIN taken', NEW a \in DOMAIN q_list' PROVE taken'[l] # q_list'[a]
      OBVIOUS
    <2>1. q_list'[a] # x
      BY <1>6
    <2>2. q_list'[a] = q_list[At(a)] /\ At(a) \in DOMAIN q_list
      BY <1>4, <1>5
    <2> QED  BY <1>3, <1>7, <2>1, <2>2
  <1>12. \A l \in DOMAIN taken' : \E i \in DOMAIN came' : came'[i] = taken'[l]
    <2>1. \E i \in DOMAIN came : came[i] = x
      BY <1>2 DEF Order
    <2> QED  BY <1>2, <1>3, <2>1 DEF Order
  <1>13. \A a, b \in DOMAIN q_list', i, j \in DOMAIN came' :
           a < b /\ q_list'[a] = came'[i] /\ q_list'[b] = came'[j] => i < j
    BY <1>2, <1>4, <1>5 DEF Order
  <1>14. TakenInOrder'
    <2> SUFFICES ASSUME NEW i \in DOMAIN came, NEW j \in DOMAIN came, NEW l \in DOMAIN taken',
                        i < j, SameFlow(came[i], came[j]), taken'[l] = came[j]
                 PROVE  \E k \in 1 .. l - 1 : taken'[k] = came[i]
      BY <1>2 DEF TakenInOrder, SameFlow, ip_cmp
    <2>1. CASE l \in DOMAIN taken
      <3>1. PICK k \in 1 .. l - 1 : taken[k] = came[i]
        BY <1>3, <2>1 DEF TakenInOrder
      <3>2. k \in DOMAIN taken
        BY <1>3, <2>1
      <3> QED  BY <1>3, <3>1, <3>2
    <2>2. CASE l = n
      <3>1. came[j] = x
        BY <1>3, <2>2
      <3>2. ASSUME NEW a \in DOMAIN q_list, q_list[a] = came[i]
            PROVE  FALSE
        <4>1. a < p
          <5>1. a # p
            BY <1>2, <3>1, <3>2 DEF Order
          <5>2. ~(p < a)
            <6>1. p < a => j < i
              BY <1>2, <3>1, <3>2 DEF Order
            <6> QED  BY <1>2, <6>1
          <5> QED  BY <1>2, <5>1, <5>2
        <4>2. Matches(c, x)
          BY <1>1 DEF Found
        <4>3. Matches(c, q_list[a])
          BY <3>1, <3>2, <4>2 DEF Matches, SameFlow, ip_cmp
        <4>4. a \in Found(c)
          BY <4>3 DEF Found
        <4> QED  BY <1>1, <1>2, <4>1, <4>4
      <3>3. PICK k \in DOMAIN taken : taken[k] = came[i]
        BY <3>2 DEF Order
      <3> QED  BY <1>3, <2>2, <3>3
    <2> QED  BY <1>3, <2>1, <2>2
  <1> QED  BY <1>8, <1>9, <1>10, <1>11, <1>12, <1>13, <1>14 DEF Order

\* The other steps move no entry; nf_reinject gives it a fate, not back to
\* netfilter.
LEMMA StepOrder ==
    ASSUME QInv, Order, TakenInOrder, [QNext]_qvars
    PROVE  Order' /\ TakenInOrder'
  <1>1. QTypeOK
    BY DEF QInv
  <1>2. ASSUME NEW e \in Entries, netfilter_receive(e)
        PROVE  Order' /\ TakenInOrder'
    <2>1. \A x \in Entries : fate'[x] \in {"new", "entering"} => fate[x] \in {"new", "entering"}
      BY <1>1, <1>2 DEF netfilter_receive, QTypeOK
    <2> QED  BY <1>1, <1>2, <2>1, OrderAlone DEF netfilter_receive
  <1>3. ASSUME NEW c \in Drainers, nf_reinject(c)
        PROVE  Order' /\ TakenInOrder'
    <2>1. /\ drain[c].e \in Entries
          /\ fate' = [fate EXCEPT ![drain[c].e] = CASE @ # "queued" -> "corrupt"
                                                   [] drain[c].op = "send" -> "accepted"
                                                   [] OTHER -> "dropped"]
      BY <1>1, <1>3 DEF nf_reinject, QTypeOK
    <2>2. \A x \in Entries : fate'[x] \in {"new", "entering"} => fate[x] \in {"new", "entering"}
      BY <1>1, <2>1 DEF QTypeOK
    <2> QED  BY <1>1, <1>3, <2>2, OrderAlone DEF nf_reinject
  <1>4. ASSUME UNCHANGED <<q_list, came, taken, fate>>
        PROVE  Order' /\ TakenInOrder'
    BY <1>1, <1>4, OrderAlone
  <1>5. ASSUME NEW e \in Entries, ipq_enqueue_return(e) PROVE UNCHANGED <<q_list, came, taken, fate>>
    BY <1>5 DEF ipq_enqueue_return
  <1>6. ASSUME NEW c \in Contexts, NEW d \in Ips, ipq_send_ip(c, d) \/ ipq_drop_ip(c, d)
        PROVE  UNCHANGED <<q_list, came, taken, fate>>
    BY <1>6 DEF ipq_send_ip, ipq_drop_ip
  <1>7. ASSUME NEW c \in Drainers, ipq_drained(c) PROVE UNCHANGED <<q_list, came, taken, fate>>
    BY <1>7 DEF ipq_drained
  <1>8. ASSUME ipq_destroy_queue PROVE UNCHANGED <<q_list, came, taken, fate>>
    BY <1>8 DEF ipq_destroy_queue, nf_unregister_queue_handler, ipq_terminate, ipq_flush, ipq_flushed, kfree_q
  <1>9. ASSUME UNCHANGED qvars PROVE UNCHANGED <<q_list, came, taken, fate>>
    BY <1>9 DEF qvars
  <1> QED
    BY <1>2, <1>3, <1>4, <1>5, <1>6, <1>7, <1>8, <1>9, EnqueueOrder, DequeueOrder DEF QNext

\* ipq_dequeue hands out the packets of a flow in the order in which
\* ipq_enqueue took them, whatever the contexts that drain the list.
THEOREM FlowsInOrder == QSpec => []TakenInOrder
  <1>1. QInit => Order /\ TakenInOrder
    BY DEF QInit, ipq_create_queue, Order, TakenInOrder
  <1>2. QInv /\ Order /\ TakenInOrder /\ [QNext]_qvars => Order' /\ TakenInOrder'
    BY StepOrder
  <1> QED  BY <1>1, <1>2, QueueInvariant, PTL DEF QSpec
=============================================================================
