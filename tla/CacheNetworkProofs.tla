------------------------- MODULE CacheNetworkProofs -------------------------
(***************************************************************************)
(* Proofs about the network of caching daemons of CacheNetwork, for every  *)
(* set of nodes, every topology and routing, every set of files and        *)
(* fragments and every k, buffer size, threshold and content of the nodes' *)
(* stores.                                                                 *)
(***************************************************************************)
EXTENDS CacheNetwork, FragmentListProofs, SublistProofs, FunctionTheorems

-----------------------------------------------------------------------------
(* Bags.                                                                   *)

\* The bag of a set has the members of the set.
LEMMA BagOfSet ==
    ASSUME NEW S
    PROVE  IsABag(SetToBag(S)) /\ DOMAIN SetToBag(S) = S
  BY DEF IsABag, SetToBag

\* A union of bags has the members of both.
LEMMA BagPlus ==
    ASSUME NEW B, NEW C, IsABag(B), IsABag(C)
    PROVE  IsABag(B (+) C) /\ DOMAIN (B (+) C) = DOMAIN B \cup DOMAIN C
  BY DEF IsABag, (+)

\* Taking copies out of a bag leaves a bag and adds no member.
LEMMA BagMinus ==
    ASSUME NEW B, NEW C, IsABag(B), IsABag(C)
    PROVE  IsABag(B (-) C) /\ DOMAIN (B (-) C) \subseteq DOMAIN B
  BY DEF IsABag, (-)

\* So does dropping the members a node held.
LEMMA BagElsewhere ==
    ASSUME NEW B, NEW S, IsABag(B)
    PROVE  IsABag(Elsewhere(B, S)) /\ DOMAIN Elsewhere(B, S) \subseteq DOMAIN B
  BY DEF IsABag, Elsewhere

\* One more copy of t in a bag of members of S.
LEMMA BagInsert ==
    ASSUME NEW B, NEW S, NEW t \in S, IsABag(B), DOMAIN B \subseteq S
    PROVE  IsABag(Inserted(B, t)) /\ DOMAIN Inserted(B, t) \subseteq S
  <1>1. IsABag(SetToBag({t})) /\ DOMAIN SetToBag({t}) = {t}
    BY BagOfSet
  <1>2. IsABag(B (+) SetToBag({t})) /\ DOMAIN (B (+) SetToBag({t})) = DOMAIN B \cup {t}
    BY <1>1, BagPlus
  <1> QED
    BY <1>2 DEF Inserted

\* One copy of t less.
LEMMA BagTake ==
    ASSUME NEW B, NEW S, NEW t, IsABag(B), DOMAIN B \subseteq S
    PROVE  IsABag(Taken(B, t)) /\ DOMAIN Taken(B, t) \subseteq S
  <1>1. IsABag(SetToBag({t}))
    BY BagOfSet
  <1>2. IsABag(B (-) SetToBag({t})) /\ DOMAIN (B (-) SetToBag({t})) \subseteq DOMAIN B
    BY <1>1, BagMinus
  <1> QED
    BY <1>2 DEF Taken

\* What is on the air after messages are sent.
LEMMA SendTypes ==
    ASSUME IsABag(net), DOMAIN net \subseteq Message, NEW S \in SUBSET Message, Send(S)
    PROVE  IsABag(net') /\ DOMAIN net' \subseteq Message
  <1>1. IsABag(net (+) SetToBag(S)) /\ DOMAIN (net (+) SetToBag(S)) = DOMAIN net \cup S
    BY BagOfSet, BagPlus
  <1>2. net' = net (+) SetToBag(S)
    BY DEF Send
  <1> QED
    BY <1>1, <1>2

\* What is on the air after one message is received and others are sent.
LEMMA DeliverTypes ==
    ASSUME IsABag(net), DOMAIN net \subseteq Message, NEW S \in SUBSET Message, NEW m, Deliver(m, S)
    PROVE  IsABag(net') /\ DOMAIN net' \subseteq Message
  <1> DEFINE B == net (-) SetToBag({m})
  <1>1. IsABag(B) /\ DOMAIN B \subseteq DOMAIN net
    BY BagOfSet, BagMinus
  <1> HIDE DEF B
  <1>2. IsABag(B (+) SetToBag(S)) /\ DOMAIN (B (+) SetToBag(S)) = DOMAIN B \cup S
    BY <1>1, BagOfSet, BagPlus
  <1>3. net' = B (+) SetToBag(S)
    BY DEF Deliver, B
  <1> QED
    BY <1>1, <1>2, <1>3

-----------------------------------------------------------------------------
(* Messages.                                                               *)

\* What a handler may assume of a message of the type it handles.
LEMMA MessageFields ==
    ASSUME NEW m \in Message
    PROVE  /\ m.to \in Nodes /\ m.file \in Files
           /\ m.type = "flreq" => /\ m.src \in Nodes /\ m.seq \in 1 .. Len(Asks)
                                  /\ m.metric \in Nat /\ m.ttl \in Nat
           /\ m.type = "flrep" => m.src \in Nodes /\ m.dist \in Nat /\ m.frags \in Offers
           /\ m.type \in {"ori", "fwd"} => m \in FragmentRequest
           /\ m.type = "exreq" => m.src \in Nodes /\ m.dst \in Nodes /\ m.frag \in Frags
           /\ m.type = "exrep" => /\ m.ip \in Nodes /\ m.src \in Nodes /\ m.frag \in Frags
                                  /\ m.score \in 0 .. U32 - 1
           /\ m.type = "addcache" => m.ip \in Nodes /\ m.dst \in Nodes /\ m.frag \in Frags
  BY DEF Message, FragmentRequest

\* A message that travels on is still a message.
LEMMA Readdressed ==
    ASSUME NEW m \in Message, NEW x \in Nodes
    PROVE  [m EXCEPT !.to = x] \in Message
  BY DEF Message, FragmentRequest

\* So is a fragment request one hop further.
LEMMA ForwardTypes ==
    ASSUME NEW n \in Nodes, NEW m \in FragmentRequest
    PROVE  Forward(n, m) \in SUBSET FragmentRequest
  <1>1. Route[n][m.dst] \in Nodes
    BY NodesAssumption DEF FragmentRequest
  <1>2. ASSUME ~(m.ttl <= 1)
        PROVE  [m EXCEPT !.to = Route[n][m.dst], !.ttl = @ - 1] \in FragmentRequest
    <2>1. m.ttl - 1 \in Nat \ {0}
      BY <1>2 DEF FragmentRequest
    <2> QED
      BY <1>1, <2>1 DEF FragmentRequest
  <1> QED
    BY <1>2 DEF Forward

\* A broadcast is a set of messages.
LEMMA BroadcastTypes ==
    ASSUME NEW n \in Nodes, NEW ttl, NEW m \in Message
    PROVE  local_broadcast(n, ttl, m) \in SUBSET Message
  <1>1. Neigh[n] \in SUBSET Nodes
    BY NodesAssumption
  <1> QED
    BY <1>1, Readdressed DEF local_broadcast

\* A message that is sent, or kept back for its ttl.
LEMMA SentTypes ==
    ASSUME NEW ttl, NEW m \in Message
    PROVE  send_message(ttl, m) \in SUBSET Message
  BY DEF send_message

\* The messages the handlers make.
LEMMA FlreqType ==
    ASSUME NEW to \in Nodes, NEW src \in Nodes, NEW f \in Files, NEW s \in 1 .. Len(Asks),
           NEW metric \in Nat, NEW ttl \in Nat
    PROVE  Flreq(to, src, f, s, metric, ttl) \in Message
  BY DEF Flreq, Message

\* A file reply.
LEMMA FlrepType ==
    ASSUME NEW src \in Nodes, NEW dst \in Nodes, NEW f \in Files, NEW dist \in Nat,
           NEW frags \in Offers
    PROVE  Flrep(src, dst, f, dist, frags) \in Message
  BY DEF Flrep, Message

\* A fragment request.
LEMMA FrreqType ==
    ASSUME NEW type \in {"ori", "fwd"}, NEW at \in Nodes, NEW src \in Nodes, NEW dst \in Nodes,
           NEW f \in Files, NEW g \in Frags, NEW ttl \in Nat \ {0}
    PROVE  /\ Frreq(type, at, src, dst, f, g, ttl) \in FragmentRequest
           /\ Frreq(type, at, src, dst, f, g, ttl) \in Message
  BY DEF Frreq, FragmentRequest, Message

\* A question to the neighbours.
LEMMA ExreqType ==
    ASSUME NEW to \in Nodes, NEW src \in Nodes, NEW dst \in Nodes, NEW f \in Files, NEW g \in Frags
    PROVE  Exreq(to, src, dst, f, g) \in Message
  BY DEF Exreq, Message

\* A bid.
LEMMA ExrepType ==
    ASSUME NEW at \in Nodes, NEW ip \in Nodes, NEW src \in Nodes, NEW f \in Files, NEW g \in Frags,
           NEW score \in 0 .. U32 - 1
    PROVE  Exrep(at, ip, src, f, g, score) \in Message
  BY DEF Exrep, Message

\* The fragment pushed to the best bidder.
LEMMA AddcacheType ==
    ASSUME NEW at \in Nodes, NEW ip \in Nodes, NEW dst \in Nodes, NEW f \in Files, NEW g \in Frags
    PROVE  Addcache(at, ip, dst, f, g) \in Message
  BY DEF Addcache, Message

\* A timer of the exchange is the one kind that names a fragment.
LEMMA TimerFields ==
    ASSUME NEW t \in Timer
    PROVE  /\ t.node \in Nodes /\ t.file \in Files
           /\ t.type = "ADD_CACHE_SEND" => t.dst \in Nodes /\ t.frag \in Frags
  BY DEF Timer

\* The two kinds of timers.
LEMMA TimerTypes ==
    ASSUME NEW n \in Nodes, NEW f \in Files
    PROVE  /\ FragReqSend(n, f) \in Timer
           /\ \A d \in Nodes, g \in Frags : AddCacheSend(n, d, f, g) \in Timer
  BY DEF FragReqSend, AddCacheSend, Timer

-----------------------------------------------------------------------------
(* What the handlers compute from the lists.                               *)

\* A node counts at most KVAL entries of a file as its own.
LEMMA OwnCount ==
    ASSUME NEW t \in Seq(Entry), NEW f \in Files
    PROVE  /\ Own(t, f) \in SUBSET (DOMAIN t)
           /\ Cardinality(Own(t, f)) \in Nat
           /\ Cardinality(Own(t, f)) <= KVAL
  <1> DEFINE P == Positions(t, f)
             O == Own(t, f)
             T == 0 .. KVAL - 1
             h == [i \in O |-> Rank(P, i)]
  <1>1. Len(t) \in Nat /\ DOMAIN t = 1 .. Len(t)
    OBVIOUS
  <1>2. P \in SUBSET (1 .. Len(t)) /\ O \in SUBSET (1 .. Len(t)) /\ O \in SUBSET P
    BY <1>1 DEF Positions, Own
  <1>3. Cardinality(O) \in Nat
    BY <1>1, <1>2, PositionsCount
  <1>4. \A i \in P : Rank(P, i) \in Nat
    <2> SUFFICES ASSUME NEW i \in P
                 PROVE  Rank(P, i) \in Nat
      OBVIOUS
    <2>1. Rank(P, i) \in 0 .. Cardinality(P) - 1
      BY <1>1, <1>2, RankOrder
    <2> QED
      BY <2>1
  <1>5. \A i \in O : Rank(P, i) \in T
    <2>1. \A i \in O : i \in P /\ Rank(P, i) < KVAL
      BY DEF Own, Rank
    <2> QED
      BY <1>4, <2>1, KvalAssumption
  <1>6. ASSUME NEW i \in O, NEW j \in O, Rank(P, i) = Rank(P, j)
        PROVE  i = j
    <2>1. i \in P /\ j \in P /\ i \in Int /\ j \in Int
      BY <1>2
    <2>2. /\ i < j => Rank(P, i) < Rank(P, j)
          /\ j < i => Rank(P, j) < Rank(P, i)
      BY <1>1, <1>2, <2>1, RankOrder
    <2> QED
      BY <1>4, <1>6, <2>1, <2>2
  <1>7. IsFiniteSet(T) /\ Cardinality(T) = KVAL
    <2>1. /\ IsFiniteSet(0 .. KVAL - 1)
          /\ Cardinality(0 .. KVAL - 1) = IF 0 > KVAL - 1 THEN 0 ELSE KVAL - 1 - 0 + 1
      BY KvalAssumption, FS_Interval
    <2> QED
      BY <2>1, KvalAssumption
  <1> HIDE DEF P, O, T
  <1>8. h \in Injection(O, T)
    BY <1>5, <1>6 DEF Injection, IsInjective
  <1>9. Cardinality(O) <= KVAL
    BY <1>7, <1>8, FS_Injection
  <1> QED
    BY <1>1, <1>2, <1>3, <1>9 DEF O

\* A reply lists at most KVAL fragments.
LEMMA ReplyTypes ==
    ASSUME TypeOK, NEW n \in Nodes, NEW f \in Files
    PROVE  /\ ReplyFrags(n, f) \in Seq(Frags)
           /\ Len(ReplyFrags(n, f)) \in 0 .. KVAL
           /\ ReplyFrags(n, f) # <<>> => ReplyFrags(n, f) \in Offers
           /\ OwnFrags(n, f) \in SUBSET Frags
  <1> DEFINE t == ctable[n]
             own == Kept(t, Own(t, f))
  <1>1. t \in Seq(Entry)
    BY DEF TypeOK
  <1>4. ReplyFrags(n, f) = [k \in DOMAIN own |-> own[k].frag]
    BY Zenon DEF ReplyFrags
  <1> HIDE DEF t
  <1>2. /\ Own(t, f) \in SUBSET (DOMAIN t)
        /\ Cardinality(Own(t, f)) \in Nat
        /\ Cardinality(Own(t, f)) <= KVAL
    BY <1>1, OwnCount
  <1>3. own \in Seq(Entry) /\ Len(own) = Cardinality(Own(t, f))
    BY <1>1, <1>2, KeptEntries
  <1> HIDE DEF own
  <1>5. \A k \in DOMAIN own : own[k].frag \in Frags
    <2>1. \A k \in DOMAIN own : own[k] \in Entry
      BY <1>3
    <2> QED
      BY <2>1 DEF Entry
  <1>6. DOMAIN own = 1 .. Len(own) /\ Len(own) \in 0 .. KVAL
    BY <1>2, <1>3, KvalAssumption
  <1>7. ReplyFrags(n, f) \in [1 .. Len(own) -> Frags]
    BY <1>4, <1>5, <1>6
  <1>8. ReplyFrags(n, f) \in Seq(Frags) /\ Len(ReplyFrags(n, f)) = Len(own)
    BY <1>6, <1>7, SeqByIndex
  <1>9. ReplyFrags(n, f) # <<>> => Len(ReplyFrags(n, f)) # 0
    BY <1>8
  <1> QED
    BY <1>6, <1>8, <1>9 DEF Offers, OwnFrags

\* The scores that are sent fit a u_int32_t.
LEMMA ScoreType ==
    ASSUME TypeOK, NEW n \in Nodes, NEW f, NEW g
    PROVE  Score(n, f, g) \in 0 .. U32 - 1
  <1>1. ct_len[n] \in Nat
    BY DEF TypeOK
  <1>2. BUF_SIZE - ct_len[n] + 1 \in Int
    BY <1>1, BufAssumption
  <1>3. (BUF_SIZE - ct_len[n] + 1) % U32 \in 0 .. U32 - 1 /\ 0 \in 0 .. U32 - 1
    BY <1>2, U32Assumption
  <1> QED
    BY <1>3 DEF Score, getScore

\* So do the counts of a request list.
LEMMA CountType ==
    ASSUME TypeOK, NEW n \in Nodes, NEW f \in Files, NEW g \in Frags
    PROVE  Count(n, f, g) \in 0 .. U32 - 1
  <1> DEFINE c == crlist[n][f, g]
  <1>1. c \in NoCreq .. U32 - 1
    <2>1. crlist[n] \in [Pairs -> NoCreq .. U32 - 1] /\ <<f, g>> \in Pairs
      BY DEF TypeOK, Pairs
    <2> QED
      BY <2>1, Zenon
  <1> HIDE DEF c
  <1>2. (c + 1) % U32 \in 0 .. U32 - 1
    <2>1. c + 1 \in Int
      BY <1>1 DEF NoCreq
    <2> QED
      BY <2>1, U32Assumption
  <1>3. 0 \in 0 .. U32 - 1 /\ 1 \in 0 .. U32 - 1
    BY ParamsAssumption, U32Assumption
  <1> QED
    BY <1>2, <1>3 DEF Count, c

\* What the replies at hand offer.
LEMMA OfferTypes ==
    ASSUME TypeOK, NEW n \in Nodes, NEW f \in Files
    PROVE  /\ Replies(n, f) \in SUBSET Nat
           /\ \A i \in Replies(n, f) : /\ rinfo[n][i] \in Reply
                                       /\ Offered(n, i) \in SUBSET Frags
           /\ NewFrags(n, f) \in SUBSET Frags
           /\ Chosen(n, f) \in SUBSET NewFrags(n, f)
  <1>1. rinfo[n] \in Seq(Reply)
    BY DEF TypeOK
  <1>2. \A i \in Replies(n, f) : i \in Nat /\ rinfo[n][i] \in Reply
    BY <1>1 DEF Replies
  <1>3. ASSUME NEW i \in Replies(n, f)
        PROVE  Offered(n, i) \in SUBSET Frags
    <2>1. rinfo[n][i].frags \in Seq(Frags)
      BY <1>2 DEF Reply, Offers
    <2> QED
      BY <2>1 DEF Offered
  <1>4. NewFrags(n, f) \in SUBSET Frags
    BY <1>3 DEF NewFrags
  <1>5. Chosen(n, f) \in SUBSET NewFrags(n, f)
    BY DEF Chosen
  <1> QED
    BY <1>2, <1>3, <1>4, <1>5

\* Every fragment that is offered has a nearest reply to take it from.
LEMMA ProviderIsReply ==
    ASSUME TypeOK, NEW n \in Nodes, NEW f \in Files, NEW g \in NewFrags(n, f)
    PROVE  /\ Provider(n, f, g) \in Replies(n, f) /\ g \in Offered(n, Provider(n, f, g))
           /\ rinfo[n][Provider(n, f, g)].dst \in Nodes
  <1> DEFINE R == {i \in Replies(n, f) : g \in Offered(n, i)}
             dist(i) == rinfo[n][i].dist
             D == {dist(i) : i \in R}
  <1>1. R # {}
    BY DEF NewFrags
  <1>2. \A i \in R : i \in Nat /\ dist(i) \in Nat
    BY OfferTypes DEF Reply
  <1>3. D \in SUBSET Nat /\ D # {}
    BY <1>1, <1>2
  <1>4. PICK d \in D : \A e \in D : d <= e
    BY <1>3, LeastNat
  <1> DEFINE N == {i \in R : dist(i) = d}
  <1>5. N \in SUBSET Nat /\ N # {}
    BY <1>2
  <1> HIDE DEF N
  <1>6. PICK i \in N : \A j \in N : i <= j
    BY <1>5, LeastNat
  <1>7. i \in R /\ dist(i) = d
    BY DEF N
  <1>8. ASSUME NEW j \in R
        PROVE  i = j \/ Nearer(n, i, j)
    <2>1. d <= dist(j) /\ dist(j) \in Nat /\ d \in Nat /\ i \in Nat /\ j \in Nat
      BY <1>2, <1>4, <1>7
    <2>2. dist(j) = d => i <= j
      BY <1>6 DEF N
    <2> QED
      BY <1>7, <2>1, <2>2 DEF Nearer
  <1>9. \E x \in Replies(n, f) :
            /\ g \in Offered(n, x)
            /\ \A j \in Replies(n, f) : g \in Offered(n, j) => x = j \/ Nearer(n, x, j)
    BY <1>7, <1>8
  <1>10. Provider(n, f, g) \in Replies(n, f) /\ g \in Offered(n, Provider(n, f, g))
    BY <1>9, Zenon DEF Provider
  <1> QED
    BY <1>10, OfferTypes DEF Reply

-----------------------------------------------------------------------------
(* Every handler keeps the types.                                          *)

Tables == /\ ctable \in [Nodes -> Seq(Entry)]
          /\ ct_len = [n \in Nodes |-> Len(ctable[n])]

Bags == /\ IsABag(net) /\ DOMAIN net \subseteq Message
        /\ IsABag(tasks) /\ DOMAIN tasks \subseteq FragmentRequest
        /\ IsABag(hook) /\ DOMAIN hook \subseteq FragmentRequest
        /\ IsABag(timers) /\ DOMAIN timers \subseteq Timer

\* A table changed at one node is still a table, with its length beside it.
LEMMA TableChange ==
    ASSUME Tables, NEW n \in Nodes, NEW t \in Seq(Entry),
           ctable' = [ctable EXCEPT ![n] = t],
           ct_len' = [ct_len EXCEPT ![n] = Len(t)]
    PROVE  Tables'
  <1>1. ctable' \in [Nodes -> Seq(Entry)]
    BY DEF Tables
  <1>2. ct_len' = [x \in Nodes |-> Len(ctable'[x])]
    BY DEF Tables
  <1> QED
    BY <1>1, <1>2 DEF Tables

\* The same when the length stays as it was.
LEMMA TableSameLength ==
    ASSUME Tables, NEW n \in Nodes, NEW t \in Seq(Entry), Len(t) = Len(ctable[n]),
           ctable' = [ctable EXCEPT ![n] = t], UNCHANGED ct_len
    PROVE  Tables'
  <1>1. ct_len' = [ct_len EXCEPT ![n] = Len(t)]
    BY DEF Tables
  <1> QED
    BY <1>1, TableChange

\* retrieve_frag keeps the list and its length in step, whichever way it goes.
LEMMA RetrieveTypes ==
    ASSUME TypeOK, NEW n \in Nodes, NEW f \in Files, NEW g \in Frags, retrieve_frag(n, f, g)
    PROVE  Tables' /\ stores' \in Nat
  <1>1. Tables /\ ctable[n] \in Seq(Entry) /\ ct_len[n] = Len(ctable[n]) /\ stores \in Nat
    BY DEF TypeOK, Tables
  <1>2. CASE UNCHANGED <<ctable, ct_len, stores>>
    BY <1>1, <1>2 DEF Tables
  <1>3. CASE /\ ctable' = [ctable EXCEPT ![n] = create_cache(@, f, g, 0)]
             /\ ct_len' = [ct_len EXCEPT ![n] = @ + 1]
             /\ stores' = stores + 1
    <2> DEFINE t == create_cache(ctable[n], f, g, 0)
    <2>1. t \in Seq(Entry) /\ Len(t) = Len(ctable[n]) + 1
      BY <1>1, CreateCache
    <2>2. ctable' = [ctable EXCEPT ![n] = t]
      BY <1>3
    <2> HIDE DEF t
    <2>3. ct_len' = [ct_len EXCEPT ![n] = Len(t)]
      BY <1>1, <1>3, <2>1 DEF Tables
    <2>4. Tables'
      BY <1>1, <2>1, <2>2, <2>3, TableChange
    <2> QED
      BY <1>1, <1>3, <2>4
  <1>4. ASSUME NEW i \in DOMAIN ctable[n],
               ctable' = [ctable EXCEPT ![n] = create_cache(remove_cache(@, i), f, g, 0)],
               UNCHANGED ct_len, stores' = stores + 1
        PROVE  Tables' /\ stores' \in Nat
    <2> DEFINE t == create_cache(remove_cache(ctable[n], i), f, g, 0)
    <2>1. t \in Seq(Entry) /\ Len(t) = Len(ctable[n])
      BY <1>1, Replace
    <2>2. ctable' = [ctable EXCEPT ![n] = t]
      BY <1>4
    <2> HIDE DEF t
    <2>3. UNCHANGED ct_len
      BY <1>4
    <2>4. Tables'
      BY <1>1, <2>1, <2>2, <2>3, TableSameLength
    <2> QED
      BY <1>1, <1>4, <2>4
  <1> QED
    BY <1>2, <1>3, <1>4 DEF retrieve_frag

\* The rest of the state that TypeOK types.
Lists == /\ crlist \in [Nodes -> [Pairs -> NoCreq .. U32 - 1]]
         /\ rinfo \in [Nodes -> Seq(Reply)]
         /\ extable \in [Nodes -> Seq(Bid)]
         /\ flood \in [Nodes -> SUBSET (Nodes \X (1 .. Len(Asks)))]

Counters == /\ cSuccess \in [Nodes -> Nat] /\ buf \in [Nodes -> SUBSET Frags]
            /\ seq \in 0 .. Len(Asks) /\ reloads \in Nat
            /\ counted \in Nat /\ stores \in Nat

\* The type invariant in four parts, each disturbed by few handlers.
LEMMA TypeParts == TypeOK <=> Tables /\ Lists /\ Bags /\ Counters
  BY DEF TypeOK, Tables, Lists, Bags, Counters

\* The same after a step.
LEMMA TypePartsPrime == TypeOK' <=> Tables' /\ Lists' /\ Bags' /\ Counters'
  BY DEF TypeOK, Tables, Lists, Bags, Counters

\* The types hold when the modules have been loaded.
LEMMA InitTypes == Init => TypeOK
  <1> SUFFICES ASSUME Init
               PROVE  TypeOK
    OBVIOUS
  <1> USE DEF Init
  <1>1. Tables
    <2>1. \A n \in Nodes : /\ init_cache_table(Stored[n]) \in Seq(Entry)
                           /\ Len(init_cache_table(Stored[n])) = Len(Stored[n])
      <3> TAKE n \in Nodes
      <3>1. Stored[n] \in Seq(Pairs)
        BY ParamsAssumption
      <3> QED
        BY <3>1, InitTable
    <2> QED
      BY <2>1 DEF Tables
  <1>2. Lists
    <2>1. NoCreq \in NoCreq .. U32 - 1
      BY U32Assumption DEF NoCreq
    <2> QED
      BY <2>1 DEF Lists
  <1>3. Bags
    BY DEF Bags, EmptyBag, SetToBag, IsABag
  <1>4. Counters
    BY AsksAssumption DEF Counters
  <1> QED
    BY <1>1, <1>2, <1>3, <1>4, TypeParts

\* The user's request.
LEMMA GenFlreqTypes ==
    ASSUME TypeOK, NEW n \in Nodes, NEW f \in Files, gen_flreq(n, f)
    PROVE  TypeOK'
  <1> USE DEF gen_flreq
  <1>1. Tables' /\ Lists'
    BY TypeParts DEF Tables, Lists
  <1>2. Bags'
    <2>1. seq + 1 \in 1 .. Len(Asks)
      BY AsksAssumption DEF TypeOK
    <2>2. Flreq(n, n, f, seq + 1, 0, NET_DIAMETER) \in Message
      BY <2>1, ParamsAssumption, FlreqType
    <2>3. IsABag(net') /\ DOMAIN net' \subseteq Message
      BY <2>2, BroadcastTypes, SendTypes DEF TypeOK
    <2> QED
      BY <2>3, TypeParts DEF Bags
  <1>3. Counters'
    BY AsksAssumption, TypeParts DEF Counters
  <1> QED
    BY <1>1, <1>2, <1>3, TypePartsPrime

\* A file request arrives.
LEMMA RecvFlreqTypes ==
    ASSUME TypeOK, NEW n \in Nodes, NEW m \in DOMAIN net, recv_flreq(n, m)
    PROVE  TypeOK'
  <1> USE DEF recv_flreq
  <1>1. m \in Message
    BY DEF TypeOK
  <1>2. /\ m.src \in Nodes /\ m.file \in Files /\ m.seq \in 1 .. Len(Asks)
        /\ m.metric \in Nat /\ m.ttl \in Nat
    BY <1>1, MessageFields
  <1>3. Tables' /\ Counters'
    BY TypeParts DEF Tables, Counters
  <1>4. flood' \in [Nodes -> SUBSET (Nodes \X (1 .. Len(Asks)))]
    <2>1. flood \in [Nodes -> SUBSET (Nodes \X (1 .. Len(Asks)))]
      BY DEF TypeOK
    <2>2. insert_flood_id(flood[n], m.src, m.seq) \in SUBSET (Nodes \X (1 .. Len(Asks)))
      BY <1>2, <2>1 DEF insert_flood_id
    <2> QED
      BY <2>1, <2>2
  <1>5. Lists'
    BY <1>4, TypeParts DEF Lists
  <1>6. IsABag(net') /\ DOMAIN net' \subseteq Message
    <2>1. CASE DropFlreq(n, m)
      BY <2>1, DeliverTypes DEF TypeOK
    <2>2. CASE ~DropFlreq(n, m)
      <3>1. m.ttl - 1 \in Nat /\ m.metric + 1 \in Nat
        BY <1>2, <2>2 DEF DropFlreq
      <3>2. Flreq(n, m.src, m.file, m.seq, m.metric + 1, m.ttl - 1) \in Message
        BY <1>2, <3>1, FlreqType
      <3>3. gen_flrep(n, m.src, m.file, m.metric + 1) \in SUBSET Message
        <4>1. CASE ReplyFrags(n, m.file) = <<>>
          BY <4>1 DEF gen_flrep
        <4>2. CASE ReplyFrags(n, m.file) # <<>>
          <5>1. ReplyFrags(n, m.file) \in Offers
            BY <1>2, <4>2, ReplyTypes
          <5>2. Flrep(n, m.src, m.file, m.metric + 1, ReplyFrags(n, m.file)) \in Message
            BY <1>2, <3>1, <5>1, FlrepType
          <5> QED
            BY <5>2, SentTypes DEF gen_flrep
        <4> QED
          BY <4>1, <4>2
      <3>4. local_broadcast(n, m.ttl - 1,
                Flreq(n, m.src, m.file, m.seq, m.metric + 1, m.ttl - 1)) \in SUBSET Message
        BY <3>2, BroadcastTypes
      <3> QED
        BY <2>2, <3>3, <3>4, DeliverTypes DEF TypeOK
    <2> QED
      BY <2>1, <2>2
  <1>7. Bags'
    BY <1>6, TypeParts DEF Bags
  <1> QED
    BY <1>3, <1>5, <1>7, TypePartsPrime

\* A new entry at the head of a list.
LEMMA HeadTypes ==
    ASSUME NEW S, NEW s \in Seq(S), NEW e \in S
    PROVE  <<e>> \o s \in Seq(S)
  OBVIOUS

\* A file reply arrives.
LEMMA RecvFlrepTypes ==
    ASSUME TypeOK, NEW n \in Nodes, NEW m \in DOMAIN net, recv_flrep(n, m)
    PROVE  TypeOK'
  <1> USE DEF recv_flrep
  <1>1. m \in Message
    BY DEF TypeOK
  <1>2. m.src \in Nodes /\ m.file \in Files /\ m.dist \in Nat /\ m.frags \in Offers
    BY <1>1, MessageFields
  <1>3. Tables' /\ Counters'
    BY TypeParts DEF Tables, Counters
  <1>4. create_rinfo(rinfo[n], m) \in Seq(Reply)
    <2>1. rinfo[n] \in Seq(Reply)
      BY DEF TypeOK
    <2>2. [file |-> m.file, dst |-> m.src, dist |-> m.dist, frags |-> m.frags] \in Reply
      BY <1>2 DEF Reply
    <2> QED
      BY <2>1, <2>2, HeadTypes DEF create_rinfo
  <1>5. Lists'
    BY <1>4, TypeParts DEF Lists
  <1>6. IsABag(net') /\ DOMAIN net' \subseteq Message
    BY DeliverTypes DEF TypeOK
  <1>7. IsABag(timers') /\ DOMAIN timers' \subseteq Timer
    <2>1. FragReqSend(n, m.file) \in Timer
      BY <1>2, TimerTypes
    <2>2. /\ IsABag(Inserted(timers, FragReqSend(n, m.file)))
          /\ DOMAIN Inserted(timers, FragReqSend(n, m.file)) \subseteq Timer
      BY <2>1, BagInsert DEF TypeOK
    <2> QED
      BY <2>2 DEF TypeOK
  <1>8. Bags'
    BY <1>6, <1>7, TypeParts DEF Bags
  <1> QED
    BY <1>3, <1>5, <1>8, TypePartsPrime

\* A round of replies is used.
LEMMA ProcessFlrepTypes ==
    ASSUME TypeOK, NEW n \in Nodes, NEW f \in Files, process_flrep(n, f)
    PROVE  TypeOK'
  <1> DEFINE chosen == Chosen(n, f)
             dst(g) == rinfo[n][Provider(n, f, g)].dst
             popular == IF n \in ActOn THEN {g \in chosen : reachThreshold(n, f, g)} ELSE {}
             enough == Cardinality(NewFrags(n, f)) >= Need(n, f)
             out == {Frreq("ori", Route[n][dst(g)], n, dst(g), f, g, NET_DIAMETER) : g \in chosen}
                    \cup UNION {local_broadcast(n, 1, Exreq(n, n, dst(g), f, g)) : g \in popular}
             armed == {AddCacheSend(n, dst(g), f, g) : g \in popular}
  <1>1. /\ ctable' = IF n \in ActOn THEN [ctable EXCEPT ![n] = local_hits(@, f)] ELSE ctable
        /\ UNCHANGED ct_len
        /\ rinfo' = [rinfo EXCEPT ![n] = flush_rinfo(@, f)]
        /\ UNCHANGED <<extable, flood, tasks, hook, seq, reloads, stores>>
    BY DEF process_flrep
  <1>2. chosen \in SUBSET Frags /\ popular \in SUBSET chosen
    BY OfferTypes
  <1>3. \A g \in chosen : dst(g) \in Nodes
    BY OfferTypes, ProviderIsReply
  <1>4. Tables'
    <2>1. Tables /\ ctable[n] \in Seq(Entry)
      BY DEF TypeOK, Tables
    <2>2. local_hits(ctable[n], f) \in Seq(Entry) /\ Len(local_hits(ctable[n], f)) = Len(ctable[n])
      BY <2>1, LocalHitsEffect DEF SameButRefs
    <2>3. CASE n \in ActOn
      <3>1. ctable' = [ctable EXCEPT ![n] = local_hits(ctable[n], f)] /\ UNCHANGED ct_len
        BY <1>1, <2>3
      <3> QED
        BY <2>1, <2>2, <3>1, TableSameLength
    <2>4. CASE n \notin ActOn
      BY <1>1, <2>1, <2>4 DEF Tables
    <2> QED
      BY <2>3, <2>4
  <1>5. /\ rinfo' \in [Nodes -> Seq(Reply)]
        /\ extable' \in [Nodes -> Seq(Bid)]
        /\ flood' \in [Nodes -> SUBSET (Nodes \X (1 .. Len(Asks)))]
    <2>1. flush_rinfo(rinfo[n], f) \in Seq(Reply)
      BY KeptMembers DEF TypeOK, flush_rinfo
    <2> QED
      BY <1>1, <2>1 DEF TypeOK
  <1>6. CASE enough
    <2>1. /\ cSuccess' = [cSuccess EXCEPT ![n] = @ + 1]
          /\ buf' = [buf EXCEPT ![n] = OwnFrags(n, f) \cup chosen]
          /\ Send(out)
          /\ timers' = Taken(timers, FragReqSend(n, f)) (+) SetToBag(armed)
          /\ crlist' = IF n \in ActOn
                       THEN [crlist EXCEPT ![n] = [p \in Pairs |->
                               IF p[1] = f /\ p[2] \in chosen THEN Count(n, f, p[2]) ELSE @[p]]]
                       ELSE crlist
          /\ counted' = IF n \in ActOn THEN counted + Cardinality(chosen) ELSE counted
      BY <1>6, Zenon DEF process_flrep
    <2>2. out \in SUBSET Message
      <3>1. \A g \in chosen :
                Frreq("ori", Route[n][dst(g)], n, dst(g), f, g, NET_DIAMETER) \in Message
        <4> SUFFICES ASSUME NEW g \in chosen
                     PROVE  Frreq("ori", Route[n][dst(g)], n, dst(g), f, g, NET_DIAMETER) \in Message
          OBVIOUS
        <4>1. dst(g) \in Nodes /\ g \in Frags
          BY <1>2, <1>3
        <4> HIDE DEF dst, chosen
        <4>2. Route[n][dst(g)] \in Nodes
          BY <4>1, NodesAssumption
        <4> QED
          BY <4>1, <4>2, ParamsAssumption, FrreqType
      <3>2. \A g \in popular : local_broadcast(n, 1, Exreq(n, n, dst(g), f, g)) \in SUBSET Message
        <4> SUFFICES ASSUME NEW g \in popular
                     PROVE  local_broadcast(n, 1, Exreq(n, n, dst(g), f, g)) \in SUBSET Message
          OBVIOUS
        <4>1. dst(g) \in Nodes /\ g \in Frags
          BY <1>2, <1>3
        <4> HIDE DEF dst, chosen, popular
        <4>2. Exreq(n, n, dst(g), f, g) \in Message
          BY <4>1, ExreqType
        <4> QED
          BY <4>2, BroadcastTypes
      <3> HIDE DEF dst, chosen, popular
      <3> QED
        BY <3>1, <3>2
    <2>3. IsABag(net') /\ DOMAIN net' \subseteq Message
      <3> HIDE DEF out
      <3> QED
        BY <2>1, <2>2, SendTypes DEF TypeOK
    <2>4. IsABag(timers') /\ DOMAIN timers' \subseteq Timer
      <3>1. armed \in SUBSET Timer
        <4> SUFFICES ASSUME NEW g \in popular
                     PROVE  AddCacheSend(n, dst(g), f, g) \in Timer
          OBVIOUS
        <4>1. dst(g) \in Nodes /\ g \in Frags
          BY <1>2, <1>3
        <4> HIDE DEF dst, chosen, popular
        <4> QED
          BY <4>1, TimerTypes
      <3>2. timers' = Taken(timers, FragReqSend(n, f)) (+) SetToBag(armed)
        BY <2>1
      <3> DEFINE left == Taken(timers, FragReqSend(n, f))
      <3>3. IsABag(left) /\ DOMAIN left \subseteq Timer
        BY BagTake DEF TypeOK
      <3> HIDE DEF armed, left
      <3>4. IsABag(SetToBag(armed)) /\ DOMAIN SetToBag(armed) = armed
        BY BagOfSet
      <3>5. /\ IsABag(left (+) SetToBag(armed))
            /\ DOMAIN (left (+) SetToBag(armed)) = DOMAIN left \cup armed
        BY <3>3, <3>4, BagPlus
      <3> QED
        BY <3>1, <3>2, <3>3, <3>5 DEF left
    <2>5. crlist' \in [Nodes -> [Pairs -> NoCreq .. U32 - 1]]
      <3>1. crlist \in [Nodes -> [Pairs -> NoCreq .. U32 - 1]]
        BY DEF TypeOK
      <3>2. ASSUME NEW p \in Pairs
            PROVE  (IF p[1] = f /\ p[2] \in chosen THEN Count(n, f, p[2]) ELSE crlist[n][p])
                        \in NoCreq .. U32 - 1
        <4>1. p[2] \in Frags
          BY DEF Pairs
        <4>2. Count(n, f, p[2]) \in NoCreq .. U32 - 1
          BY <4>1, CountType DEF NoCreq
        <4> HIDE DEF chosen
        <4> QED
          BY <3>1, <4>2
      <3>3. [p \in Pairs |-> IF p[1] = f /\ p[2] \in chosen THEN Count(n, f, p[2]) ELSE crlist[n][p]]
                \in [Pairs -> NoCreq .. U32 - 1]
        BY <3>2
      <3> HIDE DEF chosen
      <3> QED
        BY <2>1, <3>1, <3>3
    <2>6. Counters'
      <3>1. IsFiniteSet(chosen)
        BY <1>2, FragIdsAssumption, FS_Subset
      <3>2. Cardinality(chosen) \in Nat
        BY <3>1, FS_CardinalityType
      <3>3. OwnFrags(n, f) \cup chosen \in SUBSET Frags
        BY <1>2, ReplyTypes
      <3>4. Counters
        BY DEF TypeOK, Counters
      <3> HIDE DEF chosen
      <3> QED
        BY <1>1, <2>1, <3>2, <3>3, <3>4 DEF Counters
    <2>7. Lists' /\ Bags'
      BY <1>1, <1>5, <2>3, <2>4, <2>5 DEF TypeOK, Lists, Bags
    <2> QED
      BY <1>4, <2>6, <2>7, TypePartsPrime
  <1>7. CASE ~enough
    <2>1. /\ timers' = Taken(timers, FragReqSend(n, f))
          /\ UNCHANGED <<cSuccess, buf, net, crlist, counted>>
      BY <1>7, Zenon DEF process_flrep
    <2>2. IsABag(timers') /\ DOMAIN timers' \subseteq Timer
      BY <2>1, BagTake DEF TypeOK
    <2>3. Lists' /\ Bags' /\ Counters'
      BY <1>1, <1>5, <2>1, <2>2 DEF TypeOK, Lists, Bags, Counters
    <2> QED
      BY <1>4, <2>3, TypePartsPrime
  <1> QED
    BY <1>6, <1>7

\* The hook sees a packet, and decides about it.
LEMMA PacketInTypes ==
    ASSUME TypeOK, NEW n \in Nodes, NEW m \in DOMAIN net, packet_in(n, m)
    PROVE  TypeOK'
  <1> USE DEF packet_in
  <1>1. m \in Message
    BY DEF TypeOK
  <1>2. m \in FragmentRequest
    BY <1>1, MessageFields
  <1>3. FragmentRequest \subseteq Message
    BY DEF Message
  <1>4. Tables' /\ Lists' /\ Counters'
    BY TypeParts DEF Tables, Lists, Counters
  <1>5. IsABag(tasks') /\ DOMAIN tasks' \subseteq FragmentRequest
    BY <1>2, BagInsert DEF TypeOK
  <1>6. IsABag(hook') /\ DOMAIN hook' \subseteq FragmentRequest
    BY <1>2, BagInsert DEF TypeOK
  <1>7. IsABag(net') /\ DOMAIN net' \subseteq Message
    <2>1. Forward(n, m) \in SUBSET Message
      BY <1>2, <1>3, ForwardTypes
    <2>2. PICK S \in SUBSET Message : Deliver(m, S)
      BY <2>1
    <2> QED
      BY <2>2, DeliverTypes DEF TypeOK
  <1>8. Bags'
    BY <1>5, <1>6, <1>7, TypeParts DEF Bags
  <1> QED
    BY <1>4, <1>8, TypePartsPrime

\* The hook drops a fragment request or sends it on.
LEMMA PacketVerdictTypes ==
    ASSUME TypeOK, NEW n \in Nodes, NEW m \in DOMAIN hook, packet_verdict(n, m)
    PROVE  TypeOK'
  <1> USE DEF packet_verdict
  <1>1. m \in FragmentRequest /\ FragmentRequest \subseteq Message
    BY DEF TypeOK, Message
  <1>2. Tables' /\ Lists' /\ Counters'
    BY TypeParts DEF Tables, Lists, Counters
  <1>3. IsABag(hook') /\ DOMAIN hook' \subseteq FragmentRequest
    BY BagTake DEF TypeOK
  <1>4. IsABag(net') /\ DOMAIN net' \subseteq Message
    <2>1. Forward(n, m) \in SUBSET Message
      BY <1>1, ForwardTypes
    <2>2. PICK S \in SUBSET Message : Send(S)
      BY <2>1
    <2> QED
      BY <2>2, SendTypes DEF TypeOK
  <1>5. Bags'
    BY <1>3, <1>4, TypeParts DEF Bags
  <1> QED
    BY <1>2, <1>5, TypePartsPrime

\* A fragment this node stores is asked for.
LEMMA ServeTypes ==
    ASSUME TypeOK, NEW n \in Nodes, NEW m \in FragmentRequest, ServeFragment(n, m),
           UNCHANGED ct_len
    PROVE  Tables'
  <1>1. Tables /\ ctable[n] \in Seq(Entry)
    BY DEF TypeOK, Tables
  <1>2. m.file \in Files /\ m.frag \in Frags
    BY DEF FragmentRequest
  <1> DEFINE t == update_ref(ctable[n], m.file, m.frag)
  <1>3. t \in Seq(Entry) /\ Len(t) = Len(ctable[n])
    BY <1>1, <1>2, UpdateRefEffect DEF SameButRefs
  <1>4. ctable' = [ctable EXCEPT ![n] = t] \/ ctable' = ctable
    BY DEF ServeFragment
  <1> HIDE DEF t
  <1>5. CASE ctable' = [ctable EXCEPT ![n] = t]
    BY <1>1, <1>3, <1>5, TableSameLength
  <1>6. CASE ctable' = ctable
    BY <1>1, <1>6 DEF Tables
  <1> QED
    BY <1>4, <1>5, <1>6

\* A request list after one entry is set.
LEMMA CrlistTypes ==
    ASSUME TypeOK, NEW n \in Nodes, NEW f \in Files, NEW g \in Frags, NEW c \in NoCreq .. U32 - 1,
           crlist' = [crlist EXCEPT ![n][<<f, g>>] = c]
    PROVE  crlist' \in [Nodes -> [Pairs -> NoCreq .. U32 - 1]]
  <1>1. crlist \in [Nodes -> [Pairs -> NoCreq .. U32 - 1]] /\ <<f, g>> \in Pairs
    BY DEF TypeOK, Pairs
  <1> QED
    BY <1>1

\* What a request that passes by changes.
LEMMA PassingTypes ==
    ASSUME TypeOK, NEW n \in Nodes, NEW m \in FragmentRequest,
           CountPassing(n, m) \/ FlushPassing(n, m)
    PROVE  /\ crlist' \in [Nodes -> [Pairs -> NoCreq .. U32 - 1]]
           /\ IsABag(net') /\ DOMAIN net' \subseteq Message
           /\ IsABag(timers') /\ DOMAIN timers' \subseteq Timer
           /\ counted' \in Nat
           /\ UNCHANGED ctable
  <1>1. /\ m.file \in Files /\ m.frag \in Frags /\ m.src \in Nodes /\ m.dst \in Nodes
        /\ m.ttl \in Nat \ {0}
    BY DEF FragmentRequest
  <1>2. CASE CountPassing(n, m)
    <2> DEFINE popular == reachThreshold(n, m.file, m.frag)
               fwd == Frreq("fwd", Route[n][m.dst], m.src, m.dst, m.file, m.frag, m.ttl - 1)
               out == send_message(m.ttl - 1, fwd)
                      \cup local_broadcast(n, 1, Exreq(n, n, m.dst, m.file, m.frag))
               armed == AddCacheSend(n, m.dst, m.file, m.frag)
    <2>1. /\ crlist' = [crlist EXCEPT ![n][<<m.file, m.frag>>] = Count(n, m.file, m.frag)]
          /\ counted' = counted + 1
          /\ Send(IF popular THEN out ELSE {})
          /\ timers' = IF popular THEN Inserted(timers, armed) ELSE timers
          /\ UNCHANGED ctable
      BY <1>2, Zenon DEF CountPassing
    <2>2. Count(n, m.file, m.frag) \in NoCreq .. U32 - 1
      BY <1>1, CountType DEF NoCreq
    <2>3. crlist' \in [Nodes -> [Pairs -> NoCreq .. U32 - 1]]
      BY <1>1, <2>1, <2>2, CrlistTypes
    <2>4. out \in SUBSET Message
      <3>1. send_message(m.ttl - 1, fwd) \in SUBSET Message
        <4>1. CASE m.ttl - 1 = 0
          BY <4>1 DEF send_message
        <4>2. CASE m.ttl - 1 # 0
          <5>1. m.ttl - 1 \in Nat \ {0} /\ Route[n][m.dst] \in Nodes
            BY <1>1, <4>2, NodesAssumption
          <5>2. fwd \in Message
            BY <1>1, <5>1, FrreqType
          <5> QED
            BY <5>2, SentTypes
        <4> QED
          BY <4>1, <4>2
      <3>2. local_broadcast(n, 1, Exreq(n, n, m.dst, m.file, m.frag)) \in SUBSET Message
        BY <1>1, ExreqType, BroadcastTypes
      <3> QED
        BY <3>1, <3>2
    <2> HIDE DEF out
    <2>5. IsABag(net') /\ DOMAIN net' \subseteq Message
      <3>1. PICK S \in SUBSET Message : Send(S)
        BY <2>1, <2>4
      <3> QED
        BY <3>1, SendTypes DEF TypeOK
    <2>6. IsABag(timers') /\ DOMAIN timers' \subseteq Timer
      <3>1. armed \in Timer
        BY <1>1, TimerTypes
      <3> HIDE DEF armed
      <3>2. IsABag(Inserted(timers, armed)) /\ DOMAIN Inserted(timers, armed) \subseteq Timer
        BY <3>1, BagInsert DEF TypeOK
      <3> QED
        BY <2>1, <3>2 DEF TypeOK
    <2> QED
      BY <2>1, <2>3, <2>5, <2>6 DEF TypeOK
  <1>3. CASE FlushPassing(n, m)
    <2>1. /\ crlist' = [crlist EXCEPT ![n][<<m.file, m.frag>>] = IF @ = NoCreq THEN NoCreq ELSE 0]
          /\ UNCHANGED <<ctable, timers, net, counted>>
      BY <1>3 DEF FlushPassing
    <2>2. \E c \in NoCreq .. U32 - 1 : crlist' = [crlist EXCEPT ![n][<<m.file, m.frag>>] = c]
      <3>1. NoCreq \in NoCreq .. U32 - 1 /\ 0 \in NoCreq .. U32 - 1
        BY U32Assumption DEF NoCreq
      <3>2. crlist' = [crlist EXCEPT ![n][<<m.file, m.frag>>] =
                            IF crlist[n][<<m.file, m.frag>>] = NoCreq THEN NoCreq ELSE 0]
        BY <1>1, <2>1 DEF TypeOK, Pairs
      <3> QED
        BY <3>1, <3>2
    <2>3. crlist' \in [Nodes -> [Pairs -> NoCreq .. U32 - 1]]
      BY <1>1, <2>2, CrlistTypes
    <2> QED
      BY <2>1, <2>3 DEF TypeOK
  <1> QED
    BY <1>2, <1>3

\* A fragment request is taken from the task queue.
LEMMA RecvFrreqTypes ==
    ASSUME TypeOK, NEW n \in Nodes, NEW m \in DOMAIN tasks,
           recv_frreq_ori(n, m) \/ recv_frreq_fwd(n, m)
    PROVE  TypeOK'
  <1>1. m \in FragmentRequest
    BY DEF TypeOK
  <1>2. /\ tasks' = Taken(tasks, m)
        /\ UNCHANGED <<ct_len, rinfo, extable, flood, hook, cSuccess, seq, reloads, buf, stores>>
    BY DEF recv_frreq_ori, recv_frreq_fwd
  <1>3. IsABag(tasks') /\ DOMAIN tasks' \subseteq FragmentRequest
    BY <1>2, BagTake DEF TypeOK
  <1>4. CASE ServeFragment(n, m)
    <2>1. Tables'
      BY <1>1, <1>2, <1>4, ServeTypes
    <2>2. UNCHANGED <<crlist, timers, net, counted>>
      BY <1>4 DEF ServeFragment
    <2>3. Lists' /\ Bags' /\ Counters'
      BY <1>2, <1>3, <2>2, TypeParts DEF Lists, Bags, Counters
    <2> QED
      BY <2>1, <2>3, TypePartsPrime
  <1>5. CASE CountPassing(n, m) \/ FlushPassing(n, m)
    <2>1. /\ crlist' \in [Nodes -> [Pairs -> NoCreq .. U32 - 1]]
          /\ IsABag(net') /\ DOMAIN net' \subseteq Message
          /\ IsABag(timers') /\ DOMAIN timers' \subseteq Timer
          /\ counted' \in Nat
          /\ UNCHANGED ctable
      BY <1>1, <1>5, PassingTypes
    <2>2. Tables' /\ Lists' /\ Bags' /\ Counters'
      BY <1>2, <1>3, <2>1, TypeParts DEF Tables, Lists, Bags, Counters
    <2> QED
      BY <2>2, TypePartsPrime
  <1>6. CASE UNCHANGED <<ctable, crlist, timers, net, counted>>
    <2>1. Tables' /\ Lists' /\ Bags' /\ Counters'
      BY <1>2, <1>3, <1>6, TypeParts DEF Tables, Lists, Bags, Counters
    <2> QED
      BY <2>1, TypePartsPrime
  <1> QED
    BY <1>4, <1>5, <1>6 DEF recv_frreq_ori, recv_frreq_fwd

\* A neighbour asks for a bid.
LEMMA RecvExreqTypes ==
    ASSUME TypeOK, NEW n \in Nodes, NEW m \in DOMAIN net, recv_exreq(n, m)
    PROVE  TypeOK'
  <1> USE DEF recv_exreq
  <1>1. m \in Message
    BY DEF TypeOK
  <1>2. m.src \in Nodes /\ m.file \in Files /\ m.frag \in Frags
    BY <1>1, MessageFields
  <1>3. Tables' /\ Lists' /\ Counters'
    BY TypeParts DEF Tables, Lists, Counters
  <1> DEFINE rep == Exrep(Route[n][m.src], m.src, n, m.file, m.frag, Score(n, m.file, m.frag))
  <1>4. rep \in Message
    <2>1. Route[n][m.src] \in Nodes /\ Score(n, m.file, m.frag) \in 0 .. U32 - 1
      BY <1>2, NodesAssumption, ScoreType
    <2> QED
      BY <1>2, <2>1, ExrepType
  <1>5. Deliver(m, send_message(NET_DIAMETER, rep))
    OBVIOUS
  <1> HIDE DEF rep
  <1>6. IsABag(net') /\ DOMAIN net' \subseteq Message
    BY <1>4, <1>5, SentTypes, DeliverTypes DEF TypeOK
  <1>7. Bags'
    BY <1>6, TypeParts DEF Bags
  <1> QED
    BY <1>3, <1>7, TypePartsPrime

\* What a daemon passes on is a message.
LEMMA OnwardTypes ==
    ASSUME NEW n \in Nodes, NEW m \in Message, m.type \in {"exrep", "addcache"}
    PROVE  Onward(n, m) \in SUBSET Message
  <1>1. Route[n][m.ip] \in Nodes
    BY MessageFields, NodesAssumption
  <1> QED
    BY <1>1, Readdressed DEF Onward

\* A bid arrives.
LEMMA RecvExrepTypes ==
    ASSUME TypeOK, NEW n \in Nodes, NEW m \in DOMAIN net, recv_exrep(n, m)
    PROVE  TypeOK'
  <1> USE DEF recv_exrep
  <1>1. m \in Message
    BY DEF TypeOK
  <1>2. Tables' /\ Counters'
    BY TypeParts DEF Tables, Counters
  <1>3. create_extable(extable[n], m) \in Seq(Bid)
    <2>1. extable[n] \in Seq(Bid)
      BY DEF TypeOK
    <2>2. [file |-> m.file, frag |-> m.frag, neigh |-> m.src, score |-> m.score] \in Bid
      BY <1>1, MessageFields DEF Bid
    <2> QED
      BY <2>1, <2>2, HeadTypes DEF create_extable
  <1>4. Lists'
    BY <1>3, TypeParts DEF Lists
  <1>5. IsABag(net') /\ DOMAIN net' \subseteq Message
    BY <1>1, OnwardTypes, DeliverTypes DEF TypeOK
  <1>6. Bags'
    BY <1>5, TypeParts DEF Bags
  <1> QED
    BY <1>2, <1>4, <1>6, TypePartsPrime

\* A fragment is pushed to a node.
LEMMA RecvAddcacheTypes ==
    ASSUME TypeOK, NEW n \in Nodes, NEW m \in DOMAIN net, recv_addcache(n, m)
    PROVE  TypeOK'
  <1>1. m \in Message
    BY DEF TypeOK
  <1>2. /\ m.type = "addcache" /\ retrieve_frag(n, m.file, m.frag) /\ Deliver(m, Onward(n, m))
        /\ UNCHANGED <<crlist, rinfo, extable, flood, timers, tasks, hook,
                       cSuccess, seq, reloads, buf, counted>>
    BY DEF recv_addcache
  <1>3. m.file \in Files /\ m.frag \in Frags
    BY <1>1, <1>2, MessageFields
  <1>4. Tables' /\ stores' \in Nat
    BY <1>2, <1>3, RetrieveTypes
  <1>5. IsABag(net') /\ DOMAIN net' \subseteq Message
    BY <1>1, <1>2, OnwardTypes, DeliverTypes DEF TypeOK
  <1>6. Lists' /\ Bags' /\ Counters'
    BY <1>2, <1>4, <1>5, TypeParts DEF Lists, Bags, Counters
  <1> QED
    BY <1>4, <1>6, TypePartsPrime

\* The bids are compared.
LEMMA SelectAgentTypes ==
    ASSUME TypeOK, NEW n \in Nodes, NEW t \in DOMAIN timers, select_agent(n, t)
    PROVE  TypeOK'
  <1>1. t \in Timer
    BY DEF TypeOK
  <1>2. /\ t.type = "ADD_CACHE_SEND"
        /\ timers' = Taken(timers, t)
        /\ extable' = [extable EXCEPT ![n] = flush_extable(@, t.file, t.frag)]
        /\ UNCHANGED <<crlist, rinfo, flood, tasks, hook, cSuccess, seq, reloads, buf, counted>>
    BY Zenon DEF select_agent
  <1>3. t.file \in Files /\ t.frag \in Frags /\ t.dst \in Nodes
    BY <1>1, <1>2, TimerFields
  <1>4. extable' \in [Nodes -> Seq(Bid)]
    <2>1. flush_extable(extable[n], t.file, t.frag) \in Seq(Bid)
      BY KeptMembers DEF TypeOK, flush_extable
    <2> QED
      BY <1>2, <2>1 DEF TypeOK
  <1>5. IsABag(timers') /\ DOMAIN timers' \subseteq Timer
    BY <1>2, BagTake DEF TypeOK
  <1>6. CASE UNCHANGED <<ctable, ct_len, stores>> /\
             \E i \in Bids(n, t.file, t.frag) :
                 Send(send_message(NET_DIAMETER,
                      Addcache(Route[n][extable[n][i].neigh], extable[n][i].neigh, t.dst, t.file, t.frag)))
    <2>1. PICK i \in Bids(n, t.file, t.frag) :
                 Send(send_message(NET_DIAMETER,
                      Addcache(Route[n][extable[n][i].neigh], extable[n][i].neigh, t.dst, t.file, t.frag)))
      BY <1>6
    <2>2. extable[n][i].neigh \in Nodes
      <3>1. extable[n] \in Seq(Bid) /\ i \in DOMAIN extable[n]
        BY DEF TypeOK, Bids
      <3>2. extable[n][i] \in Bid
        BY <3>1
      <3> QED
        BY <3>2 DEF Bid
    <2>3. Addcache(Route[n][extable[n][i].neigh], extable[n][i].neigh, t.dst, t.file, t.frag) \in Message
      BY <1>3, <2>2, NodesAssumption, AddcacheType
    <2>4. IsABag(net') /\ DOMAIN net' \subseteq Message
      BY <2>1, <2>3, SentTypes, SendTypes DEF TypeOK
    <2>5. Tables' /\ Lists' /\ Bags' /\ Counters'
      BY <1>2, <1>4, <1>5, <1>6, <2>4, TypeParts DEF Tables, Lists, Bags, Counters
    <2> QED
      BY <2>5, TypePartsPrime
  <1>7. CASE retrieve_frag(n, t.file, t.frag) /\ UNCHANGED net
    <2>1. Tables' /\ stores' \in Nat
      BY <1>3, <1>7, RetrieveTypes
    <2>2. Lists' /\ Bags' /\ Counters'
      BY <1>2, <1>4, <1>5, <1>7, <2>1, TypeParts DEF Lists, Bags, Counters
    <2> QED
      BY <2>1, <2>2, TypePartsPrime
  <1>8. \/ UNCHANGED <<ctable, ct_len, stores>> /\
             \E i \in Bids(n, t.file, t.frag) :
                 Send(send_message(NET_DIAMETER,
                      Addcache(Route[n][extable[n][i].neigh], extable[n][i].neigh, t.dst, t.file, t.frag)))
        \/ retrieve_frag(n, t.file, t.frag) /\ UNCHANGED net
    BY Zenon DEF select_agent
  <1> QED
    BY <1>6, <1>7, <1>8

\* A module is loaded again.
LEMMA ReloadTypes ==
    ASSUME TypeOK, NEW n \in Nodes, Reload(n)
    PROVE  TypeOK'
  <1> USE DEF Reload
  <1>1. Tables'
    <2> DEFINE t == init_cache_table(Stored[n])
    <2>1. Stored[n] \in Seq(Pairs)
      BY ParamsAssumption
    <2>2. t \in Seq(Entry) /\ Len(t) = Len(Stored[n])
      BY <2>1, InitTable
    <2>3. ctable' = [ctable EXCEPT ![n] = t] /\ ct_len' = [ct_len EXCEPT ![n] = Len(t)]
      BY <2>2
    <2> HIDE DEF t
    <2> QED
      BY <2>2, <2>3, TypeParts, TableChange
  <1>2. Lists'
    <2>1. NoCreq \in NoCreq .. U32 - 1
      BY U32Assumption DEF NoCreq
    <2> QED
      BY <2>1, TypeParts DEF Lists
  <1>3. Bags'
    BY BagElsewhere, TypeParts DEF Bags
  <1>4. Counters'
    BY TypeParts DEF Counters
  <1> QED
    BY <1>1, <1>2, <1>3, <1>4, TypePartsPrime

\* In every reachable state the variables have their types: whatever is lost,
\* reordered or reloaded, a message or a timer names a node, a file and a
\* fragment there are, no reply overruns fileRepInfo.map, and at every node
\* ct_len is the length of the list.
THEOREM TypeCorrect == Spec => []TypeOK
  <1>1. TypeOK /\ [Next]_vars => TypeOK'
    <2> SUFFICES ASSUME TypeOK, [Next]_vars
                 PROVE  TypeOK'
      OBVIOUS
    <2>1. CASE UNCHANGED vars
      BY <2>1 DEF vars, TypeOK
    <2>2. ASSUME NEW n \in Nodes, NEW f \in Files, gen_flreq(n, f) \/ process_flrep(n, f)
          PROVE  TypeOK'
      BY <2>2, GenFlreqTypes, ProcessFlrepTypes
    <2>3. ASSUME NEW n \in Nodes, NEW m \in DOMAIN net,
                 \/ recv_flreq(n, m) \/ recv_flrep(n, m) \/ packet_in(n, m)
                 \/ recv_exreq(n, m) \/ recv_exrep(n, m) \/ recv_addcache(n, m)
          PROVE  TypeOK'
      BY <2>3, RecvFlreqTypes, RecvFlrepTypes, PacketInTypes,
         RecvExreqTypes, RecvExrepTypes, RecvAddcacheTypes
    <2>4. ASSUME NEW n \in Nodes, NEW m \in DOMAIN hook, packet_verdict(n, m)
          PROVE  TypeOK'
      BY <2>4, PacketVerdictTypes
    <2>5. ASSUME NEW n \in Nodes, NEW m \in DOMAIN tasks, recv_frreq_ori(n, m) \/ recv_frreq_fwd(n, m)
          PROVE  TypeOK'
      BY <2>5, RecvFrreqTypes
    <2>6. ASSUME NEW n \in Nodes, NEW t \in DOMAIN timers, select_agent(n, t)
          PROVE  TypeOK'
      BY <2>6, SelectAgentTypes
    <2>7. ASSUME NEW n \in Nodes, Reload(n)
          PROVE  TypeOK'
      BY <2>7, ReloadTypes
    <2> QED
      BY <2>1, <2>2, <2>3, <2>4, <2>5, <2>6, <2>7 DEF Next
  <1> QED
    BY <1>1, InitTypes, PTL DEF Spec

-----------------------------------------------------------------------------
(* Every node's table behaves as CacheTable.                               *)

\* A change at one node that is a step of its table is a step of every table.
LEMMA StepAt ==
    ASSUME NEW n \in Nodes,
           \A x \in Nodes \ {n} : ctable'[x] = ctable[x] /\ ct_len'[x] = ct_len[x],
           Cache(n)!Next \/ UNCHANGED Cache(n)!vars
    PROVE  \A x \in Nodes : Cache(x)!Next \/ UNCHANGED Cache(x)!vars
  <1>1. ASSUME NEW x \in Nodes, x # n
        PROVE  UNCHANGED Cache(x)!vars
    BY <1>1, SMT DEF Cache!vars
  <1> QED
    BY <1>1, SMT

\* The list operations of a node's CacheTable are those of FragmentList.
LEMMA SameLists ==
    ASSUME NEW n, NEW t, NEW f, NEW g, NEW i
    PROVE  /\ Cache(n)!ReachedK(t, f) <=> ReachedK(t, f)
           /\ Cache(n)!create_cache(t, f, g, 0) = create_cache(t, f, g, 0)
           /\ Cache(n)!remove_cache(t, i) = remove_cache(t, i)
           /\ Cache(n)!IsVictim(t, i) <=> IsVictim(t, i)
           /\ Cache(n)!update_ref(t, f, g) = update_ref(t, f, g)
           /\ Cache(n)!local_hits(t, f) = local_hits(t, f)
           /\ Cache(n)!init_cache_table(t) = init_cache_table(t)
  <1>1a. Cache(n)!Positions(t, f) = Positions(t, f)
    BY SMT DEF Cache!Positions, Positions
  <1>1b. \A S : Cache(n)!Cardinality(S) = Cardinality(S)
    BY Zenon DEF Cache!Cardinality, Cardinality
  <1>1. Cache(n)!ReachedK(t, f) <=> ReachedK(t, f)
    BY <1>1a, <1>1b, SMT DEF Cache!ReachedK, ReachedK
  <1>2. Cache(n)!create_cache(t, f, g, 0) = create_cache(t, f, g, 0)
    BY Zenon DEF Cache!create_cache, create_cache
  <1>3. Cache(n)!remove_cache(t, i) = remove_cache(t, i)
    BY Zenon DEF Cache!remove_cache, remove_cache
  <1>4. Cache(n)!IsVictim(t, i) <=> IsVictim(t, i)
    BY Zenon DEF Cache!IsVictim, Cache!Evictable, IsVictim, Evictable
  <1>5. Cache(n)!update_ref(t, f, g) = update_ref(t, f, g)
    BY Zenon DEF Cache!update_ref, Cache!IsFirst, Cache!Bumped, update_ref, IsFirst, Bumped
  <1>6. Cache(n)!local_hits(t, f) = local_hits(t, f)
    <2>1. Cache(n)!Own(t, f) = Own(t, f)
      BY <1>1a, <1>1b, SMT DEF Cache!Own, Own
    <2>2. \A j, h : Cache(n)!IsFirst(t, j, f, h) <=> IsFirst(t, j, f, h)
      BY SMT DEF Cache!IsFirst, IsFirst
    <2>3. \A e, k : Cache(n)!Bumped(e, k) = Bumped(e, k)
      BY SMT DEF Cache!Bumped, Bumped
    <2> QED
      BY <1>1b, <2>1, <2>2, <2>3, SMT DEF Cache!local_hits, local_hits
  <1>7. Cache(n)!init_cache_table(t) = init_cache_table(t)
    BY Zenon DEF Cache!init_cache_table, init_cache_table
  <1> QED
    BY <1>1, <1>2, <1>3, <1>4, <1>5, <1>6, <1>7, SMT

\* retrieve_frag returns early, stores in a free slot or replaces the victim.
LEMMA RetrieveStep ==
    ASSUME TypeOK, NEW n \in Nodes, NEW f \in Files, NEW g \in Frags, retrieve_frag(n, f, g)
    PROVE  \A x \in Nodes : Cache(x)!Next \/ UNCHANGED Cache(x)!vars
  <1>1. n \in DOMAIN ctable /\ n \in DOMAIN ct_len /\ ct_len[n] \in Int
    BY DEF TypeOK
  <1>2. \A x \in Nodes \ {n} : ctable'[x] = ctable[x] /\ ct_len'[x] = ct_len[x]
    <2>1. ctable' = ctable \/ \E w : ctable' = [ctable EXCEPT ![n] = w]
      BY Zenon DEF retrieve_frag
    <2>2. ct_len' = ct_len \/ \E w : ct_len' = [ct_len EXCEPT ![n] = w]
      BY Zenon DEF retrieve_frag
    <2>3. DOMAIN ctable = Nodes /\ DOMAIN ct_len = Nodes
      BY DEF TypeOK
    <2> QED
      BY <2>1, <2>2, <2>3
  <1>3. CASE UNCHANGED <<ctable, ct_len, stores>>
    BY <1>2, <1>3, StepAt, SMT DEF Cache!vars
  <1>4. CASE /\ ~ReachedK(ctable[n], f) /\ ct_len[n] < BUF_SIZE
             /\ ctable' = [ctable EXCEPT ![n] = create_cache(@, f, g, 0)]
             /\ ct_len' = [ct_len EXCEPT ![n] = @ + 1]
    <2>1. Cache(n)!StoreFree(f, g)
      <3>1. ctable'[n] = create_cache(ctable[n], f, g, 0) /\ ct_len'[n] = ct_len[n] + 1
        BY <1>1, <1>4, SMT
      <3> QED
        BY <1>4, <3>1, SameLists, SMT DEF Cache!StoreFree
    <2>2. Cache(n)!Next
      BY <2>1, SMT DEF Cache!Next
    <2> QED
      BY <1>2, <2>2, StepAt, SMT
  <1>5. CASE /\ ~ReachedK(ctable[n], f) /\ ct_len[n] >= BUF_SIZE
             /\ \E i \in DOMAIN ctable[n] :
                   /\ IsVictim(ctable[n], i)
                   /\ ctable' = [ctable EXCEPT ![n] = create_cache(remove_cache(@, i), f, g, 0)]
             /\ UNCHANGED ct_len
    <2>1. Cache(n)!StoreEvict(f, g)
      <3>1. PICK i \in DOMAIN ctable[n] :
                /\ IsVictim(ctable[n], i)
                /\ ctable' = [ctable EXCEPT ![n] = create_cache(remove_cache(@, i), f, g, 0)]
        BY <1>5
      <3>2. ctable'[n] = create_cache(remove_cache(ctable[n], i), f, g, 0)
        BY <1>1, <3>1, SMT
      <3>3. ct_len'[n] = ct_len[n] - 1 + 1
        BY <1>1, <1>5, SMT
      <3>4. ctable'[n] = Cache(n)!create_cache(Cache(n)!remove_cache(ctable[n], i), f, g, 0)
        BY <3>2, SameLists, SMT
      <3>5. Cache(n)!IsVictim(ctable[n], i) /\ ~Cache(n)!ReachedK(ctable[n], f)
        BY <1>5, <3>1, SameLists, SMT
      <3> QED
        BY <1>5, <3>3, <3>4, <3>5, SMT DEF Cache!StoreEvict
    <2>2. Cache(n)!Next
      BY <2>1, SMT DEF Cache!Next
    <2> QED
      BY <1>2, <2>2, StepAt, SMT
  <1> QED
    BY <1>3, <1>4, <1>5, SMT DEF retrieve_frag

\* process_flrep counts the node's own entries as used.
LEMMA LocalHitsStep ==
    ASSUME TypeOK, NEW n \in Nodes, NEW f \in Files,
           ctable'[n] = local_hits(ctable[n], f),
           \A x \in Nodes \ {n} : ctable'[x] = ctable[x],
           UNCHANGED ct_len
    PROVE  \A x \in Nodes : Cache(x)!Next \/ UNCHANGED Cache(x)!vars
  <1>1. n \in DOMAIN ctable /\ n \in DOMAIN ct_len
    BY DEF TypeOK
  <1>2. \A x \in Nodes \ {n} : ctable'[x] = ctable[x] /\ ct_len'[x] = ct_len[x]
    BY SMT DEF TypeOK
  <1>3. Cache(n)!LocalHits(f)
    <2>1. ctable'[n] = local_hits(ctable[n], f) /\ ct_len'[n] = ct_len[n]
      BY <1>1, SMT
    <2> QED
      BY <2>1, SameLists, SMT DEF Cache!LocalHits
  <1>4. Cache(n)!Next
    BY <1>3, SMT DEF Cache!Next
  <1> QED
    BY <1>2, <1>4, StepAt, SMT

\* A request for a fragment the node holds counts it as used.
LEMMA UpdateRefStep ==
    ASSUME TypeOK, NEW n \in Nodes, NEW f \in Files, NEW g \in Frags,
           ctable'[n] = update_ref(ctable[n], f, g),
           \A x \in Nodes \ {n} : ctable'[x] = ctable[x],
           UNCHANGED ct_len
    PROVE  \A x \in Nodes : Cache(x)!Next \/ UNCHANGED Cache(x)!vars
  <1>1. n \in DOMAIN ctable /\ n \in DOMAIN ct_len
    BY DEF TypeOK
  <1>2. \A x \in Nodes \ {n} : ctable'[x] = ctable[x] /\ ct_len'[x] = ct_len[x]
    BY SMT DEF TypeOK
  <1>3. Cache(n)!UpdateRef(f, g)
    <2>1. ctable'[n] = update_ref(ctable[n], f, g) /\ ct_len'[n] = ct_len[n]
      BY <1>1, SMT
    <2> QED
      BY <2>1, SameLists, SMT DEF Cache!UpdateRef
  <1>4. Cache(n)!Next
    BY <1>3, SMT DEF Cache!Next
  <1> QED
    BY <1>2, <1>4, StepAt, SMT

\* A reload is a reload of one table.
LEMMA ReloadStep ==
    ASSUME TypeOK, NEW n \in Nodes, Reload(n)
    PROVE  \A x \in Nodes : Cache(x)!Next \/ UNCHANGED Cache(x)!vars
  <1>1. n \in DOMAIN ctable /\ n \in DOMAIN ct_len
    BY DEF TypeOK
  <1>2. \A x \in Nodes \ {n} : ctable'[x] = ctable[x] /\ ct_len'[x] = ct_len[x]
    BY SMT DEF TypeOK, Reload
  <1>3. Cache(n)!Reload
    BY <1>1, SMT DEF Reload, Cache!Reload, Cache!init_cache_table, init_cache_table
  <1>4. Cache(n)!Next
    BY <1>3, SMT DEF Cache!Next
  <1> QED
    BY <1>2, <1>4, StepAt, SMT

\* The network implements one CacheTable per node: no message, timer, loss,
\* reordering or reload anywhere makes a daemon's table do what cacheTable.c
\* and retrieve_frag alone would not.
THEOREM Refinement == Spec => TablesRefine
  <1>1. Init => \A n \in Nodes : Cache(n)!Init
    BY SMT DEF Init, Cache!Init, Cache!init_cache_table, init_cache_table
  <1>2. TypeOK /\ [Next]_vars =>
            [\A n \in Nodes : Cache(n)!Next \/ UNCHANGED Cache(n)!vars]_tableVars
    <2> SUFFICES ASSUME TypeOK, [Next]_vars, ~UNCHANGED tableVars
                 PROVE  \A n \in Nodes : Cache(n)!Next \/ UNCHANGED Cache(n)!vars
      BY SMT
    <2> USE DEF tableVars
    <2>1. CASE UNCHANGED vars
      BY <2>1, SMT DEF vars
    <2>2. ASSUME NEW n \in Nodes, NEW f \in Files, gen_flreq(n, f)
          PROVE  FALSE
      BY <2>2, SMT DEF gen_flreq
    <2>3. ASSUME NEW n \in Nodes, NEW f \in Files, process_flrep(n, f)
          PROVE  \A x \in Nodes : Cache(x)!Next \/ UNCHANGED Cache(x)!vars
      <3>1. /\ ctable' = IF n \in ActOn THEN [ctable EXCEPT ![n] = local_hits(@, f)] ELSE ctable
            /\ UNCHANGED ct_len
        BY <2>3, SMT DEF process_flrep
      <3>2. /\ ctable'[n] = local_hits(ctable[n], f)
            /\ \A x \in Nodes \ {n} : ctable'[x] = ctable[x]
        BY <3>1, SMT DEF TypeOK
      <3>3. UNCHANGED ct_len
        BY <3>1, SMT
      <3> QED
        BY <3>2, <3>3, LocalHitsStep, SMT
    <2>4. ASSUME NEW n \in Nodes, NEW m \in DOMAIN net,
                 \/ recv_flreq(n, m) \/ recv_flrep(n, m) \/ packet_in(n, m)
                 \/ recv_exreq(n, m) \/ recv_exrep(n, m)
          PROVE  FALSE
      BY <2>4, SMT DEF recv_flreq, recv_flrep, packet_in, recv_exreq, recv_exrep
    <2>5. ASSUME NEW n \in Nodes, NEW m \in DOMAIN net, recv_addcache(n, m)
          PROVE  \A x \in Nodes : Cache(x)!Next \/ UNCHANGED Cache(x)!vars
      <3>1. m.file \in Files /\ m.frag \in Frags /\ retrieve_frag(n, m.file, m.frag)
        BY <2>5, MessageFields, SMT DEF recv_addcache, TypeOK
      <3> QED
        BY <3>1, RetrieveStep, SMT
    <2>6. ASSUME NEW n \in Nodes, NEW m \in DOMAIN hook, packet_verdict(n, m)
          PROVE  FALSE
      BY <2>6, SMT DEF packet_verdict
    <2>7. ASSUME NEW n \in Nodes, NEW m \in DOMAIN tasks, recv_frreq_ori(n, m) \/ recv_frreq_fwd(n, m)
          PROVE  \A x \in Nodes : Cache(x)!Next \/ UNCHANGED Cache(x)!vars
      <3>1. m.file \in Files /\ m.frag \in Frags
        BY DEF TypeOK, FragmentRequest
      <3>2. UNCHANGED ct_len
        BY <2>7, SMT DEF recv_frreq_ori, recv_frreq_fwd
      <3>3. /\ ctable'[n] = update_ref(ctable[n], m.file, m.frag)
            /\ \A x \in Nodes \ {n} : ctable'[x] = ctable[x]
        <4>1. \/ ctable' = [ctable EXCEPT ![n] = update_ref(@, m.file, m.frag)]
              \/ UNCHANGED ctable
          BY <2>7, SMT DEF recv_frreq_ori, recv_frreq_fwd, ServeFragment, CountPassing, FlushPassing
        <4>2. ctable' = [ctable EXCEPT ![n] = update_ref(@, m.file, m.frag)]
          BY <3>2, <4>1
        <4>3. n \in DOMAIN ctable
          BY DEF TypeOK
        <4> QED
          BY <4>2, <4>3, SMT DEF TypeOK
      <3> QED
        BY <3>1, <3>2, <3>3, UpdateRefStep, SMT
    <2>8. ASSUME NEW n \in Nodes, NEW t \in DOMAIN timers, select_agent(n, t)
          PROVE  \A x \in Nodes : Cache(x)!Next \/ UNCHANGED Cache(x)!vars
      <3>1. t.type = "ADD_CACHE_SEND" /\ retrieve_frag(n, t.file, t.frag)
        BY <2>8, SMT DEF select_agent
      <3>2. t.file \in Files /\ t.frag \in Frags
        BY <3>1, TimerFields, SMT DEF TypeOK
      <3> QED
        BY <3>1, <3>2, RetrieveStep, SMT
    <2>9. ASSUME NEW n \in Nodes, Reload(n)
          PROVE  \A x \in Nodes : Cache(x)!Next \/ UNCHANGED Cache(x)!vars
      BY <2>9, ReloadStep, SMT
    <2> QED
      BY <2>1, <2>2, <2>3, <2>4, <2>5, <2>6, <2>7, <2>8, <2>9, SMT DEF Next
  <1> QED
    BY <1>1, <1>2, TypeCorrect, PTL DEF Spec, TablesRefine

-----------------------------------------------------------------------------
(* The collection of replies.                                              *)

Timed(n, f) ==
    LET t == FragReqSend(n, f)
    IN  IF Replies(n, f) = {} THEN t \notin DOMAIN timers
        ELSE t \in DOMAIN timers /\ timers[t] = 1

\* A timer keeps its copies when it is not among those added.
LEMMA PlusOther ==
    ASSUME NEW B, NEW S, IsABag(B), NEW t, t \notin S
    PROVE  /\ t \in DOMAIN (B (+) SetToBag(S)) <=> t \in DOMAIN B
           /\ t \in DOMAIN B => (B (+) SetToBag(S))[t] = B[t]
  BY DEF IsABag, (+), SetToBag

\* A timer that is set for the first time has one copy.
LEMMA InsertCopies ==
    ASSUME NEW B, NEW t, IsABag(B)
    PROVE  /\ t \notin DOMAIN B => t \in DOMAIN Inserted(B, t) /\ Inserted(B, t)[t] = 1
           /\ \A u : u # t => /\ u \in DOMAIN Inserted(B, t) <=> u \in DOMAIN B
                              /\ u \in DOMAIN B => Inserted(B, t)[u] = B[u]
  BY DEF IsABag, (+), SetToBag, Inserted

\* A timer with one copy is gone when it is taken, the others stay.
LEMMA TakeCopies ==
    ASSUME NEW B, NEW t, IsABag(B)
    PROVE  /\ t \in DOMAIN B /\ B[t] = 1 => t \notin DOMAIN Taken(B, t)
           /\ \A u : u # t => /\ u \in DOMAIN Taken(B, t) <=> u \in DOMAIN B
                              /\ u \in DOMAIN B => Taken(B, t)[u] = B[u]
  BY DEF IsABag, (-), SetToBag, Taken

\* The timers of the collections differ from each other and from those of the
\* exchange.
LEMMA DistinctTimers ==
    ASSUME NEW n, NEW f, NEW x, NEW g
    PROVE  /\ FragReqSend(n, f) = FragReqSend(x, g) => n = x /\ f = g
           /\ \A t : t.type = "ADD_CACHE_SEND" => FragReqSend(n, f) # t
           /\ \A d, h : FragReqSend(n, f) # AddCacheSend(x, d, g, h)
  <1>1. /\ FragReqSend(n, f).type = "FRAG_REQ_SEND"
        /\ FragReqSend(n, f).node = n /\ FragReqSend(n, f).file = f
        /\ FragReqSend(x, g).node = x /\ FragReqSend(x, g).file = g
    BY DEF FragReqSend
  <1>2. \A d, h : AddCacheSend(x, d, g, h).type = "ADD_CACHE_SEND"
    BY DEF AddCacheSend
  <1>3. "FRAG_REQ_SEND" # "ADD_CACHE_SEND"
    OBVIOUS
  <1> QED
    BY <1>1, <1>2, <1>3

\* A collection is still timed when its replies and its timer are as before.
LEMMA StaysTimed ==
    ASSUME NEW n, NEW f, Timed(n, f),
           Replies(n, f)' = {} <=> Replies(n, f) = {},
           FragReqSend(n, f) \in DOMAIN timers' <=> FragReqSend(n, f) \in DOMAIN timers,
           FragReqSend(n, f) \in DOMAIN timers
               => timers'[FragReqSend(n, f)] = timers[FragReqSend(n, f)]
    PROVE  Timed(n, f)'
  BY DEF Timed, FragReqSend

\* Nothing else than the list of a node decides which replies it has.
LEMMA SameReplies ==
    ASSUME NEW n, NEW f, rinfo'[n] = rinfo[n]
    PROVE  Replies(n, f)' = Replies(n, f)
  BY DEF Replies

\* A reply that comes in leaves the node with one of its file.
LEMMA ReplyAdded ==
    ASSUME TypeOK, NEW n \in Nodes, NEW f \in Files, NEW m,
           rinfo' = [rinfo EXCEPT ![n] = create_rinfo(@, m)]
    PROVE  /\ f = m.file => Replies(n, f)' # {}
           /\ f # m.file => (Replies(n, f)' = {} <=> Replies(n, f) = {})
           /\ \A x \in Nodes \ {n} : rinfo'[x] = rinfo[x]
  <1> DEFINE s == rinfo[n]
             e == [file |-> m.file, dst |-> m.src, dist |-> m.dist, frags |-> m.frags]
             u == <<e>> \o s
  <1>1. s \in Seq(Reply) /\ n \in DOMAIN rinfo
    BY DEF TypeOK
  <1>2. rinfo'[n] = u
    BY <1>1 DEF create_rinfo
  <1> HIDE DEF s
  <1>3. e.file = m.file
    OBVIOUS
  <1> HIDE DEF e
  <1>4. Len(s) \in Nat /\ DOMAIN s = 1 .. Len(s)
    BY <1>1
  <1>5. /\ DOMAIN u = 1 .. Len(s) + 1
        /\ u[1] = e
        /\ \A i \in 1 .. Len(s) : u[i + 1] = s[i]
    BY <1>1
  <1> HIDE DEF u
  <1>6. Replies(n, f)' = {i \in DOMAIN u : u[i].file = f}
    BY <1>2 DEF Replies
  <1>7. Replies(n, f) = {i \in DOMAIN s : s[i].file = f}
    BY DEF Replies, s
  <1>8. 1 \in DOMAIN u
    BY <1>4, <1>5
  <1>9. \A i \in DOMAIN s : i + 1 \in DOMAIN u /\ u[i + 1] = s[i]
    BY <1>4, <1>5
  <1>10. \A j \in DOMAIN u : j = 1 \/ (j - 1 \in DOMAIN s /\ u[j] = s[j - 1])
    <2> SUFFICES ASSUME NEW j \in DOMAIN u, j # 1
                 PROVE  j - 1 \in DOMAIN s /\ u[j] = s[j - 1]
      OBVIOUS
    <2>1. j - 1 \in 1 .. Len(s) /\ (j - 1) + 1 = j
      BY <1>4, <1>5
    <2> QED
      BY <1>4, <1>5, <2>1
  <1>11. f # m.file => (Replies(n, f)' = {} <=> Replies(n, f) = {})
    BY <1>3, <1>5, <1>6, <1>7, <1>9, <1>10
  <1>12. f = m.file => Replies(n, f)' # {}
    BY <1>3, <1>5, <1>6, <1>8
  <1>13. \A x \in Nodes \ {n} : rinfo'[x] = rinfo[x]
    BY DEF TypeOK
  <1> QED
    BY <1>11, <1>12, <1>13

\* The replies for a file are flushed together and no others with them.
LEMMA RepliesFlushed ==
    ASSUME TypeOK, NEW n \in Nodes, NEW f \in Files, NEW g \in Files,
           rinfo' = [rinfo EXCEPT ![n] = flush_rinfo(@, f)]
    PROVE  /\ g = f => Replies(n, g)' = {}
           /\ g # f => (Replies(n, g)' = {} <=> Replies(n, g) = {})
           /\ \A x \in Nodes \ {n} : rinfo'[x] = rinfo[x]
  <1> DEFINE s == rinfo[n]
             K == {i \in DOMAIN s : s[i].file # f}
             u == Kept(s, K)
  <1>1. s \in Seq(Reply) /\ n \in DOMAIN rinfo
    BY DEF TypeOK
  <1>2. rinfo'[n] = u
    BY <1>1 DEF flush_rinfo
  <1>3. Replies(n, g) = {i \in DOMAIN s : s[i].file = g}
    BY DEF Replies
  <1> HIDE DEF s
  <1>4. K \in SUBSET (DOMAIN s) /\ \A i \in DOMAIN s : i \in K <=> s[i].file # f
    OBVIOUS
  <1> HIDE DEF K
  <1>5. /\ \A k \in DOMAIN u : \E i \in K : u[k] = s[i]
        /\ \A i \in K : \E k \in DOMAIN u : u[k] = s[i]
    BY <1>1, <1>4, KeptMembers
  <1> HIDE DEF u
  <1>6. Replies(n, g)' = {k \in DOMAIN u : u[k].file = g}
    BY <1>2 DEF Replies
  <1>7. g = f => Replies(n, g)' = {}
    BY <1>4, <1>5, <1>6
  <1>8. g # f => (Replies(n, g)' = {} <=> Replies(n, g) = {})
    BY <1>3, <1>4, <1>5, <1>6
  <1>9. \A x \in Nodes \ {n} : rinfo'[x] = rinfo[x]
    BY DEF TypeOK
  <1> QED
    BY <1>7, <1>8, <1>9

\* CollectionTimed is Timed of every node and file.
LEMMA TimedCollection ==
    /\ CollectionTimed <=> \A n \in Nodes, f \in Files : Timed(n, f)
    /\ CollectionTimed' <=> \A n \in Nodes, f \in Files : Timed(n, f)'
  BY Zenon DEF CollectionTimed, Timed, BagIn, BagToSet

\* The first reply for a file sets the timer, the others do not.
LEMMA ReplyTimed ==
    ASSUME TypeOK, CollectionTimed, NEW n \in Nodes, NEW m \in DOMAIN net, recv_flrep(n, m)
    PROVE  CollectionTimed'
  <1> SUFFICES ASSUME NEW x \in Nodes, NEW g \in Files
               PROVE  Timed(x, g)'
    BY TimedCollection
  <1> DEFINE t == FragReqSend(n, m.file)
             u == FragReqSend(x, g)
  <1>1. m.file \in Files /\ IsABag(timers)
    BY MessageFields DEF TypeOK
  <1>2. /\ timers' = IF Replies(n, m.file) = {} THEN Inserted(timers, t) ELSE timers
        /\ rinfo' = [rinfo EXCEPT ![n] = create_rinfo(@, m)]
    BY DEF recv_flrep
  <1>3. Timed(x, g) /\ Timed(n, m.file)
    BY <1>1, TimedCollection
  <1>4. /\ t \notin DOMAIN timers => t \in DOMAIN Inserted(timers, t) /\ Inserted(timers, t)[t] = 1
        /\ \A v : v # t => /\ v \in DOMAIN Inserted(timers, t) <=> v \in DOMAIN timers
                           /\ v \in DOMAIN timers => Inserted(timers, t)[v] = timers[v]
    BY <1>1, InsertCopies
  <1>5. /\ g = m.file => Replies(n, g)' # {}
        /\ g # m.file => (Replies(n, g)' = {} <=> Replies(n, g) = {})
        /\ \A y \in Nodes \ {n} : rinfo'[y] = rinfo[y]
    BY <1>2, ReplyAdded
  <1>6. CASE x = n /\ g = m.file
    <2>1. Replies(x, g)' # {}
      BY <1>5, <1>6
    <2>2. CASE Replies(n, m.file) = {}
      <3>1. t \notin DOMAIN timers
        BY <1>3, <2>2 DEF Timed
      <3>2. t \in DOMAIN timers' /\ timers'[t] = 1
        BY <1>2, <1>4, <2>2, <3>1
      <3> QED
        BY <1>6, <2>1, <3>2 DEF Timed, FragReqSend
    <2>3. CASE Replies(n, m.file) # {}
      <3>1. t \in DOMAIN timers /\ timers[t] = 1
        BY <1>3, <2>3 DEF Timed
      <3> QED
        BY <1>2, <1>6, <2>1, <2>3, <3>1 DEF Timed, FragReqSend
    <2> QED
      BY <2>2, <2>3
  <1>7. CASE ~(x = n /\ g = m.file)
    <2>1. u # t
      BY <1>7, DistinctTimers
    <2>2. Replies(x, g)' = {} <=> Replies(x, g) = {}
      BY <1>5, <1>7, SameReplies
    <2>3. /\ u \in DOMAIN timers' <=> u \in DOMAIN timers
          /\ u \in DOMAIN timers => timers'[u] = timers[u]
      BY <1>2, <1>4, <2>1
    <2> QED
      BY <1>3, <2>2, <2>3, StaysTimed
  <1> QED
    BY <1>6, <1>7

\* process_flrep takes the timer and flushes the replies it was for.
LEMMA RetrievalTimed ==
    ASSUME TypeOK, CollectionTimed, NEW n \in Nodes, NEW f \in Files, process_flrep(n, f)
    PROVE  CollectionTimed'
  <1> SUFFICES ASSUME NEW x \in Nodes, NEW g \in Files
               PROVE  Timed(x, g)'
    BY TimedCollection
  <1> DEFINE t == FragReqSend(n, f)
             u == FragReqSend(x, g)
             B == Taken(timers, t)
             dst(h) == rinfo[n][Provider(n, f, h)].dst
             popular == IF n \in ActOn THEN {h \in Chosen(n, f) : reachThreshold(n, f, h)} ELSE {}
             S == {AddCacheSend(n, dst(h), f, h) : h \in popular}
  <1>1. /\ t \in DOMAIN timers
        /\ rinfo' = [rinfo EXCEPT ![n] = flush_rinfo(@, f)]
        /\ timers' = B (+) SetToBag(S) \/ timers' = B
    BY Zenon DEF process_flrep, BagIn, BagToSet
  <1>2. Timed(x, g) /\ Timed(n, f)
    BY TimedCollection
  <1>3. IsABag(timers)
    BY DEF TypeOK
  <1>4. IsABag(B)
    BY <1>3, BagTake
  <1>5. /\ t \in DOMAIN timers /\ timers[t] = 1 => t \notin DOMAIN B
        /\ \A v : v # t => /\ v \in DOMAIN B <=> v \in DOMAIN timers
                           /\ v \in DOMAIN timers => B[v] = timers[v]
    BY <1>3, TakeCopies
  <1>6. /\ g = f => Replies(n, g)' = {}
        /\ g # f => (Replies(n, g)' = {} <=> Replies(n, g) = {})
        /\ \A y \in Nodes \ {n} : rinfo'[y] = rinfo[y]
    BY <1>1, RepliesFlushed
  <1>7. u \notin S
    <2> HIDE DEF popular, dst
    <2>1. ASSUME NEW d, NEW h
          PROVE  u # AddCacheSend(n, d, f, h)
      BY Zenon DEF FragReqSend, AddCacheSend
    <2> HIDE DEF u
    <2> QED
      BY <2>1
  <1> HIDE DEF S, B
  <1>8. /\ u \in DOMAIN (B (+) SetToBag(S)) <=> u \in DOMAIN B
        /\ u \in DOMAIN B => (B (+) SetToBag(S))[u] = B[u]
    BY <1>4, <1>7, PlusOther
  <1>9. /\ u \in DOMAIN timers' <=> u \in DOMAIN B
        /\ u \in DOMAIN B => timers'[u] = B[u]
    BY <1>1, <1>8
  <1>10. CASE x = n /\ g = f
    <2>1. timers[t] = 1
      BY <1>1, <1>2 DEF Timed
    <2>2. u \notin DOMAIN timers'
      BY <1>1, <1>5, <1>9, <1>10, <2>1
    <2>3. Replies(x, g)' = {}
      BY <1>6, <1>10
    <2> QED
      BY <2>2, <2>3 DEF Timed, FragReqSend
  <1>11. CASE ~(x = n /\ g = f)
    <2>1. u # t
      BY <1>11, DistinctTimers
    <2>2. Replies(x, g)' = {} <=> Replies(x, g) = {}
      BY <1>6, <1>11, SameReplies
    <2>3. /\ u \in DOMAIN timers' <=> u \in DOMAIN timers
          /\ u \in DOMAIN timers => timers'[u] = timers[u]
      BY <1>5, <1>9, <2>1
    <2> QED
      BY <1>2, <2>2, <2>3, StaysTimed
  <1> QED
    BY <1>10, <1>11

\* A step that leaves the replies alone and moves only timers of the exchange.
LEMMA ExchangeTimed ==
    ASSUME CollectionTimed, UNCHANGED rinfo,
           \A x, g : LET u == FragReqSend(x, g)
                     IN  /\ u \in DOMAIN timers' <=> u \in DOMAIN timers
                         /\ u \in DOMAIN timers => timers'[u] = timers[u]
    PROVE  CollectionTimed'
  <1> SUFFICES ASSUME NEW x \in Nodes, NEW g \in Files
               PROVE  Timed(x, g)'
    BY TimedCollection
  <1>1. Timed(x, g)
    BY TimedCollection
  <1>2. Replies(x, g)' = Replies(x, g)
    BY SameReplies
  <1> QED
    BY <1>1, <1>2, StaysTimed

\* A reload drops a node's replies together with their timers.
LEMMA ReloadTimed ==
    ASSUME TypeOK, CollectionTimed, NEW n \in Nodes, Reload(n)
    PROVE  CollectionTimed'
  <1> SUFFICES ASSUME NEW x \in Nodes, NEW g \in Files
               PROVE  Timed(x, g)'
    BY TimedCollection
  <1> DEFINE u == FragReqSend(x, g)
  <1>1. /\ timers' = Elsewhere(timers, {t \in DOMAIN timers : t.node = n})
        /\ rinfo' = [rinfo EXCEPT ![n] = <<>>]
    BY DEF Reload
  <1>2. u.node = x
    BY DEF FragReqSend
  <1> HIDE DEF u
  <1>3. /\ u \in DOMAIN timers' <=> u \in DOMAIN timers /\ x # n
        /\ u \in DOMAIN timers' => timers'[u] = timers[u]
    BY <1>1, <1>2 DEF Elsewhere
  <1>4. Timed(x, g)
    BY TimedCollection
  <1>5. CASE x = n
    <2>1. rinfo'[n] = <<>>
      BY <1>1 DEF TypeOK
    <2>2. Replies(x, g)' = {}
      BY <1>5, <2>1 DEF Replies
    <2> QED
      BY <1>3, <1>5, <2>2 DEF Timed, FragReqSend, u
  <1>6. CASE x # n
    <2>1. rinfo'[x] = rinfo[x]
      BY <1>1, <1>6 DEF TypeOK
    <2>2. Replies(x, g)' = Replies(x, g)
      BY <2>1, SameReplies
    <2> QED
      BY <1>3, <1>4, <1>6, <2>2, StaysTimed DEF u
  <1> QED
    BY <1>5, <1>6

\* A collection of replies is always ended by one timer, and no timer is left
\* of one that has ended: recv_flrep, process_flrep and cleanup_module keep
\* the list and the timer queue in step.
THEOREM CollectionsTimed == Spec => []CollectionTimed
  <1>1. Init => CollectionTimed
    <2> SUFFICES ASSUME Init, NEW x \in Nodes, NEW g \in Files
                 PROVE  Timed(x, g)
      BY TimedCollection
    <2>1. DOMAIN timers = {}
      BY BagOfSet DEF Init, EmptyBag
    <2>2. Replies(x, g) = {}
      BY DEF Init, Replies
    <2> QED
      BY <2>1, <2>2 DEF Timed
  <1>2. TypeOK /\ CollectionTimed /\ [Next]_vars => CollectionTimed'
    <2> SUFFICES ASSUME TypeOK, CollectionTimed, [Next]_vars
                 PROVE  CollectionTimed'
      OBVIOUS
    <2>1. ASSUME UNCHANGED <<rinfo, timers>>
          PROVE  CollectionTimed'
      BY <2>1, ExchangeTimed, Zenon
    <2>2. CASE UNCHANGED vars
      BY <2>1, <2>2 DEF vars
    <2>3. ASSUME NEW n \in Nodes, NEW f \in Files, gen_flreq(n, f)
          PROVE  CollectionTimed'
      BY <2>1, <2>3 DEF gen_flreq
    <2>4. ASSUME NEW n \in Nodes, NEW f \in Files, process_flrep(n, f)
          PROVE  CollectionTimed'
      BY <2>4, RetrievalTimed
    <2>5. ASSUME NEW n \in Nodes, NEW m \in DOMAIN net,
                 \/ recv_flreq(n, m) \/ packet_in(n, m) \/ recv_exreq(n, m)
                 \/ recv_exrep(n, m) \/ recv_addcache(n, m)
          PROVE  CollectionTimed'
      BY <2>1, <2>5 DEF recv_flreq, packet_in, recv_exreq, recv_exrep, recv_addcache
    <2>6. ASSUME NEW n \in Nodes, NEW m \in DOMAIN net, recv_flrep(n, m)
          PROVE  CollectionTimed'
      BY <2>6, ReplyTimed
    <2>7. ASSUME NEW n \in Nodes, NEW m \in DOMAIN hook, packet_verdict(n, m)
          PROVE  CollectionTimed'
      BY <2>1, <2>7 DEF packet_verdict
    <2>8. ASSUME NEW n \in Nodes, NEW m \in DOMAIN tasks, recv_frreq_ori(n, m) \/ recv_frreq_fwd(n, m)
          PROVE  CollectionTimed'
      <3> DEFINE a == AddCacheSend(n, m.dst, m.file, m.frag)
      <3>1. UNCHANGED rinfo /\ (UNCHANGED timers \/ timers' = Inserted(timers, a))
        BY <2>8 DEF recv_frreq_ori, recv_frreq_fwd, ServeFragment, CountPassing, FlushPassing
      <3>2. \A x, g : FragReqSend(x, g) # a
        BY DistinctTimers, SMT
      <3> HIDE DEF a
      <3>3. \A u : u # a => /\ u \in DOMAIN Inserted(timers, a) <=> u \in DOMAIN timers
                            /\ u \in DOMAIN timers => Inserted(timers, a)[u] = timers[u]
        BY InsertCopies DEF TypeOK
      <3> QED
        BY <3>1, <3>2, <3>3, ExchangeTimed
    <2>9. ASSUME NEW n \in Nodes, NEW t \in DOMAIN timers, select_agent(n, t)
          PROVE  CollectionTimed'
      <3>1. UNCHANGED rinfo /\ timers' = Taken(timers, t) /\ t.type = "ADD_CACHE_SEND"
        BY <2>9 DEF select_agent
      <3>2. \A x, g : FragReqSend(x, g) # t
        BY <3>1, DistinctTimers, Zenon
      <3>3. \A u : u # t => /\ u \in DOMAIN Taken(timers, t) <=> u \in DOMAIN timers
                            /\ u \in DOMAIN timers => Taken(timers, t)[u] = timers[u]
        BY TakeCopies DEF TypeOK
      <3> QED
        BY <3>1, <3>2, <3>3, ExchangeTimed
    <2>10. ASSUME NEW n \in Nodes, Reload(n)
           PROVE  CollectionTimed'
      BY <2>10, ReloadTimed
    <2> QED
      BY <2>2, <2>3, <2>4, <2>5, <2>6, <2>7, <2>8, <2>9, <2>10 DEF Next
  <1> QED
    BY <1>1, <1>2, TypeCorrect, PTL DEF Spec


-----------------------------------------------------------------------------
(* Counting.                                                               *)

Units(F, S) == UNION {{x} \X (1 .. F[x]) : x \in S}

\* A unit is a member of the set with the number of one of its copies.
LEMMA UnitOf ==
    ASSUME NEW F, NEW S, NEW u
    PROVE  u \in Units(F, S) <=> \E x \in S : \E k \in 1 .. F[x] : u = <<x, k>>
  BY DEF Units

\* The copies of the members of a set are its units.
LEMMA CopiesUnits ==
    ASSUME NEW F, NEW S
    PROVE  Copies(F, S) = Cardinality(Units(F, S))
  BY DEF Copies, Units

\* A finite set has a finite number of copies.
LEMMA UnitsFinite ==
    ASSUME NEW F, NEW S, IsFiniteSet(S), \A x \in S : F[x] \in Int
    PROVE  IsFiniteSet(Units(F, S)) /\ Copies(F, S) \in Nat
  <1> DEFINE G == [x \in S |-> {x} \X (1 .. F[x])]
             T == {G[x] : x \in S}
  <1>1. IsFiniteSet(T)
    <2>1. G \in Surjection(S, T)
      BY DEF Surjection
    <2> QED
      BY <2>1, FS_Surjection
  <1>2. \A x \in S : IsFiniteSet({x} \X (1 .. F[x]))
    <2> TAKE x \in S
    <2>1. IsFiniteSet({x})
      BY FS_Singleton
    <2>2. IsFiniteSet(1 .. F[x])
      BY FS_Interval
    <2> QED
      BY <2>1, <2>2, FS_Product
  <1>3. \A A \in T : IsFiniteSet(A)
    BY <1>2
  <1>4. IsFiniteSet(UNION T)
    <2> HIDE DEF T
    <2> QED
      BY <1>1, <1>3, FS_UNION
  <1>5. UNION T = Units(F, S)
    BY DEF Units
  <1>6. IsFiniteSet(Units(F, S))
    BY <1>4, <1>5
  <1> QED
    BY <1>6, FS_CardinalityType, CopiesUnits

\* Fewer copies of each are fewer copies.
LEMMA CopiesGrow ==
    ASSUME NEW F, NEW G, NEW S, NEW T, IsFiniteSet(T), S \subseteq T,
           \A x \in T : G[x] \in Int,
           \A x \in S : F[x] \in Int /\ F[x] <= G[x]
    PROVE  IsFiniteSet(S) /\ Copies(F, S) \in Nat /\ Copies(G, T) \in Nat /\ Copies(F, S) <= Copies(G, T)
  <1>1. Units(F, S) \in SUBSET Units(G, T)
    <2> SUFFICES ASSUME NEW u \in Units(F, S)
                 PROVE  u \in Units(G, T)
      OBVIOUS
    <2>0. PICK x \in S : \E k \in 1 .. F[x] : u = <<x, k>>
      BY UnitOf
    <2>1. PICK k \in 1 .. F[x] : u = <<x, k>>
      BY <2>0
    <2>2. x \in T /\ k \in 1 .. G[x]
      OBVIOUS
    <2> QED
      BY <2>1, <2>2, UnitOf
  <1>2. IsFiniteSet(Units(G, T)) /\ Copies(G, T) \in Nat
    BY UnitsFinite, Zenon
  <1>3. IsFiniteSet(S)
    BY FS_Subset
  <1>4. \A x \in S : F[x] \in Int
    OBVIOUS
  <1>5. Copies(F, S) \in Nat
    BY <1>3, <1>4, UnitsFinite
  <1>6. Cardinality(Units(F, S)) <= Cardinality(Units(G, T))
    BY <1>1, <1>2, FS_Subset
  <1>7. Copies(F, S) = Cardinality(Units(F, S)) /\ Copies(G, T) = Cardinality(Units(G, T))
    BY CopiesUnits
  <1> QED
    BY <1>2, <1>3, <1>5, <1>6, <1>7

\* The copies of the members of disjoint sets add up.
LEMMA CopiesSplit ==
    ASSUME NEW F, NEW S, NEW T, IsFiniteSet(S), IsFiniteSet(T), S \cap T = {},
           \A x \in S \cup T : F[x] \in Int
    PROVE  /\ Copies(F, S \cup T) = Copies(F, S) + Copies(F, T)
           /\ Copies(F, S) \in Nat /\ Copies(F, T) \in Nat
  <1>1. /\ IsFiniteSet(Units(F, S)) /\ Copies(F, S) \in Nat
        /\ IsFiniteSet(Units(F, T)) /\ Copies(F, T) \in Nat
    BY UnitsFinite
  <1>2. Units(F, S \cup T) = Units(F, S) \cup Units(F, T)
    BY DEF Units
  <1>3. Units(F, S) \cap Units(F, T) = {}
    BY UnitOf
  <1>4. Cardinality(Units(F, S) \cap Units(F, T)) = 0
    BY <1>3, FS_EmptySet
  <1>5. Cardinality(Units(F, S) \cup Units(F, T))
            = Cardinality(Units(F, S)) + Cardinality(Units(F, T)) - Cardinality(Units(F, S) \cap Units(F, T))
    BY <1>1, FS_Union
  <1>6. /\ Copies(F, S \cup T) = Cardinality(Units(F, S) \cup Units(F, T))
        /\ Copies(F, S) = Cardinality(Units(F, S)) /\ Copies(F, T) = Cardinality(Units(F, T))
    BY <1>2, CopiesUnits
  <1> QED
    BY <1>1, <1>4, <1>5, <1>6

\* One more copy of each member of A.
LEMMA CopiesPlus ==
    ASSUME NEW F, NEW S, NEW G, NEW T, NEW A, IsFiniteSet(S), IsFiniteSet(A), T = S \cup A,
           \A x \in S : F[x] \in Nat,
           \A x \in S : G[x] = IF x \in A THEN F[x] + 1 ELSE F[x],
           \A x \in A \ S : G[x] = 1
    PROVE  IsFiniteSet(T) /\ Copies(G, T) = Copies(F, S) + Cardinality(A) /\ Copies(F, S) \in Nat
  <1> DEFINE f == [x \in A |-> <<x, G[x]>>]
             N == {f[x] : x \in A}
  <1>1. IsFiniteSet(N) /\ Cardinality(N) = Cardinality(A)
    <2>1. f \in Bijection(A, N)
      <3>1. f \in [A -> N]
        OBVIOUS
      <3>2. ASSUME NEW x \in A, NEW y \in A, f[x] = f[y]
            PROVE  x = y
        <4>1. <<x, G[x]>> = <<y, G[y]>>
          BY <3>2
        <4> QED
          BY <4>1
      <3>3. \A u \in N : \E x \in A : f[x] = u
        OBVIOUS
      <3> HIDE DEF f, N
      <3> QED
        BY <3>1, <3>2, <3>3, Fun_IsBij, Zenon
    <2>2. ExistsBijection(A, N)
      BY <2>1 DEF ExistsBijection
    <2> QED
      BY <2>2, FS_Bijection
  <1>2. IsFiniteSet(Units(F, S)) /\ Copies(F, S) \in Nat
    BY UnitsFinite
  <1>3. Units(G, T) = Units(F, S) \cup N
    <2>1. ASSUME NEW u \in Units(G, T)
          PROVE  u \in Units(F, S) \cup N
      <3>0. PICK x \in T : \E k \in 1 .. G[x] : u = <<x, k>>
        BY UnitOf
      <3>1. PICK k \in 1 .. G[x] : u = <<x, k>>
        BY <3>0
      <3>2. CASE x \in A /\ k = G[x]
        BY <3>1, <3>2
      <3>3. CASE ~(x \in A /\ k = G[x])
        <4>1. x \in S /\ k \in 1 .. F[x]
          BY <3>3
        <4> QED
          BY <3>1, <4>1, UnitOf
      <3> QED
        BY <3>2, <3>3
    <2>2. ASSUME NEW u \in Units(F, S)
          PROVE  u \in Units(G, T)
      <3>0. PICK x \in S : \E k \in 1 .. F[x] : u = <<x, k>>
        BY UnitOf
      <3>1. PICK k \in 1 .. F[x] : u = <<x, k>>
        BY <3>0
      <3>2. x \in T /\ k \in 1 .. G[x]
        OBVIOUS
      <3> QED
        BY <3>1, <3>2, UnitOf
    <2>3. ASSUME NEW x \in A
          PROVE  f[x] \in Units(G, T)
      <3>1. x \in T /\ G[x] \in 1 .. G[x]
        OBVIOUS
      <3> QED
        BY <3>1, UnitOf
    <2> QED
      BY <2>1, <2>2, <2>3
  <1>4. Units(F, S) \cap N = {}
    <2> SUFFICES ASSUME NEW y \in A, f[y] \in Units(F, S)
                 PROVE  FALSE
      OBVIOUS
    <2>0. PICK x \in S : \E k \in 1 .. F[x] : <<y, G[y]>> = <<x, k>>
      BY UnitOf
    <2>1. PICK k \in 1 .. F[x] : <<y, G[y]>> = <<x, k>>
      BY <2>0
    <2>2. x = y /\ k = G[y]
      BY <2>1
    <2> QED
      BY <2>2
  <1>5. Cardinality(Units(F, S) \cap N) = 0
    BY <1>4, FS_EmptySet
  <1>6. IsFiniteSet(T)
    BY FS_Union
  <1>7. Cardinality(N) \in Nat
    BY <1>1, FS_CardinalityType
  <1> HIDE DEF N
  <1>8. Cardinality(Units(F, S) \cup N)
            = Cardinality(Units(F, S)) + Cardinality(N) - Cardinality(Units(F, S) \cap N)
    BY <1>1, <1>2, FS_Union
  <1>9. /\ Copies(G, T) = Cardinality(Units(F, S) \cup N)
        /\ Copies(F, S) = Cardinality(Units(F, S))
    BY <1>3, CopiesUnits
  <1> QED
    BY <1>1, <1>2, <1>5, <1>6, <1>7, <1>8, <1>9

\* Members with at least k copies each.
LEMMA CopiesAtLeast ==
    ASSUME NEW F, NEW S, IsFiniteSet(S), NEW k \in Nat,
           \A x \in S : F[x] \in Int /\ F[x] >= k
    PROVE  /\ Copies(F, S) \in Nat /\ Cardinality(S) \in Nat
           /\ Copies(F, S) >= Cardinality(S) * k
  <1>1. IsFiniteSet(1 .. k) /\ Cardinality(1 .. k) = k
    <2>1. IsFiniteSet(1 .. k) /\ Cardinality(1 .. k) = IF 1 > k THEN 0 ELSE k - 1 + 1
      BY FS_Interval
    <2> QED
      BY <2>1
  <1>2. IsFiniteSet(S \X (1 .. k)) /\ Cardinality(S \X (1 .. k)) = Cardinality(S) * k
    BY <1>1, FS_Product
  <1>3. S \X (1 .. k) \in SUBSET Units(F, S)
    <2> SUFFICES ASSUME NEW x \in S, NEW i \in 1 .. k
                 PROVE  <<x, i>> \in Units(F, S)
      OBVIOUS
    <2>1. i \in 1 .. F[x]
      OBVIOUS
    <2> QED
      BY <2>1, UnitOf
  <1>4. IsFiniteSet(Units(F, S)) /\ Copies(F, S) \in Nat
    BY UnitsFinite
  <1>5. Cardinality(S) \in Nat
    BY FS_CardinalityType
  <1> QED
    BY <1>2, <1>3, <1>4, <1>5, FS_Subset, CopiesUnits

-----------------------------------------------------------------------------
(* The copies of some messages in a bag.                                   *)

\* The copies of the members of T in bag B, and that they can be counted.
Amount(B, T)    == Copies(B, DOMAIN B \cap T)
Countable(B, T) == IsFiniteSet(DOMAIN B \cap T)

\* What can be counted amounts to a number.
LEMMA AmountType ==
    ASSUME NEW B, NEW T, IsABag(B), Countable(B, T)
    PROVE  Amount(B, T) \in Nat
  <1>1. \A x \in DOMAIN B \cap T : B[x] \in Int
    BY DEF IsABag
  <1> QED
    BY <1>1, UnitsFinite DEF Amount, Countable

\* A set put in adds a copy of each of its members.
LEMMA AmountSend ==
    ASSUME NEW B, NEW S, NEW T, IsABag(B), Countable(B, T), IsFiniteSet(S \cap T)
    PROVE  /\ Countable(B (+) SetToBag(S), T)
           /\ Amount(B (+) SetToBag(S), T) = Amount(B, T) + Cardinality(S \cap T)
  <1> DEFINE C == B (+) SetToBag(S)
             P == DOMAIN B \cap T
             Q == DOMAIN C \cap T
             A == S \cap T
  <1>1. DOMAIN C = DOMAIN B \cup S
    BY BagOfSet, BagPlus
  <1>2. Q = P \cup A
    BY <1>1
  <1>3. \A x \in DOMAIN B : B[x] \in Nat
    BY DEF IsABag
  <1>4. /\ \A x \in DOMAIN B : C[x] = IF x \in S THEN B[x] + 1 ELSE B[x]
        /\ \A x \in S \ DOMAIN B : C[x] = 1
    BY DEF IsABag, (+), SetToBag
  <1>5. IsFiniteSet(P) /\ IsFiniteSet(A)
    BY DEF Countable
  <1>6. /\ \A x \in P : B[x] \in Nat
        /\ \A x \in P : C[x] = IF x \in A THEN B[x] + 1 ELSE B[x]
        /\ \A x \in A \ P : C[x] = 1
    BY <1>3, <1>4
  <1> HIDE DEF C, P, Q, A
  <1>7. IsFiniteSet(Q) /\ Copies(C, Q) = Copies(B, P) + Cardinality(A)
    BY <1>2, <1>5, <1>6, CopiesPlus
  <1> QED
    BY <1>7 DEF Amount, Countable, C, P, Q, A

\* One copy taken out.
LEMMA AmountTake ==
    ASSUME NEW B, NEW T, NEW t \in DOMAIN B, IsABag(B), Countable(B, T)
    PROVE  /\ Countable(Taken(B, t), T) /\ Amount(Taken(B, t), T) \in Nat
           /\ Amount(B, T) = Amount(Taken(B, t), T) + IF t \in T THEN 1 ELSE 0
  <1> DEFINE C == Taken(B, t)
             P == DOMAIN B \cap T
             Q == DOMAIN C \cap T
             A == {t} \cap T
  <1>1. /\ DOMAIN C \subseteq DOMAIN B
        /\ \A x \in DOMAIN B : x # t => x \in DOMAIN C /\ C[x] = B[x]
        /\ t \in DOMAIN C => C[t] \in Nat /\ C[t] = B[t] - 1
        /\ t \notin DOMAIN C => B[t] = 1
    BY DEF IsABag, Taken, (-), SetToBag
  <1>2. \A x \in DOMAIN B : B[x] \in Nat
    BY DEF IsABag
  <1>3. \A x \in DOMAIN C : C[x] \in Nat /\ B[x] = IF x = t THEN C[x] + 1 ELSE C[x]
    BY <1>1, <1>2
  <1> HIDE DEF C
  <1>4. P = Q \cup A
    BY <1>1
  <1>5. /\ \A x \in Q : C[x] \in Nat
        /\ \A x \in Q : B[x] = IF x \in A THEN C[x] + 1 ELSE C[x]
        /\ \A x \in A \ Q : B[x] = 1
    <2>1. \A x \in Q : x \in DOMAIN C /\ (x \in A <=> x = t)
      OBVIOUS
    <2>2. \A x \in A \ Q : x = t /\ t \notin DOMAIN C
      OBVIOUS
    <2> QED
      BY <1>1, <1>3, <2>1, <2>2
  <1>6. IsFiniteSet(Q)
    BY <1>4, FS_Subset DEF Countable
  <1>7. IsFiniteSet(A) /\ Cardinality(A) = IF t \in T THEN 1 ELSE 0
    <2>1. A = IF t \in T THEN {t} ELSE {}
      OBVIOUS
    <2> QED
      BY <2>1, FS_Singleton, FS_EmptySet
  <1> HIDE DEF P, Q, A
  <1>8. Copies(B, P) = Copies(C, Q) + Cardinality(A) /\ Copies(C, Q) \in Nat
    BY <1>4, <1>5, <1>6, <1>7, CopiesPlus
  <1> QED
    BY <1>6, <1>7, <1>8 DEF Amount, Countable, C, P, Q

\* What a handler that takes m from the air and sends S does to the messages of T.
LEMMA DeliverAmount ==
    ASSUME NEW T, NEW m \in DOMAIN net, NEW S, IsABag(net), Countable(net, T), IsFiniteSet(S \cap T),
           Deliver(m, S)
    PROVE  /\ Countable(net', T) /\ Amount(net', T) \in Nat /\ Amount(net, T) \in Nat
           /\ Cardinality(S \cap T) \in Nat
           /\ m \in T => Amount(net', T) + 1 = Amount(net, T) + Cardinality(S \cap T)
           /\ m \notin T => Amount(net', T) = Amount(net, T) + Cardinality(S \cap T)
  <1> DEFINE B == Taken(net, m)
             k == IF m \in T THEN 1 ELSE 0
  <1>1. net' = B (+) SetToBag(S)
    BY DEF Deliver, Taken
  <1>2. Countable(B, T) /\ Amount(B, T) \in Nat /\ Amount(net, T) = Amount(B, T) + k
    BY AmountTake
  <1>3. IsABag(B)
    BY BagOfSet, BagMinus DEF Taken
  <1> HIDE DEF B
  <1>4. Countable(net', T) /\ Amount(net', T) = Amount(B, T) + Cardinality(S \cap T)
    BY <1>1, <1>2, <1>3, AmountSend
  <1>5. Cardinality(S \cap T) \in Nat
    BY FS_CardinalityType
  <1> QED
    BY <1>2, <1>4, <1>5

\* Sending a set of messages adds as many copies as it has members in T.
LEMMA SendAmount ==
    ASSUME NEW T, NEW S, IsABag(net), Countable(net, T), IsFiniteSet(S \cap T), Send(S)
    PROVE  /\ Countable(net', T) /\ Amount(net, T) \in Nat /\ Cardinality(S \cap T) \in Nat
           /\ Amount(net', T) = Amount(net, T) + Cardinality(S \cap T)
  BY AmountSend, AmountType, FS_CardinalityType DEF Send

\* A handler that neither receives nor sends one of T.
LEMMA OtherDelivered ==
    ASSUME NEW T, NEW m \in DOMAIN net, m \notin T, NEW S, S \cap T = {},
           IsABag(net), Countable(net, T), Deliver(m, S)
    PROVE  Countable(net', T) /\ Amount(net', T) = Amount(net, T)
  <1>1. IsFiniteSet(S \cap T) /\ Cardinality(S \cap T) = 0
    BY FS_EmptySet
  <1> QED
    BY <1>1, DeliverAmount

\* Sending nothing of T leaves the amount of T as it was.
LEMMA OtherSent ==
    ASSUME NEW T, NEW S, S \cap T = {}, IsABag(net), Countable(net, T), Send(S)
    PROVE  Countable(net', T) /\ Amount(net', T) = Amount(net, T)
  <1>1. IsFiniteSet(S \cap T) /\ Cardinality(S \cap T) = 0
    BY FS_EmptySet
  <1>2. /\ Countable(net', T) /\ Amount(net, T) \in Nat
        /\ Amount(net', T) = Amount(net, T) + Cardinality(S \cap T)
    BY <1>1, SendAmount, Zenon
  <1> QED
    BY <1>1, <1>2

-----------------------------------------------------------------------------
(* A file request is answered once.                                        *)

\* The replies of node a for d, on the air, in the list of d; the requests of
\* d that a has seen.
Replied(a, d) == {m \in Message : m.type = "flrep" /\ m.src = a /\ m.to = d}
HeldIn(list, a) == {i \in DOMAIN list : list[i].dst = a}
Seen(a, d) == {r \in flood[a] : r[1] = d}

Paid(a, d) ==
    /\ Countable(net, Replied(a, d))
    /\ reloads = 0 => Cardinality(HeldIn(rinfo[d], a)) + Amount(net, Replied(a, d)) <= Cardinality(Seen(a, d))

Answered == \A a, d \in Nodes : Paid(a, d)

\* The replies of a node in a list can be counted.
LEMMA HeldCount ==
    ASSUME NEW S, NEW s \in Seq(S), NEW a
    PROVE  IsFiniteSet(HeldIn(s, a)) /\ Cardinality(HeldIn(s, a)) \in Nat
  <1>1. HeldIn(s, a) \in SUBSET (1 .. Len(s)) /\ Len(s) \in Nat
    BY DEF HeldIn
  <1> QED
    BY <1>1, PositionsCount

\* The requests a node has seen can be counted.
LEMMA SeenCount ==
    ASSUME TypeOK, NEW a \in Nodes, NEW d
    PROVE  IsFiniteSet(flood[a]) /\ IsFiniteSet(Seen(a, d)) /\ Cardinality(Seen(a, d)) \in Nat
  <1>1. IsFiniteSet(1 .. Len(Asks))
    BY AsksAssumption, FS_Interval
  <1>2. IsFiniteSet(Nodes \X (1 .. Len(Asks)))
    BY <1>1, NodesAssumption, FS_Product
  <1>3. flood[a] \in SUBSET (Nodes \X (1 .. Len(Asks)))
    BY DEF TypeOK
  <1>4. IsFiniteSet(flood[a])
    BY <1>2, <1>3, FS_Subset
  <1>5. Seen(a, d) \in SUBSET flood[a]
    BY DEF Seen
  <1> QED
    BY <1>4, <1>5, FS_Subset, FS_CardinalityType

\* A list with one entry more at its head.
LEMMA HeldMore ==
    ASSUME NEW S, NEW s \in Seq(S), NEW e, NEW a
    PROVE  Cardinality(HeldIn(<<e>> \o s, a)) = Cardinality(HeldIn(s, a)) + IF e.dst = a THEN 1 ELSE 0
  <1> DEFINE u == <<e>> \o s
             H == HeldIn(s, a)
             f == [i \in H |-> i + 1]
             G == {f[i] : i \in H}
  <1>1. Len(s) \in Nat /\ DOMAIN s = 1 .. Len(s)
    OBVIOUS
  <1>2. /\ DOMAIN u = 1 .. Len(s) + 1 /\ u[1] = e
        /\ \A i \in 1 .. Len(s) : u[i + 1] = s[i]
    OBVIOUS
  <1>3. H \in SUBSET (1 .. Len(s))
    BY <1>1 DEF HeldIn
  <1> HIDE DEF u
  <1>4. \A i \in 1 .. Len(s) + 1 : i \in HeldIn(u, a) <=> IF i = 1 THEN e.dst = a ELSE i - 1 \in H
    <2> SUFFICES ASSUME NEW i \in 1 .. Len(s) + 1
                 PROVE  i \in HeldIn(u, a) <=> IF i = 1 THEN e.dst = a ELSE i - 1 \in H
      OBVIOUS
    <2>1. i \in HeldIn(u, a) <=> u[i].dst = a
      BY <1>2 DEF HeldIn
    <2>2. CASE i = 1
      BY <1>2, <2>1, <2>2
    <2>3. CASE i # 1
      <3>1. i - 1 \in 1 .. Len(s) /\ (i - 1) + 1 = i
        BY <1>1, <2>3
      <3>2. u[i] = s[i - 1]
        BY <1>2, <3>1
      <3>3. i - 1 \in H <=> s[i - 1].dst = a
        <4> DEFINE j == i - 1
        <4>1. j \in DOMAIN s
          BY <1>1, <3>1
        <4> HIDE DEF j
        <4>2. j \in H <=> s[j].dst = a
          BY <4>1 DEF HeldIn
        <4> QED
          BY <4>2 DEF j
      <3> QED
        BY <2>1, <2>3, <3>2, <3>3
    <2> QED
      BY <2>2, <2>3
  <1>5. HeldIn(u, a) \in SUBSET (1 .. Len(s) + 1)
    BY <1>2 DEF HeldIn
  <1> HIDE DEF H
  <1>6. HeldIn(u, a) = G \cup (IF e.dst = a THEN {1} ELSE {})
    <2>1. ASSUME NEW i \in HeldIn(u, a)
          PROVE  i \in G \cup (IF e.dst = a THEN {1} ELSE {})
      <3>1. i \in 1 .. Len(s) + 1
        BY <1>5
      <3>2. CASE i = 1
        BY <1>4, <3>1, <3>2
      <3>3. CASE i # 1
        <4>1. i - 1 \in H /\ f[i - 1] = i
          BY <1>1, <1>4, <3>1, <3>3
        <4> QED
          BY <4>1
      <3> QED
        BY <3>2, <3>3
    <2>2. ASSUME NEW j \in H
          PROVE  f[j] \in HeldIn(u, a)
      <3>1. j + 1 \in 1 .. Len(s) + 1 /\ j + 1 # 1 /\ (j + 1) - 1 = j
        BY <1>1, <1>3
      <3> QED
        BY <1>4, <3>1
    <2>3. e.dst = a => 1 \in HeldIn(u, a)
      BY <1>1, <1>4
    <2> QED
      BY <2>1, <2>2, <2>3
  <1>7. IsFiniteSet(H) /\ IsFiniteSet(G) /\ Cardinality(G) = Cardinality(H) /\ Cardinality(H) \in Nat
    <2>1. f \in [H -> G]
      OBVIOUS
    <2>2. ASSUME NEW x \in H, NEW y \in H, f[x] = f[y]
          PROVE  x = y
      BY <1>3, <2>2
    <2>3. \A z \in G : \E x \in H : f[x] = z
      OBVIOUS
    <2>4. f \in Bijection(H, G)
      <3> HIDE DEF f, G
      <3> QED
        BY <2>1, <2>2, <2>3, Fun_IsBij, Zenon
    <2>5. ExistsBijection(H, G)
      BY <2>4 DEF ExistsBijection
    <2>6. IsFiniteSet(H) /\ Cardinality(H) \in Nat
      BY HeldCount DEF H
    <2> HIDE DEF f, G
    <2> QED
      BY <2>5, <2>6, FS_Bijection
  <1>8. 1 \notin G
    BY <1>3
  <1> HIDE DEF G
  <1>9. Cardinality(G \cup {1}) = Cardinality(G) + 1
    BY <1>7, <1>8, FS_AddElement
  <1>10. CASE e.dst = a
    <2>1. HeldIn(u, a) = G \cup {1}
      BY <1>6, <1>10
    <2> QED
      BY <1>7, <1>9, <1>10, <2>1 DEF u, H
  <1>11. CASE e.dst # a
    <2>1. HeldIn(u, a) = G
      BY <1>6, <1>11
    <2> QED
      BY <1>7, <1>11, <2>1 DEF u, H
  <1> QED
    BY <1>10, <1>11

\* A flushed list holds no more of them.
LEMMA HeldFewer ==
    ASSUME NEW S, NEW s \in Seq(S), NEW K \in SUBSET (DOMAIN s), NEW a
    PROVE  Cardinality(HeldIn(Kept(s, K), a)) <= Cardinality(HeldIn(s, a))
  <1> DEFINE c == Cardinality(K)
  <1>1. Kept(s, K) \in Seq(S) /\ Len(Kept(s, K)) = c /\ c \in Nat
    BY KeptEntries
  <1>2. PICK at \in [1 .. c -> K] :
            /\ \A k \in 1 .. c : Kept(s, K)[k] = s[at[k]]
            /\ \A j, k \in 1 .. c : j < k => at[j] < at[k]
    BY KeptEntries, SMTT(30)
  <1> DEFINE u == Kept(s, K)
             H == HeldIn(u, a)
             G == HeldIn(s, a)
  <1>2a. u \in Seq(S) /\ Len(u) = c /\ \A k \in 1 .. c : u[k] = s[at[k]]
    BY <1>1, <1>2
  <1> HIDE DEF u, c
  <1>3. H \in SUBSET (1 .. c) /\ \A k \in H : u[k].dst = a
    BY <1>2a DEF HeldIn
  <1>4. \A k \in H : at[k] \in G
    BY <1>2, <1>2a, <1>3 DEF HeldIn
  <1>5. \A k \in 1 .. c : at[k] \in Int
    BY <1>2
  <1>6. ASSUME NEW j \in H, NEW k \in H, at[j] = at[k]
        PROVE  j = k
    <2>1. j \in 1 .. c /\ k \in 1 .. c /\ at[j] \in Int /\ at[k] \in Int
      BY <1>3, <1>5
    <2>2. ~(j < k) /\ ~(k < j)
      BY <1>2, <1>6, <2>1
    <2> QED
      BY <1>1, <2>1, <2>2
  <1>7. IsFiniteSet(G) /\ IsFiniteSet(H)
    BY <1>2a, HeldCount
  <1> DEFINE f == [k \in H |-> at[k]]
  <1>8. f \in [H -> G] /\ \A j, k \in H : f[j] = f[k] => j = k
    BY <1>4, <1>6
  <1> HIDE DEF f, H, G
  <1>9. f \in Injection(H, G)
    BY <1>8 DEF Injection, IsInjective
  <1> QED
    BY <1>7, <1>9, FS_Injection DEF H, G, u

-----------------------------------------------------------------------------
(* What the handlers send.                                                 *)

\* A step neither receives nor sends a message of T.
Quiet(T) == Countable(net', T) /\ Amount(net', T) = Amount(net, T)

\* Where the network is as it was, no message of T came or went.
LEMMA UnchangedQuiet ==
    ASSUME NEW T, Countable(net, T), UNCHANGED net
    PROVE  Quiet(T)
  BY DEF Quiet, Countable, Amount

\* The types of what the handlers send.
LEMMA SameType ==
    ASSUME NEW m \in Message, NEW x \in Nodes
    PROVE  [m EXCEPT !.to = x].type = m.type
  BY DEF Message, FragmentRequest

\* local_broadcast sends copies of one message: their type is its type.
LEMMA BroadcastKind ==
    ASSUME NEW n \in Nodes, NEW ttl, NEW m \in Message, NEW x \in local_broadcast(n, ttl, m)
    PROVE  x.type = m.type
  <1>1. Neigh[n] \in SUBSET Nodes
    BY NodesAssumption
  <1> QED
    BY <1>1, SameType DEF local_broadcast

\* recv_frreq_ori and recv_frreq_fwd pass on fragment requests alone.
LEMMA ForwardKind ==
    ASSUME NEW n \in Nodes, NEW m \in FragmentRequest, NEW x \in Forward(n, m)
    PROVE  x.type \in {"ori", "fwd"}
  BY ForwardTypes DEF FragmentRequest

\* A message of the exchange that a node relays keeps its type.
LEMMA OnwardKind ==
    ASSUME NEW n \in Nodes, NEW m \in Message, m.type \in {"exrep", "addcache"}, NEW x \in Onward(n, m)
    PROVE  x.type = m.type
  <1>1. Route[n][m.ip] \in Nodes
    BY MessageFields, NodesAssumption
  <1> QED
    BY <1>1, SameType DEF Onward

\* The type of what each gen_ function makes.
LEMMA MadeKinds ==
    /\ \A to, src, f, s, metric, ttl : Flreq(to, src, f, s, metric, ttl).type = "flreq"
    /\ \A src, dst, f, dist, frags : Flrep(src, dst, f, dist, frags).type = "flrep"
    /\ \A type, at, src, dst, f, g, ttl : Frreq(type, at, src, dst, f, g, ttl).type = type
    /\ \A to, src, dst, f, g : Exreq(to, src, dst, f, g).type = "exreq"
    /\ \A at, ip, src, f, g, score : Exrep(at, ip, src, f, g, score).type = "exrep"
    /\ \A at, ip, dst, f, g : Addcache(at, ip, dst, f, g).type = "addcache"
  <1>1. \A to, src, f, s, metric, ttl : Flreq(to, src, f, s, metric, ttl).type = "flreq"
    BY DEF Flreq
  <1>2. \A src, dst, f, dist, frags : Flrep(src, dst, f, dist, frags).type = "flrep"
    BY DEF Flrep
  <1>3. \A type, at, src, dst, f, g, ttl : Frreq(type, at, src, dst, f, g, ttl).type = type
    BY DEF Frreq
  <1>4. \A to, src, dst, f, g : Exreq(to, src, dst, f, g).type = "exreq"
    BY DEF Exreq
  <1>5. \A at, ip, src, f, g, score : Exrep(at, ip, src, f, g, score).type = "exrep"
    BY DEF Exrep
  <1>6. \A at, ip, dst, f, g : Addcache(at, ip, dst, f, g).type = "addcache"
    BY DEF Addcache
  <1> QED
    BY <1>1, <1>2, <1>3, <1>4, <1>5, <1>6

\* A request sent out asks for nothing else.
LEMMA GenFlreqQuiet ==
    ASSUME TypeOK, NEW n \in Nodes, NEW f \in Files, gen_flreq(n, f),
           NEW T, Countable(net, T), \A x \in T : x.type # "flreq"
    PROVE  Quiet(T)
  <1> DEFINE a == Flreq(n, n, f, seq + 1, 0, NET_DIAMETER)
             S == local_broadcast(n, NET_DIAMETER, a)
  <1>1. seq + 1 \in 1 .. Len(Asks)
    <2>1. seq \in 0 .. Len(Asks) /\ seq < Len(Asks)
      BY Zenon DEF TypeOK, gen_flreq
    <2>2. Len(Asks) \in Nat
      BY AsksAssumption
    <2> QED
      BY <2>1, <2>2
  <1>2. a \in Message /\ a.type = "flreq"
    BY <1>1, ParamsAssumption, FlreqType, MadeKinds
  <1>3. Send(S)
    BY DEF gen_flreq
  <1> HIDE DEF a
  <1>4. S \cap T = {}
    BY <1>2, BroadcastKind
  <1> HIDE DEF S
  <1> QED
    BY <1>3, <1>4, OtherSent DEF TypeOK, Quiet

\* A retrieval sends fragment requests and asks for bids.
LEMMA RetrievalQuiet ==
    ASSUME TypeOK, NEW n \in Nodes, NEW f \in Files, process_flrep(n, f),
           NEW T, Countable(net, T), \A x \in T : x.type \notin {"ori", "exreq"}
    PROVE  Quiet(T)
  <1> DEFINE chosen == Chosen(n, f)
             dst(g) == rinfo[n][Provider(n, f, g)].dst
             popular == IF n \in ActOn THEN {g \in chosen : reachThreshold(n, f, g)} ELSE {}
             asked == {Frreq("ori", Route[n][dst(g)], n, dst(g), f, g, NET_DIAMETER) : g \in chosen}
             bids == UNION {local_broadcast(n, 1, Exreq(n, n, dst(g), f, g)) : g \in popular}
  <1>1. Send(asked \cup bids) \/ UNCHANGED net
    BY Zenon DEF process_flrep
  <1>2. chosen \in SUBSET Frags /\ popular \in SUBSET chosen
    BY OfferTypes
  <1>3. \A g \in chosen : dst(g) \in Nodes
    BY OfferTypes, ProviderIsReply
  <1> HIDE DEF dst, chosen, popular
  <1>4. \A x \in asked : x.type = "ori"
    BY MadeKinds
  <1>5. \A x \in bids : x.type = "exreq"
    <2> SUFFICES ASSUME NEW g \in popular, NEW x \in local_broadcast(n, 1, Exreq(n, n, dst(g), f, g))
                 PROVE  x.type = "exreq"
      OBVIOUS
    <2>1. dst(g) \in Nodes /\ g \in Frags
      BY <1>2, <1>3
    <2>2. Exreq(n, n, dst(g), f, g) \in Message /\ Exreq(n, n, dst(g), f, g).type = "exreq"
      BY <2>1, ExreqType, MadeKinds
    <2> QED
      BY <2>2, BroadcastKind
  <1> HIDE DEF asked, bids
  <1>6. (asked \cup bids) \cap T = {}
    BY <1>4, <1>5
  <1>7. CASE Send(asked \cup bids)
    BY <1>6, <1>7, OtherSent DEF TypeOK, Quiet
  <1>8. CASE UNCHANGED net
    BY <1>8, UnchangedQuiet
  <1> QED
    BY <1>1, <1>7, <1>8

\* The hook and the handlers of fragment requests send nothing else either.
LEMMA PassingQuiet ==
    ASSUME TypeOK, NEW n \in Nodes,
           \/ \E m \in DOMAIN net : packet_in(n, m)
           \/ \E m \in DOMAIN hook : packet_verdict(n, m)
           \/ \E m \in DOMAIN tasks : recv_frreq_ori(n, m) \/ recv_frreq_fwd(n, m),
           NEW T, Countable(net, T), \A x \in T : x.type \notin {"ori", "fwd", "exreq"}
    PROVE  Quiet(T)
  <1>1. ASSUME NEW m \in DOMAIN net, packet_in(n, m)
        PROVE  Quiet(T)
    <2>1. m \in Message /\ m.type \in {"ori", "fwd"}
      BY <1>1 DEF TypeOK, packet_in
    <2>2. m \in FragmentRequest /\ m \notin T
      BY <2>1, MessageFields
    <2>3. Deliver(m, {}) \/ Deliver(m, Forward(n, m))
      BY <1>1 DEF packet_in
    <2>4. {} \cap T = {} /\ Forward(n, m) \cap T = {}
      BY <2>2, ForwardKind
    <2> QED
      BY <2>2, <2>3, <2>4, OtherDelivered DEF TypeOK, Quiet
  <1>2. ASSUME NEW m \in DOMAIN hook, packet_verdict(n, m)
        PROVE  Quiet(T)
    <2>1. m \in FragmentRequest
      BY DEF TypeOK
    <2>2. Send({}) \/ Send(Forward(n, m))
      BY <1>2 DEF packet_verdict
    <2>3. {} \cap T = {} /\ Forward(n, m) \cap T = {}
      BY <2>1, ForwardKind
    <2> QED
      BY <2>2, <2>3, OtherSent DEF TypeOK, Quiet
  <1>3. ASSUME NEW m \in DOMAIN tasks, recv_frreq_ori(n, m) \/ recv_frreq_fwd(n, m)
        PROVE  Quiet(T)
    <2> DEFINE on == Frreq("fwd", Route[n][m.dst], m.src, m.dst, m.file, m.frag, m.ttl - 1)
               S == send_message(m.ttl - 1, on)
                    \cup local_broadcast(n, 1, Exreq(n, n, m.dst, m.file, m.frag))
    <2>1. UNCHANGED net \/ Send(S) \/ Send({})
      BY <1>3, Zenon DEF recv_frreq_ori, recv_frreq_fwd, ServeFragment, CountPassing, FlushPassing
    <2>2. m.dst \in Nodes /\ m.file \in Files /\ m.frag \in Frags
      BY DEF TypeOK, FragmentRequest
    <2>3. \A x \in send_message(m.ttl - 1, on) : x.type = "fwd"
      BY MadeKinds DEF send_message
    <2>4. \A x \in local_broadcast(n, 1, Exreq(n, n, m.dst, m.file, m.frag)) : x.type = "exreq"
      <3>1. /\ Exreq(n, n, m.dst, m.file, m.frag) \in Message
            /\ Exreq(n, n, m.dst, m.file, m.frag).type = "exreq"
        BY <2>2, ExreqType, MadeKinds
      <3> QED
        BY <3>1, BroadcastKind
    <2>5. S \cap T = {} /\ {} \cap T = {}
      BY <2>3, <2>4
    <2> HIDE DEF S
    <2>6. CASE UNCHANGED net
      BY <2>6, UnchangedQuiet
    <2>7. CASE Send(S) \/ Send({})
      BY <2>5, <2>7, OtherSent DEF TypeOK, Quiet
    <2> QED
      BY <2>1, <2>6, <2>7
  <1> QED
    BY <1>1, <1>2, <1>3

\* Bids are answers to bids.
LEMMA BidQuiet ==
    ASSUME TypeOK, NEW n \in Nodes, NEW m \in DOMAIN net, recv_exreq(n, m) \/ recv_exrep(n, m),
           NEW T, Countable(net, T), \A x \in T : x.type \notin {"exreq", "exrep"}
    PROVE  Quiet(T)
  <1>0. m \in Message
    BY DEF TypeOK
  <1>1. CASE recv_exreq(n, m)
    <2> DEFINE e == Exrep(Route[n][m.src], m.src, n, m.file, m.frag, Score(n, m.file, m.frag))
    <2>1. m.type = "exreq" /\ Deliver(m, send_message(NET_DIAMETER, e))
      BY <1>1 DEF recv_exreq
    <2>2. e.type = "exrep"
      BY MadeKinds
    <2> HIDE DEF e
    <2>3. m \notin T /\ send_message(NET_DIAMETER, e) \cap T = {}
      BY <2>1, <2>2 DEF send_message
    <2> QED
      BY <2>1, <2>3, OtherDelivered DEF TypeOK, Quiet
  <1>2. CASE recv_exrep(n, m)
    <2>1. m.type = "exrep" /\ Deliver(m, Onward(n, m))
      BY <1>2 DEF recv_exrep
    <2>2. m \notin T /\ Onward(n, m) \cap T = {}
      BY <1>0, <2>1, OnwardKind
    <2> QED
      BY <2>1, <2>2, OtherDelivered DEF TypeOK, Quiet
  <1> QED
    BY <1>1, <1>2

\* A fragment that is pushed is all the end of an exchange sends.
LEMMA PushQuiet ==
    ASSUME TypeOK, NEW n \in Nodes,
           \/ \E m \in DOMAIN net : recv_addcache(n, m)
           \/ \E t \in DOMAIN timers : select_agent(n, t),
           NEW T, Countable(net, T), \A x \in T : x.type # "addcache"
    PROVE  Quiet(T)
  <1>1. ASSUME NEW m \in DOMAIN net, recv_addcache(n, m)
        PROVE  Quiet(T)
    <2>0. m \in Message
      BY DEF TypeOK
    <2>1. m.type = "addcache" /\ Deliver(m, Onward(n, m))
      BY <1>1 DEF recv_addcache
    <2>2. m \notin T /\ Onward(n, m) \cap T = {}
      BY <2>0, <2>1, OnwardKind
    <2> QED
      BY <2>1, <2>2, OtherDelivered DEF TypeOK, Quiet
  <1>2. ASSUME NEW t \in DOMAIN timers, select_agent(n, t)
        PROVE  Quiet(T)
    <2>1. \/ UNCHANGED net
          \/ \E a : a.type = "addcache" /\ Send(send_message(NET_DIAMETER, a))
      <3>1. \/ UNCHANGED net
            \/ \E i \in Bids(n, t.file, t.frag) :
                 Send(send_message(NET_DIAMETER,
                      Addcache(Route[n][extable[n][i].neigh], extable[n][i].neigh, t.dst, t.file, t.frag)))
        BY <1>2, Zenon DEF select_agent
      <3> QED
        BY <3>1, MadeKinds
    <2>2. CASE UNCHANGED net
      BY <2>2, UnchangedQuiet
    <2>3. ASSUME NEW a, a.type = "addcache", Send(send_message(NET_DIAMETER, a))
          PROVE  Quiet(T)
      <3>1. send_message(NET_DIAMETER, a) \cap T = {}
        BY <2>3 DEF send_message
      <3> QED
        BY <2>3, <3>1, OtherSent DEF TypeOK, Quiet
    <2> QED
      BY <2>1, <2>2, <2>3
  <1> QED
    BY <1>1, <1>2

-----------------------------------------------------------------------------
(* A file request is answered once: the steps.                             *)

\* The replies of node a for d are file replies of a for d.
LEMMA RepliedKind ==
    ASSUME NEW a, NEW d
    PROVE  \A x \in Replied(a, d) : x.type = "flrep" /\ x.src = a /\ x.to = d
  BY DEF Replied

\* A list that is as it was, or shorter, and as many replies on the air.
LEMMA PaidOther ==
    ASSUME TypeOK, TypeOK', NEW a \in Nodes, NEW d \in Nodes, Paid(a, d), Quiet(Replied(a, d)),
           flood'[a] = flood[a], UNCHANGED reloads,
           Cardinality(HeldIn(rinfo'[d], a)) <= Cardinality(HeldIn(rinfo[d], a))
    PROVE  Paid(a, d)'
  <1> DEFINE T == Replied(a, d)
             h == Cardinality(HeldIn(rinfo[d], a))
             k == Cardinality(HeldIn(rinfo'[d], a))
             s == Cardinality(Seen(a, d))
             x == Amount(net, T)
             y == Amount(net', T)
  <1>1. h \in Nat /\ k \in Nat
    BY HeldCount DEF TypeOK
  <1>2. s \in Nat /\ Seen(a, d)' = Seen(a, d)
    BY SeenCount DEF Seen
  <1>3. x \in Nat
    BY AmountType DEF Paid, TypeOK
  <1>4. Countable(net', T) /\ y = x
    BY DEF Quiet
  <1>5. reloads = 0 => h + x <= s
    BY DEF Paid
  <1>6. k <= h
    OBVIOUS
  <1> HIDE DEF h, k, s, x, y
  <1>7. reloads = 0 => k + y <= s
    BY <1>1, <1>2, <1>3, <1>4, <1>5, <1>6
  <1> QED
    BY <1>2, <1>4, <1>7 DEF Paid, h, k, s, x, y, T

\* A request is answered when it is noted, and not when it was known.
LEMMA FlreqPaid ==
    ASSUME TypeOK, TypeOK', Answered, NEW n \in Nodes, NEW m \in DOMAIN net, recv_flreq(n, m),
           NEW a \in Nodes, NEW d \in Nodes
    PROVE  Paid(a, d)'
  <1> DEFINE T == Replied(a, d)
             r == gen_flrep(n, m.src, m.file, m.metric + 1)
             b == local_broadcast(n, m.ttl - 1,
                            Flreq(n, m.src, m.file, m.seq, m.metric + 1, m.ttl - 1))
  <1>1. m \in Message /\ IsABag(net) /\ Paid(a, d)
    BY DEF TypeOK, Answered
  <1>2. m.type = "flreq" /\ UNCHANGED <<reloads, rinfo>>
    BY DEF recv_flreq
  <1>3. /\ m.src \in Nodes /\ m.file \in Files /\ m.seq \in 1 .. Len(Asks)
        /\ m.metric \in Nat /\ m.ttl \in Nat
    BY <1>1, <1>2, MessageFields
  <1>4. Countable(net, T) /\ m \notin T
    BY <1>1, <1>2, RepliedKind DEF Paid
  <1>5. Cardinality(HeldIn(rinfo'[d], a)) = Cardinality(HeldIn(rinfo[d], a))
        /\ Cardinality(HeldIn(rinfo[d], a)) \in Nat
    BY <1>2, HeldCount DEF TypeOK
  <1>6. CASE DropFlreq(n, m)
    <2>1. Deliver(m, {}) /\ UNCHANGED flood
      BY <1>6, Zenon DEF recv_flreq
    <2>2. Quiet(T)
      BY <1>1, <1>4, <2>1, OtherDelivered DEF Quiet
    <2> QED
      BY <1>1, <1>2, <1>5, <2>1, <2>2, PaidOther
  <1>7. CASE ~DropFlreq(n, m)
    <2>1. /\ flood' = [flood EXCEPT ![n] = insert_flood_id(@, m.src, m.seq)]
          /\ Deliver(m, r \cup b)
      BY <1>7, Zenon DEF recv_flreq
    <2>2. <<m.src, m.seq>> \notin flood[n] /\ m.ttl - 1 \in Nat /\ m.metric + 1 \in Nat
      BY <1>3, <1>7 DEF DropFlreq, find_flood_id
    <2>3. b \cap T = {}
      <3> DEFINE q == Flreq(n, m.src, m.file, m.seq, m.metric + 1, m.ttl - 1)
      <3>1. q \in Message /\ q.type = "flreq"
        <4>1. q \in Message
          BY <1>3, <2>2, FlreqType
        <4>2. q.type = "flreq"
          BY MadeKinds
        <4> QED
          BY <4>1, <4>2
      <3> HIDE DEF q
      <3>2. \A x \in local_broadcast(n, m.ttl - 1, q) : x.type = "flreq"
        BY <3>1, BroadcastKind
      <3> QED
        BY <3>2, RepliedKind DEF q
    <2>4. \E x : r \in SUBSET {x} /\ x.src = n /\ x.to = m.src
      <3> DEFINE x == Flrep(n, m.src, m.file, m.metric + 1, ReplyFrags(n, m.file))
      <3>1. r \in SUBSET {x}
        BY DEF gen_flrep, send_message
      <3>2. x.src = n /\ x.to = m.src
        BY DEF Flrep
      <3> HIDE DEF x, r
      <3> QED
        BY <3>1, <3>2
    <2> HIDE DEF r, b
    <2>5. (r \cup b) \cap T = r \cap T
      BY <2>3
    <2>6. CASE a = n /\ d = m.src
      <3>1. IsFiniteSet((r \cup b) \cap T) /\ Cardinality((r \cup b) \cap T) <= 1
        <4>1. PICK x : r \in SUBSET {x}
          BY <2>4
        <4>2. IsFiniteSet({x}) /\ Cardinality({x}) = 1
          BY FS_Singleton
        <4>3. (r \cup b) \cap T \in SUBSET {x}
          BY <2>5, <4>1
        <4> QED
          BY <4>2, <4>3, FS_Subset
      <3>2. /\ Countable(net', T) /\ Amount(net', T) \in Nat /\ Amount(net, T) \in Nat
            /\ Cardinality((r \cup b) \cap T) \in Nat
            /\ Amount(net', T) = Amount(net, T) + Cardinality((r \cup b) \cap T)
        BY <1>1, <1>4, <2>1, <3>1, DeliverAmount
      <3>3. Seen(a, d)' = Seen(a, d) \cup {<<m.src, m.seq>>}
        <4>1. flood'[n] = flood[n] \cup {<<m.src, m.seq>>}
          BY <2>1 DEF TypeOK, insert_flood_id
        <4>2. <<m.src, m.seq>>[1] = m.src
          OBVIOUS
        <4> QED
          BY <2>6, <4>1, <4>2 DEF Seen
      <3>4. IsFiniteSet(Seen(a, d)) /\ Cardinality(Seen(a, d)) \in Nat /\ <<m.src, m.seq>> \notin Seen(a, d)
        BY <2>2, <2>6, SeenCount DEF Seen
      <3>5. Cardinality(Seen(a, d)') = Cardinality(Seen(a, d)) + 1
        BY <3>3, <3>4, FS_AddElement
      <3> DEFINE h == Cardinality(HeldIn(rinfo[d], a))
                 k == Cardinality(HeldIn(rinfo'[d], a))
                 s == Cardinality(Seen(a, d))
                 u == Cardinality(Seen(a, d)')
                 x == Amount(net, T)
                 y == Amount(net', T)
                 c == Cardinality((r \cup b) \cap T)
      <3>6. reloads = 0 => h + x <= s
        BY <1>1 DEF Paid
      <3>7. h \in Nat /\ k = h /\ s \in Nat /\ u = s + 1 /\ x \in Nat /\ y = x + c /\ c \in Nat /\ c <= 1
        BY <1>5, <3>1, <3>2, <3>4, <3>5
      <3> HIDE DEF h, k, s, u, x, y, c
      <3>8. reloads = 0 => k + y <= u
        BY <3>6, <3>7
      <3> QED
        BY <1>2, <3>2, <3>8 DEF Paid, k, y, u, T
    <2>7. CASE ~(a = n /\ d = m.src)
      <3>1. (r \cup b) \cap T = {}
        BY <2>4, <2>5, <2>7, RepliedKind
      <3>2. Quiet(T)
        BY <1>1, <1>4, <2>1, <3>1, OtherDelivered DEF Quiet
      <3> DEFINE k == Cardinality(HeldIn(rinfo[d], a))
      <3>3. Seen(a, d)' = Seen(a, d)
        <4>1. CASE a = n
          <5>1. flood'[n] = flood[n] \cup {<<m.src, m.seq>>}
            BY <2>1 DEF TypeOK, insert_flood_id
          <5>2. <<m.src, m.seq>>[1] = m.src /\ m.src # d
            BY <2>7, <4>1
          <5> QED
            BY <4>1, <5>1, <5>2 DEF Seen
        <4>2. CASE a # n
          <5>1. flood'[a] = flood[a]
            BY <2>1, <4>2 DEF TypeOK
          <5> QED
            BY <5>1 DEF Seen
        <4> QED
          BY <4>1, <4>2
      <3> QED
        BY <1>1, <1>2, <3>2, <3>3 DEF Paid, Quiet
    <2> QED
      BY <2>6, <2>7
  <1> QED
    BY <1>6, <1>7

\* A reply goes from the air to the list.
LEMMA FlrepPaid ==
    ASSUME TypeOK, TypeOK', Answered, NEW n \in Nodes, NEW m \in DOMAIN net, recv_flrep(n, m),
           NEW a \in Nodes, NEW d \in Nodes
    PROVE  Paid(a, d)'
  <1> DEFINE T == Replied(a, d)
             e == [file |-> m.file, dst |-> m.src, dist |-> m.dist, frags |-> m.frags]
  <1>1. m \in Message /\ IsABag(net) /\ Paid(a, d)
    BY DEF TypeOK, Answered
  <1>2. /\ m.type = "flrep" /\ m.to = n /\ UNCHANGED <<reloads, flood>> /\ Deliver(m, {})
        /\ rinfo' = [rinfo EXCEPT ![n] = create_rinfo(@, m)]
    BY DEF recv_flrep
  <1>3. Countable(net, T) /\ IsFiniteSet({} \cap T) /\ Cardinality({} \cap T) = 0
    <2>1. {} \cap T = {}
      OBVIOUS
    <2> QED
      BY <1>1, <2>1, FS_EmptySet DEF Paid
  <1>4. /\ Countable(net', T) /\ Amount(net', T) \in Nat /\ Amount(net, T) \in Nat
        /\ m \in T => Amount(net', T) + 1 = Amount(net, T)
        /\ m \notin T => Amount(net', T) = Amount(net, T)
    <2>1. /\ Countable(net', T) /\ Amount(net', T) \in Nat /\ Amount(net, T) \in Nat
          /\ m \in T => Amount(net', T) + 1 = Amount(net, T) + Cardinality({} \cap T)
          /\ m \notin T => Amount(net', T) = Amount(net, T) + Cardinality({} \cap T)
      BY <1>1, <1>2, <1>3, DeliverAmount, Zenon
    <2> HIDE DEF T
    <2> QED
      BY <1>3, <2>1
  <1>5. m \in T <=> a = m.src /\ d = n
    BY <1>1, <1>2 DEF Replied
  <1>6. CASE d = n
    <2>1. rinfo[n] \in Seq(Reply) /\ rinfo'[n] = <<e>> \o rinfo[n]
      BY <1>2 DEF TypeOK, create_rinfo
    <2>2. e.dst = m.src
      OBVIOUS
    <2> HIDE DEF e
    <2>3. Cardinality(HeldIn(rinfo'[n], a)) = Cardinality(HeldIn(rinfo[n], a)) + IF m.src = a THEN 1 ELSE 0
      BY <2>1, <2>2, HeldMore
    <2>4. Cardinality(HeldIn(rinfo[n], a)) \in Nat
      BY <2>1, HeldCount
    <2>5. Cardinality(Seen(a, d)) \in Nat /\ Seen(a, d)' = Seen(a, d)
      BY <1>2, SeenCount DEF Seen
    <2> DEFINE h == Cardinality(HeldIn(rinfo[n], a))
               k == Cardinality(HeldIn(rinfo'[n], a))
               s == Cardinality(Seen(a, d))
               x == Amount(net, T)
               y == Amount(net', T)
    <2>6. reloads = 0 => h + x <= s
      BY <1>1, <1>6 DEF Paid
    <2>7. /\ m.src = a => k = h + 1 /\ y + 1 = x
          /\ m.src # a => k = h /\ y = x
      BY <1>4, <1>5, <1>6, <2>3, <2>4
    <2>8. h \in Nat /\ s \in Nat /\ x \in Nat /\ y \in Nat
      BY <1>4, <2>4, <2>5
    <2> HIDE DEF h, k, s, x, y
    <2>9. reloads = 0 => k + y <= s
      BY <2>6, <2>7, <2>8
    <2> QED
      BY <1>2, <1>4, <1>6, <2>5, <2>9 DEF Paid, k, y, s, T
  <1>7. CASE d # n
    <2>1. rinfo'[d] = rinfo[d]
      BY <1>2, <1>7 DEF TypeOK
    <2>2. Quiet(T)
      BY <1>4, <1>5, <1>7 DEF Quiet
    <2>3. Cardinality(HeldIn(rinfo'[d], a)) <= Cardinality(HeldIn(rinfo[d], a))
      <3>1. rinfo[d] \in Seq(Reply)
        BY DEF TypeOK
      <3>2. Cardinality(HeldIn(rinfo[d], a)) \in Nat
        BY <3>1, HeldCount
      <3> QED
        BY <2>1, <3>2
    <2> QED
      BY <1>1, <1>2, <2>2, <2>3, PaidOther
  <1> QED
    BY <1>6, <1>7

\* No other handler moves a reply, notes a request or adds to a list.
LEMMA AnsweredStep ==
    ASSUME TypeOK, TypeOK', Answered, [Next]_vars
    PROVE  Answered'
  <1> SUFFICES ASSUME NEW a \in Nodes, NEW d \in Nodes
               PROVE  Paid(a, d)'
    BY DEF Answered
  <1> DEFINE T == Replied(a, d)
  <1>1. Paid(a, d) /\ Countable(net, T)
    BY DEF Answered, Paid
  <1>2. \A x \in T : x.type = "flrep"
    BY RepliedKind
  <1>3. Cardinality(HeldIn(rinfo[d], a)) \in Nat
    <2>1. rinfo[d] \in Seq(Reply)
      BY DEF TypeOK
    <2> QED
      BY <2>1, HeldCount
  <1> HIDE DEF T
  <1>4. ASSUME Quiet(T), UNCHANGED <<flood, reloads, rinfo>>
        PROVE  Paid(a, d)'
    BY <1>1, <1>3, <1>4, PaidOther DEF T
  <1>5. CASE UNCHANGED vars
    <2>1. Quiet(T)
      BY <1>1, <1>5, UnchangedQuiet DEF vars
    <2> QED
      BY <1>4, <1>5, <2>1 DEF vars
  <1>6. ASSUME NEW n \in Nodes, NEW f \in Files, gen_flreq(n, f)
        PROVE  Paid(a, d)'
    <2>1. Quiet(T)
      BY <1>1, <1>2, <1>6, GenFlreqQuiet
    <2> QED
      BY <1>4, <1>6, <2>1 DEF gen_flreq
  <1>7. ASSUME NEW n \in Nodes, NEW f \in Files, process_flrep(n, f)
        PROVE  Paid(a, d)'
    <2>1. Quiet(T)
      BY <1>1, <1>2, <1>7, RetrievalQuiet
    <2>2. rinfo' = [rinfo EXCEPT ![n] = flush_rinfo(@, f)] /\ UNCHANGED <<flood, reloads>>
      BY <1>7, Zenon DEF process_flrep
    <2>3. Cardinality(HeldIn(rinfo'[d], a)) <= Cardinality(HeldIn(rinfo[d], a))
      <3>1. CASE d = n
        <4>1. rinfo[n] \in Seq(Reply) /\ rinfo'[n] = flush_rinfo(rinfo[n], f)
          BY <2>2 DEF TypeOK
        <4> QED
          BY <3>1, <4>1, HeldFewer DEF flush_rinfo
      <3>2. CASE d # n
        <4>1. rinfo'[d] = rinfo[d]
          BY <2>2, <3>2 DEF TypeOK
        <4> QED
          BY <1>3, <4>1
      <3> QED
        BY <3>1, <3>2
    <2> QED
      BY <1>1, <2>1, <2>2, <2>3, PaidOther DEF T
  <1>8. ASSUME NEW n \in Nodes, NEW m \in DOMAIN net, recv_flreq(n, m)
        PROVE  Paid(a, d)'
    BY <1>8, FlreqPaid
  <1>9. ASSUME NEW n \in Nodes, NEW m \in DOMAIN net, recv_flrep(n, m)
        PROVE  Paid(a, d)'
    BY <1>9, FlrepPaid
  <1>10. ASSUME NEW n \in Nodes, NEW m \in DOMAIN net, packet_in(n, m)
         PROVE  Paid(a, d)'
    <2>1. Quiet(T)
      BY <1>1, <1>2, <1>10, PassingQuiet
    <2> QED
      BY <1>4, <1>10, <2>1 DEF packet_in
  <1>11. ASSUME NEW n \in Nodes, NEW m \in DOMAIN hook, packet_verdict(n, m)
         PROVE  Paid(a, d)'
    <2>1. Quiet(T)
      BY <1>1, <1>2, <1>11, PassingQuiet
    <2> QED
      BY <1>4, <1>11, <2>1 DEF packet_verdict
  <1>12. ASSUME NEW n \in Nodes, NEW m \in DOMAIN tasks, recv_frreq_ori(n, m) \/ recv_frreq_fwd(n, m)
         PROVE  Paid(a, d)'
    <2>1. Quiet(T)
      BY <1>1, <1>2, <1>12, PassingQuiet
    <2> QED
      BY <1>4, <1>12, <2>1 DEF recv_frreq_ori, recv_frreq_fwd
  <1>13. ASSUME NEW n \in Nodes, NEW m \in DOMAIN net, recv_exreq(n, m) \/ recv_exrep(n, m)
         PROVE  Paid(a, d)'
    <2>1. Quiet(T)
      BY <1>1, <1>2, <1>13, BidQuiet
    <2> QED
      BY <1>4, <1>13, <2>1 DEF recv_exreq, recv_exrep
  <1>14. ASSUME NEW n \in Nodes, NEW m \in DOMAIN net, recv_addcache(n, m)
         PROVE  Paid(a, d)'
    <2>1. Quiet(T)
      BY <1>1, <1>2, <1>14, PushQuiet
    <2> QED
      BY <1>4, <1>14, <2>1 DEF recv_addcache
  <1>15. ASSUME NEW n \in Nodes, NEW t \in DOMAIN timers, select_agent(n, t)
         PROVE  Paid(a, d)'
    <2>1. Quiet(T)
      BY <1>1, <1>2, <1>15, PushQuiet
    <2> QED
      BY <1>4, <1>15, <2>1 DEF select_agent
  <1>16. ASSUME NEW n \in Nodes, Reload(n)
         PROVE  Paid(a, d)'
    <2>1. reloads' # 0 /\ UNCHANGED net
      BY <1>16 DEF TypeOK, Reload
    <2> QED
      BY <1>1, <2>1 DEF Paid, T, Countable, Replied
  <1> QED
    BY <1>5, <1>6, <1>7, <1>8, <1>9, <1>10, <1>11, <1>12, <1>13, <1>14, <1>15, <1>16 DEF Next

\* A node answers a request of another once, however many copies of it come
\* by: recv_flreq answers when it notes the request in the flood list, and a
\* reply is in one place only from then on.
THEOREM RequestsAnsweredOnce == Spec => []AnsweredOnce
  <1>1. Init => Answered
    <2> SUFFICES ASSUME Init, NEW a \in Nodes, NEW d \in Nodes
                 PROVE  Paid(a, d)
      BY DEF Answered
    <2>1. DOMAIN net \cap Replied(a, d) = {} /\ HeldIn(rinfo[d], a) = {} /\ Seen(a, d) = {}
      BY BagOfSet DEF Init, EmptyBag, HeldIn, Seen
    <2>2. Copies(net, {}) = 0 /\ IsFiniteSet({}) /\ Cardinality({}) = 0
      <3>1. Units(net, {}) = {}
        BY DEF Units
      <3> QED
        BY <3>1, CopiesUnits, FS_EmptySet
    <2> QED
      BY <2>1, <2>2 DEF Paid, Countable, Amount
  <1>2. TypeOK /\ TypeOK' /\ Answered /\ [Next]_vars => Answered'
    BY AnsweredStep
  <1>3. TypeOK /\ Answered => AnsweredOnce
    <2> SUFFICES ASSUME TypeOK, Answered, reloads = 0, NEW a \in Nodes, NEW d \in Nodes
                 PROVE  Cardinality({i \in DOMAIN rinfo[d] : rinfo[d][i].dst = a})
                          + Copies(net, {m \in DOMAIN net : m.type = "flrep" /\ m.src = a /\ m.to = d})
                        <= Cardinality({r \in flood[a] : r[1] = d})
      BY DEF AnsweredOnce
    <2>1. {m \in DOMAIN net : m.type = "flrep" /\ m.src = a /\ m.to = d} = DOMAIN net \cap Replied(a, d)
      BY DEF TypeOK, Replied
    <2>2. Paid(a, d)
      BY DEF Answered
    <2> QED
      BY <2>1, <2>2 DEF Paid, HeldIn, Seen, Amount
  <1> QED
    BY <1>1, <1>2, <1>3, TypeCorrect, PTL DEF Spec

-----------------------------------------------------------------------------
(* Neighbours: the messages of the prefetch exchange and the bids.         *)

\* Links work both ways, and a neighbour is reached without a relay.
DirectRoutes == \A n \in Nodes : \A x \in Neigh[n] : Route[n][x] = x /\ n \in Neigh[x]

\* A message of the exchange stays between two neighbours.
Near(m) ==
    /\ m.type = "exreq" => m.to \in Neigh[m.src]
    /\ m.type = "exrep" => m.to = m.ip /\ m.src \in Neigh[m.ip]
    /\ m.type = "addcache" => m.to = m.ip

NearBids(n) == \A i \in DOMAIN extable[n] : extable[n][i].neigh \in Neigh[n]

Nearby == (\A m \in DOMAIN net : Near(m)) /\ (\A n \in Nodes : NearBids(n))

\* Messages of other types are near whatever they say.
LEMMA OtherNear ==
    ASSUME NEW m, m.type \notin {"exreq", "exrep", "addcache"}
    PROVE  Near(m)
  BY DEF Near

\* The broadcast of an exchange request reaches the sender's neighbours only.
LEMMA AskedNear ==
    ASSUME NEW n \in Nodes, NEW d \in Nodes, NEW f \in Files, NEW g \in Frags, NEW ttl
    PROVE  \A x \in local_broadcast(n, ttl, Exreq(n, n, d, f, g)) : Near(x)
  <1>1. Neigh[n] \in SUBSET Nodes
    BY NodesAssumption
  <1>2. ASSUME NEW y \in Neigh[n]
        PROVE  Near([Exreq(n, n, d, f, g) EXCEPT !.to = y])
    <2>1. [Exreq(n, n, d, f, g) EXCEPT !.to = y] = Exreq(y, n, d, f, g)
      BY DEF Exreq
    <2>2. /\ Exreq(y, n, d, f, g).type = "exreq"
          /\ Exreq(y, n, d, f, g).to = y /\ Exreq(y, n, d, f, g).src = n
      BY DEF Exreq
    <2> QED
      BY <2>1, <2>2 DEF Near
  <1> QED
    BY <1>2 DEF local_broadcast

\* Sending messages near by leaves every message near by.
LEMMA SentNear ==
    ASSUME TypeOK, Nearby, NEW S, \A x \in S : Near(x), Send(S)
    PROVE  \A x \in DOMAIN net' : Near(x)
  <1>1. DOMAIN net' = DOMAIN net \cup S
    <2>1. IsABag(net) /\ net' = net (+) SetToBag(S)
      BY DEF Send, TypeOK
    <2>2. DOMAIN (net (+) SetToBag(S)) = DOMAIN net \cup S
      BY <2>1, BagOfSet, BagPlus
    <2> QED
      BY <2>1, <2>2
  <1> QED
    BY <1>1 DEF Nearby

\* So does receiving one and sending others.
LEMMA DeliveredNear ==
    ASSUME TypeOK, Nearby, NEW m, NEW S, \A x \in S : Near(x), Deliver(m, S)
    PROVE  \A x \in DOMAIN net' : Near(x)
  <1> DEFINE B == net (-) SetToBag({m})
  <1>1. IsABag(B) /\ DOMAIN B \subseteq DOMAIN net
    BY BagOfSet, BagMinus DEF TypeOK
  <1>2. net' = B (+) SetToBag(S)
    BY DEF Deliver
  <1> HIDE DEF B
  <1>3. DOMAIN net' = DOMAIN B \cup S
    <2>1. DOMAIN (B (+) SetToBag(S)) = DOMAIN B \cup S
      BY <1>1, BagOfSet, BagPlus
    <2> QED
      BY <1>2, <2>1
  <1> QED
    BY <1>1, <1>3 DEF Nearby

\* gen_flreq sends file requests, which may go anywhere.
LEMMA GenFlreqNear ==
    ASSUME TypeOK, Nearby, NEW n \in Nodes, NEW f \in Files, gen_flreq(n, f)
    PROVE  \A x \in DOMAIN net' : Near(x)
  <1> DEFINE a == Flreq(n, n, f, seq + 1, 0, NET_DIAMETER)
             S == local_broadcast(n, NET_DIAMETER, a)
  <1>1. seq + 1 \in 1 .. Len(Asks)
    <2>1. seq \in 0 .. Len(Asks) /\ seq < Len(Asks)
      BY Zenon DEF TypeOK, gen_flreq
    <2>2. Len(Asks) \in Nat
      BY AsksAssumption
    <2> QED
      BY <2>1, <2>2
  <1>2. a \in Message /\ a.type = "flreq"
    BY <1>1, ParamsAssumption, FlreqType, MadeKinds
  <1>3. Send(S)
    BY DEF gen_flreq
  <1> HIDE DEF a
  <1>4. \A x \in S : Near(x)
    BY <1>2, BroadcastKind, OtherNear
  <1> HIDE DEF S
  <1> QED
    BY <1>3, <1>4, SentNear

\* process_flrep sends fragment requests, which may go anywhere.
LEMMA RetrievalNear ==
    ASSUME TypeOK, Nearby, NEW n \in Nodes, NEW f \in Files, process_flrep(n, f)
    PROVE  \A x \in DOMAIN net' : Near(x)
  <1> DEFINE chosen == Chosen(n, f)
             dst(g) == rinfo[n][Provider(n, f, g)].dst
             popular == IF n \in ActOn THEN {g \in chosen : reachThreshold(n, f, g)} ELSE {}
             asked == {Frreq("ori", Route[n][dst(g)], n, dst(g), f, g, NET_DIAMETER) : g \in chosen}
             bids == UNION {local_broadcast(n, 1, Exreq(n, n, dst(g), f, g)) : g \in popular}
  <1>1. Send(asked \cup bids) \/ UNCHANGED net
    BY Zenon DEF process_flrep
  <1>2. chosen \in SUBSET Frags /\ popular \in SUBSET chosen
    BY OfferTypes
  <1>3. \A g \in chosen : dst(g) \in Nodes
    BY OfferTypes, ProviderIsReply
  <1> HIDE DEF dst, chosen, popular
  <1>4. \A x \in asked : Near(x)
    <2>1. \A x \in asked : x.type = "ori"
      BY MadeKinds
    <2> HIDE DEF asked
    <2> QED
      BY <2>1, OtherNear
  <1>5. \A x \in bids : Near(x)
    <2> SUFFICES ASSUME NEW g \in popular, NEW x \in local_broadcast(n, 1, Exreq(n, n, dst(g), f, g))
                 PROVE  Near(x)
      OBVIOUS
    <2>1. dst(g) \in Nodes /\ g \in Frags
      BY <1>2, <1>3
    <2> QED
      BY <2>1, AskedNear
  <1> HIDE DEF asked, bids
  <1>6. \A x \in asked \cup bids : Near(x)
    BY <1>4, <1>5
  <1> QED
    BY <1>1, <1>6, SentNear DEF Nearby

\* recv_flreq sends file requests and replies, which may go anywhere.
LEMMA RecvFlreqNear ==
    ASSUME TypeOK, Nearby, NEW n \in Nodes, NEW m \in DOMAIN net, recv_flreq(n, m)
    PROVE  \A x \in DOMAIN net' : Near(x)
  <1> DEFINE r == gen_flrep(n, m.src, m.file, m.metric + 1)
             q == Flreq(n, m.src, m.file, m.seq, m.metric + 1, m.ttl - 1)
             b == local_broadcast(n, m.ttl - 1, q)
  <1>1. m \in Message /\ m.type = "flreq"
    BY DEF TypeOK, recv_flreq
  <1>2. /\ m.src \in Nodes /\ m.file \in Files /\ m.seq \in 1 .. Len(Asks)
        /\ m.metric \in Nat /\ m.ttl \in Nat
    BY <1>1, MessageFields
  <1>3. CASE DropFlreq(n, m)
    <2>1. Deliver(m, {})
      BY <1>3, Zenon DEF recv_flreq
    <2> QED
      BY <2>1, DeliveredNear
  <1>4. CASE ~DropFlreq(n, m)
    <2>1. Deliver(m, r \cup b)
      BY <1>4, Zenon DEF recv_flreq
    <2>2. m.ttl - 1 \in Nat /\ m.metric + 1 \in Nat
      BY <1>2, <1>4 DEF DropFlreq
    <2>3. q \in Message
      BY <1>2, <2>2, FlreqType
    <2>4. q.type = "flreq"
      BY MadeKinds
    <2> HIDE DEF q
    <2>5. \A x \in b : Near(x)
      BY <2>3, <2>4, BroadcastKind, OtherNear
    <2>6. \A x \in r : x.type = "flrep"
      BY MadeKinds DEF gen_flrep, send_message
    <2> HIDE DEF r, b
    <2>7. \A x \in r \cup b : Near(x)
      BY <2>5, <2>6, OtherNear
    <2> QED
      BY <2>1, <2>7, DeliveredNear
  <1> QED
    BY <1>3, <1>4

\* A fragment request that passes a node: the exchange requests it may start
\* go to neighbours.
LEMMA PassingNear ==
    ASSUME TypeOK, Nearby, NEW n \in Nodes,
           \/ \E m \in DOMAIN net : packet_in(n, m)
           \/ \E m \in DOMAIN hook : packet_verdict(n, m)
           \/ \E m \in DOMAIN tasks : recv_frreq_ori(n, m) \/ recv_frreq_fwd(n, m)
    PROVE  \A x \in DOMAIN net' : Near(x)
  <1>1. ASSUME NEW m \in DOMAIN net, packet_in(n, m)
        PROVE  \A x \in DOMAIN net' : Near(x)
    <2>1. m \in Message /\ m.type \in {"ori", "fwd"}
      BY <1>1 DEF TypeOK, packet_in
    <2>2. m \in FragmentRequest
      BY <2>1, MessageFields
    <2>3. Deliver(m, {}) \/ Deliver(m, Forward(n, m))
      BY <1>1 DEF packet_in
    <2>4. \A x \in Forward(n, m) : Near(x)
      BY <2>2, ForwardKind, OtherNear
    <2> QED
      BY <2>3, <2>4, DeliveredNear
  <1>2. ASSUME NEW m \in DOMAIN hook, packet_verdict(n, m)
        PROVE  \A x \in DOMAIN net' : Near(x)
    <2>1. m \in FragmentRequest
      BY DEF TypeOK
    <2>2. Send({}) \/ Send(Forward(n, m))
      BY <1>2 DEF packet_verdict
    <2>3. \A x \in Forward(n, m) : Near(x)
      BY <2>1, ForwardKind, OtherNear
    <2> QED
      BY <2>2, <2>3, SentNear
  <1>3. ASSUME NEW m \in DOMAIN tasks, recv_frreq_ori(n, m) \/ recv_frreq_fwd(n, m)
        PROVE  \A x \in DOMAIN net' : Near(x)
    <2> DEFINE on == Frreq("fwd", Route[n][m.dst], m.src, m.dst, m.file, m.frag, m.ttl - 1)
               S == send_message(m.ttl - 1, on)
                    \cup local_broadcast(n, 1, Exreq(n, n, m.dst, m.file, m.frag))
    <2>1. UNCHANGED net \/ Send(S) \/ Send({})
      BY <1>3, Zenon DEF recv_frreq_ori, recv_frreq_fwd, ServeFragment, CountPassing, FlushPassing
    <2>2. m.dst \in Nodes /\ m.file \in Files /\ m.frag \in Frags
      BY DEF TypeOK, FragmentRequest
    <2>3. \A x \in send_message(m.ttl - 1, on) : x.type = "fwd"
      BY MadeKinds DEF send_message
    <2>4. \A x \in local_broadcast(n, 1, Exreq(n, n, m.dst, m.file, m.frag)) : Near(x)
      BY <2>2, AskedNear
    <2>5. \A x \in S : Near(x)
      BY <2>3, <2>4, OtherNear
    <2> HIDE DEF S
    <2> QED
      BY <2>1, <2>5, SentNear DEF Nearby
  <1> QED
    BY <1>1, <1>2, <1>3

\* A neighbour's question is answered to that neighbour.
LEMMA RecvExreqNear ==
    ASSUME DirectRoutes, TypeOK, Nearby, NEW n \in Nodes, NEW m \in DOMAIN net, recv_exreq(n, m)
    PROVE  \A x \in DOMAIN net' : Near(x)
  <1> DEFINE e == Exrep(Route[n][m.src], m.src, n, m.file, m.frag, Score(n, m.file, m.frag))
  <1>1. m.type = "exreq" /\ m.to = n /\ Deliver(m, send_message(NET_DIAMETER, e))
    BY DEF recv_exreq
  <1>2. n \in Neigh[m.src] /\ m.src \in Nodes
    BY <1>1, MessageFields DEF Nearby, Near, TypeOK
  <1>3. Route[n][m.src] = m.src
    BY <1>2 DEF DirectRoutes
  <1>4. e.type = "exrep" /\ e.to = Route[n][m.src] /\ e.ip = m.src /\ e.src = n
    BY DEF Exrep
  <1> HIDE DEF e
  <1>5. Near(e)
    BY <1>2, <1>3, <1>4 DEF Near
  <1>6. \A x \in send_message(NET_DIAMETER, e) : Near(x)
    BY <1>5 DEF send_message
  <1> QED
    BY <1>1, <1>6, DeliveredNear

\* A node that drops entries of its exchange table keeps its neighbours' bids.
LEMMA BidsKept ==
    ASSUME TypeOK, NEW n \in Nodes, NEW K \in SUBSET (DOMAIN extable[n]), NearBids(n),
           extable' = [extable EXCEPT ![n] = Kept(@, K)], NEW x \in Nodes, NearBids(x)
    PROVE  NearBids(x)'
  <1>1. extable[n] \in Seq(Bid) /\ n \in DOMAIN extable
    BY DEF TypeOK
  <1>2. CASE x = n
    <2>1. extable'[n] = Kept(extable[n], K)
      BY <1>1
    <2>2. \A k \in DOMAIN Kept(extable[n], K) : \E i \in K : Kept(extable[n], K)[k] = extable[n][i]
      BY <1>1, KeptMembers
    <2> QED
      BY <1>2, <2>1, <2>2 DEF NearBids
  <1>3. CASE x # n
    BY <1>1, <1>3 DEF NearBids
  <1> QED
    BY <1>2, <1>3

\* An answer is for the node it reaches.
LEMMA RecvExrepNear ==
    ASSUME TypeOK, Nearby, NEW n \in Nodes, NEW m \in DOMAIN net, recv_exrep(n, m)
    PROVE  Nearby'
  <1> DEFINE e == [file |-> m.file, frag |-> m.frag, neigh |-> m.src, score |-> m.score]
             u == <<e>> \o extable[n]
  <1>1. /\ m.type = "exrep" /\ m.to = n /\ Deliver(m, Onward(n, m))
        /\ extable' = [extable EXCEPT ![n] = create_extable(@, m)]
    BY DEF recv_exrep
  <1>2. m.ip = n /\ m.src \in Neigh[n]
    BY <1>1 DEF Nearby, Near
  <1>3. Onward(n, m) = {}
    BY <1>2 DEF Onward
  <1>4. \A x \in DOMAIN net' : Near(x)
    BY <1>1, <1>3, DeliveredNear
  <1>5. extable[n] \in Seq(Bid) /\ extable'[n] = u
    BY <1>1 DEF TypeOK, create_extable
  <1>6. e.neigh = m.src
    OBVIOUS
  <1> HIDE DEF e
  <1>7. /\ DOMAIN u = 1 .. Len(extable[n]) + 1 /\ DOMAIN extable[n] = 1 .. Len(extable[n])
        /\ u[1] = e
        /\ \A i \in 2 .. Len(extable[n]) + 1 : u[i] = extable[n][i - 1] /\ i - 1 \in 1 .. Len(extable[n])
    BY <1>5
  <1> HIDE DEF u
  <1>8. \A i \in DOMAIN u : u[i].neigh \in Neigh[n]
    <2> SUFFICES ASSUME NEW i \in DOMAIN u
                 PROVE  u[i].neigh \in Neigh[n]
      OBVIOUS
    <2>1. CASE i = 1
      BY <1>2, <1>6, <1>7, <2>1
    <2>2. CASE i # 1
      <3>1. i \in 2 .. Len(extable[n]) + 1
        BY <1>7, <2>2
      <3> QED
        BY <1>7, <3>1 DEF Nearby, NearBids
    <2> QED
      BY <2>1, <2>2
  <1>9. \A x \in Nodes : NearBids(x)'
    <2> SUFFICES ASSUME NEW x \in Nodes
                 PROVE  NearBids(x)'
      OBVIOUS
    <2>1. CASE x = n
      BY <1>5, <1>8, <2>1 DEF NearBids
    <2>2. CASE x # n
      BY <1>1, <2>2 DEF TypeOK, Nearby, NearBids
    <2> QED
      BY <2>1, <2>2
  <1> QED
    BY <1>4, <1>9 DEF Nearby

\* A fragment is pushed to a neighbour.
LEMMA SelectNear ==
    ASSUME DirectRoutes, TypeOK, Nearby, NEW n \in Nodes, NEW t \in DOMAIN timers, select_agent(n, t)
    PROVE  Nearby'
  <1>1. \/ UNCHANGED net
        \/ \E i \in Bids(n, t.file, t.frag) :
                 Send(send_message(NET_DIAMETER,
                      Addcache(Route[n][extable[n][i].neigh], extable[n][i].neigh, t.dst, t.file, t.frag)))
    BY Zenon DEF select_agent
  <1>2. ASSUME NEW i \in Bids(n, t.file, t.frag),
               Send(send_message(NET_DIAMETER,
                      Addcache(Route[n][extable[n][i].neigh], extable[n][i].neigh, t.dst, t.file, t.frag)))
        PROVE  \A x \in DOMAIN net' : Near(x)
    <2> DEFINE y == extable[n][i].neigh
               a == Addcache(Route[n][y], y, t.dst, t.file, t.frag)
    <2>1. y \in Neigh[n]
      BY DEF Bids, Nearby, NearBids
    <2>2. Route[n][y] = y
      BY <2>1 DEF DirectRoutes
    <2>3. a.type = "addcache" /\ a.to = Route[n][y] /\ a.ip = y
      BY DEF Addcache
    <2>4. Send(send_message(NET_DIAMETER, a))
      BY <1>2
    <2> HIDE DEF a, y
    <2>5. \A x \in send_message(NET_DIAMETER, a) : Near(x)
      BY <2>2, <2>3 DEF send_message, Near
    <2> QED
      BY <2>4, <2>5, SentNear
  <1>3. \A x \in DOMAIN net' : Near(x)
    BY <1>1, <1>2 DEF Nearby
  <1>4. extable' = [extable EXCEPT ![n] = flush_extable(@, t.file, t.frag)]
    BY Zenon DEF select_agent
  <1> DEFINE K == {i \in DOMAIN extable[n] : extable[n][i].file # t.file \/ extable[n][i].frag # t.frag}
  <1>5. extable' = [extable EXCEPT ![n] = Kept(@, K)] /\ K \in SUBSET (DOMAIN extable[n])
    BY <1>4 DEF TypeOK, flush_extable
  <1> HIDE DEF K
  <1>6. \A x \in Nodes : NearBids(x)'
    BY <1>5, BidsKept DEF Nearby
  <1> QED
    BY <1>3, <1>6 DEF Nearby

\* What is near by stays near by: every step.
LEMMA NearStep ==
    ASSUME DirectRoutes, TypeOK, Nearby, [Next]_vars
    PROVE  Nearby'
  <1>1. ASSUME UNCHANGED extable, \A x \in DOMAIN net' : Near(x)
        PROVE  Nearby'
    BY <1>1 DEF Nearby, NearBids
  <1>2. CASE UNCHANGED vars
    BY <1>2, <1>1 DEF vars, Nearby
  <1>3. ASSUME NEW n \in Nodes, NEW f \in Files, gen_flreq(n, f)
        PROVE  Nearby'
    BY <1>1, <1>3, GenFlreqNear DEF gen_flreq
  <1>4. ASSUME NEW n \in Nodes, NEW f \in Files, process_flrep(n, f)
        PROVE  Nearby'
    <2>1. UNCHANGED extable
      BY <1>4, Zenon DEF process_flrep
    <2> QED
      BY <1>1, <1>4, <2>1, RetrievalNear
  <1>5. ASSUME NEW n \in Nodes, NEW m \in DOMAIN net, recv_flreq(n, m)
        PROVE  Nearby'
    BY <1>1, <1>5, RecvFlreqNear DEF recv_flreq
  <1>6. ASSUME NEW n \in Nodes, NEW m \in DOMAIN net, recv_flrep(n, m)
        PROVE  Nearby'
    <2>1. Deliver(m, {}) /\ UNCHANGED extable
      BY <1>6 DEF recv_flrep
    <2> QED
      BY <1>1, <2>1, DeliveredNear
  <1>7. ASSUME NEW n \in Nodes, NEW m \in DOMAIN net, packet_in(n, m)
        PROVE  Nearby'
    <2>1. \A x \in DOMAIN net' : Near(x)
      BY <1>7, PassingNear
    <2> QED
      BY <1>1, <1>7, <2>1 DEF packet_in
  <1>8. ASSUME NEW n \in Nodes, NEW m \in DOMAIN hook, packet_verdict(n, m)
        PROVE  Nearby'
    <2>1. \A x \in DOMAIN net' : Near(x)
      BY <1>8, PassingNear
    <2> QED
      BY <1>1, <1>8, <2>1 DEF packet_verdict
  <1>9. ASSUME NEW n \in Nodes, NEW m \in DOMAIN tasks, recv_frreq_ori(n, m) \/ recv_frreq_fwd(n, m)
        PROVE  Nearby'
    <2>1. \A x \in DOMAIN net' : Near(x)
      BY <1>9, PassingNear
    <2> QED
      BY <1>1, <1>9, <2>1 DEF recv_frreq_ori, recv_frreq_fwd
  <1>10. ASSUME NEW n \in Nodes, NEW m \in DOMAIN net, recv_exreq(n, m)
         PROVE  Nearby'
    BY <1>1, <1>10, RecvExreqNear DEF recv_exreq
  <1>11. ASSUME NEW n \in Nodes, NEW m \in DOMAIN net, recv_exrep(n, m)
         PROVE  Nearby'
    BY <1>11, RecvExrepNear
  <1>12. ASSUME NEW n \in Nodes, NEW m \in DOMAIN net, recv_addcache(n, m)
         PROVE  Nearby'
    <2>1. m.type = "addcache" /\ m.to = n /\ Deliver(m, Onward(n, m)) /\ UNCHANGED extable
      BY <1>12 DEF recv_addcache
    <2>2. Onward(n, m) = {}
      BY <2>1 DEF Nearby, Near, Onward
    <2> QED
      BY <1>1, <2>1, <2>2, DeliveredNear
  <1>13. ASSUME NEW n \in Nodes, NEW t \in DOMAIN timers, select_agent(n, t)
         PROVE  Nearby'
    BY <1>13, SelectNear
  <1>14. ASSUME NEW n \in Nodes, Reload(n)
         PROVE  Nearby'
    <2>1. UNCHANGED net /\ extable' = [extable EXCEPT ![n] = <<>>]
      BY <1>14 DEF Reload
    <2>2. \A x \in Nodes : x # n => extable'[x] = extable[x]
      BY <2>1 DEF TypeOK
    <2>3. extable'[n] = <<>>
      BY <2>1 DEF TypeOK
    <2>4. \A x \in Nodes : NearBids(x)'
      BY <2>2, <2>3 DEF Nearby, NearBids
    <2> QED
      BY <2>1, <2>4 DEF Nearby
  <1> QED
    BY <1>2, <1>3, <1>4, <1>5, <1>6, <1>7, <1>8, <1>9, <1>10, <1>11, <1>12, <1>13, <1>14 DEF Next

-----------------------------------------------------------------------------
(* What is stored was asked for: the counts.                               *)

Adds      == {m \in Message : m.type = "addcache"}
AddTimers == {t \in Timer : t.type = "ADD_CACHE_SEND"}

\* The requests counted in the request lists that no exchange has used up.
Counts(cl) == [q \in Nodes \X Pairs |-> IF cl[q[1]][q[2]] = NoCreq THEN 0 ELSE cl[q[1]][q[2]]]
Listed(cl) == Copies(Counts(cl), Nodes \X Pairs)

Funded ==
    /\ Countable(net, Adds) /\ Countable(timers, AddTimers)
    /\ THRESHOLD * (stores + Amount(timers, AddTimers) + Amount(net, Adds)) + Listed(crlist) <= counted

CrlistType == [Nodes -> [Pairs -> NoCreq .. U32 - 1]]

\* The slots of all the request lists are finitely many.
LEMMA SlotsFinite == IsFiniteSet(Nodes \X Pairs)
  <1>1. IsFiniteSet(Pairs)
    BY FragIdsAssumption, FS_Product DEF Pairs
  <1> QED
    BY <1>1, NodesAssumption, FS_Product

\* The requests counted in the request lists amount to a number.
LEMMA CountsType ==
    ASSUME NEW cl \in CrlistType
    PROVE  /\ \A q \in Nodes \X Pairs : Counts(cl)[q] \in Nat
           /\ Listed(cl) \in Nat
  <1>1. \A q \in Nodes \X Pairs : Counts(cl)[q] \in Nat
    <2> SUFFICES ASSUME NEW q \in Nodes \X Pairs
                 PROVE  Counts(cl)[q] \in Nat
      OBVIOUS
    <2> DEFINE c == cl[q[1]][q[2]]
    <2>1. c \in NoCreq .. U32 - 1
      BY DEF CrlistType
    <2>2. Counts(cl)[q] = IF c = NoCreq THEN 0 ELSE c
      BY DEF Counts
    <2> HIDE DEF c
    <2> QED
      BY <2>1, <2>2, U32Assumption DEF NoCreq
  <1> HIDE DEF Counts
  <1>2. Listed(cl) \in Nat
    BY <1>1, SlotsFinite, UnitsFinite DEF Listed
  <1> QED
    BY <1>1, <1>2

\* Lists whose counts are no higher.
LEMMA ListedLess ==
    ASSUME NEW cl \in CrlistType, NEW dl \in CrlistType,
           \A q \in Nodes \X Pairs : Counts(dl)[q] <= Counts(cl)[q]
    PROVE  Listed(dl) <= Listed(cl) /\ Listed(dl) \in Nat /\ Listed(cl) \in Nat
  <1>1. \A q \in Nodes \X Pairs : Counts(cl)[q] \in Nat /\ Counts(dl)[q] \in Nat
    BY CountsType
  <1> QED
    BY <1>1, CountsType, SlotsFinite, CopiesGrow DEF Listed

\* Of what is counted at the slots A, those at B reach the threshold: their
\* counts are used up.
LEMMA ListedCount ==
    ASSUME NEW cl \in CrlistType, NEW dl \in CrlistType,
           NEW A \in SUBSET (Nodes \X Pairs), NEW B \in SUBSET A,
           \A q \in (Nodes \X Pairs) \ A : Counts(dl)[q] <= Counts(cl)[q],
           \A q \in A \ B : Counts(dl)[q] <= Counts(cl)[q] + 1,
           \A q \in B : Counts(dl)[q] = 0 /\ Counts(cl)[q] + 1 >= THRESHOLD
    PROVE  /\ Cardinality(A) \in Nat /\ Cardinality(B) \in Nat
           /\ Listed(dl) \in Nat /\ Listed(cl) \in Nat
           /\ Listed(dl) + THRESHOLD * Cardinality(B) <= Listed(cl) + Cardinality(A)
  <1> DEFINE D == Nodes \X Pairs
             F == Counts(cl)
             G == Counts(dl)
             O == D \ A
             M == A \ B
             k == IF THRESHOLD = 0 THEN 0 ELSE THRESHOLD - 1
  <1>1. /\ \A q \in D : F[q] \in Nat /\ G[q] \in Nat
        /\ Listed(dl) = Copies(G, D) /\ Listed(cl) = Copies(F, D)
        /\ Listed(dl) \in Nat /\ Listed(cl) \in Nat
    BY CountsType DEF Listed
  <1>2. IsFiniteSet(O) /\ IsFiniteSet(M) /\ IsFiniteSet(B) /\ IsFiniteSet(A)
    BY SlotsFinite, FS_Subset
  <1>3. /\ D = O \cup A /\ O \cap A = {}
        /\ A = M \cup B /\ M \cap B = {}
    OBVIOUS
  <1>4. THRESHOLD \in Nat /\ k \in Nat /\ THRESHOLD <= k + 1
    BY ParamsAssumption
  <1>5. /\ \A q \in O : G[q] <= F[q]
        /\ \A q \in M : G[q] <= F[q] + 1
        /\ \A q \in B : G[q] = 0 /\ F[q] >= k
    BY <1>1, <1>4
  <1>6. O \in SUBSET D /\ M \in SUBSET D /\ B \in SUBSET D /\ A \in SUBSET D
    OBVIOUS
  <1> HIDE DEF D, F, G, O, M, k
  <1>7. /\ Copies(F, D) = Copies(F, O) + Copies(F, A)
        /\ Copies(F, A) = Copies(F, M) + Copies(F, B)
        /\ Copies(F, O) \in Nat /\ Copies(F, M) \in Nat /\ Copies(F, B) \in Nat
    <2>1. /\ \A q \in O \cup A : F[q] \in Int
          /\ \A q \in M \cup B : F[q] \in Int
      BY <1>1, <1>6
    <2> QED
      BY <1>2, <1>3, <2>1, CopiesSplit
  <1>8. /\ Copies(G, D) = Copies(G, O) + Copies(G, A)
        /\ Copies(G, A) = Copies(G, M) + Copies(G, B)
        /\ Copies(G, O) \in Nat /\ Copies(G, M) \in Nat /\ Copies(G, B) \in Nat
    <2>1. /\ \A q \in O \cup A : G[q] \in Int
          /\ \A q \in M \cup B : G[q] \in Int
      BY <1>1, <1>6
    <2> QED
      BY <1>2, <1>3, <2>1, CopiesSplit
  <1>9. Copies(G, O) <= Copies(F, O)
    <2>1. \A q \in O : F[q] \in Int /\ G[q] \in Int
      BY <1>1, <1>6
    <2> QED
      BY <1>2, <1>5, <2>1, CopiesGrow
  <1>10. Copies(G, M) <= Copies(F, M) + Cardinality(M)
    <2> DEFINE H == [q \in M |-> F[q] + 1]
    <2>1. \A q \in M : F[q] \in Nat /\ G[q] \in Nat
      BY <1>1, <1>6
    <2>2. \A q \in M : H[q] = F[q] + 1
      OBVIOUS
    <2> HIDE DEF H
    <2>3. Copies(H, M) = Copies(F, M) + Cardinality(M)
      <3>1. M = M \cup M /\ M \ M = {}
        OBVIOUS
      <3> QED
        BY <1>2, <2>1, <2>2, <3>1, CopiesPlus
    <2>4. Copies(G, M) <= Copies(H, M)
      <3>1. /\ \A q \in M : H[q] \in Int
            /\ \A q \in M : G[q] \in Int /\ G[q] <= H[q]
        BY <1>5, <2>1, <2>2
      <3> QED
        BY <1>2, <3>1, CopiesGrow
    <2> QED
      BY <2>3, <2>4
  <1>11. Copies(G, B) = 0
    <2>1. Units(G, B) = {}
      <3> SUFFICES ASSUME NEW u \in Units(G, B)
                   PROVE  FALSE
        OBVIOUS
      <3>1. PICK x \in B : \E j \in 1 .. G[x] : u = <<x, j>>
        BY UnitOf
      <3>2. 1 .. G[x] = {}
        BY <1>5
      <3> QED
        BY <3>1, <3>2
    <2> QED
      BY <2>1, CopiesUnits, FS_EmptySet
  <1>12. Cardinality(B) \in Nat /\ Copies(F, B) >= Cardinality(B) * k
    <2>1. \A q \in B : F[q] \in Int /\ F[q] >= k
      BY <1>1, <1>5, <1>6
    <2> QED
      BY <1>2, <1>4, <2>1, CopiesAtLeast
  <1>13. Cardinality(A) = Cardinality(M) + Cardinality(B) /\ Cardinality(M) \in Nat
    <2>1. Cardinality(M \cup B) = Cardinality(M) + Cardinality(B) - Cardinality(M \cap B)
      BY <1>2, FS_Union
    <2>2. Cardinality(M \cap B) = 0
      BY <1>3, FS_EmptySet
    <2>3. Cardinality(M) \in Nat
      BY <1>2, FS_CardinalityType
    <2> QED
      BY <1>3, <1>12, <2>1, <2>2, <2>3
  <1>14. THRESHOLD * Cardinality(B) <= Cardinality(B) * k + Cardinality(B)
    <2> DEFINE b == Cardinality(B)
               t == THRESHOLD
    <2>1. b \in Nat /\ t \in Nat /\ ((t = 0 /\ k = 0) \/ t = k + 1)
      BY <1>4, <1>12 DEF k
    <2> HIDE DEF b, t
    <2>2. b * k \in Nat
      BY <1>4, <2>1
    <2>3. t * b <= b * k + b
      <3>1. CASE t = 0
        <4>1. 0 * b = 0
          BY <2>1
        <4> QED
          BY <2>1, <2>2, <3>1, <4>1
      <3>2. CASE t = k + 1
        <4>1. (k + 1) * b = b * k + b
          BY <1>4, <2>1
        <4> QED
          BY <2>1, <2>2, <3>2, <4>1
      <3> QED
        BY <2>1, <3>1, <3>2
    <2> QED
      BY <2>3 DEF b, t
  <1> DEFINE fo == Copies(F, O)
             fm == Copies(F, M)
             fb == Copies(F, B)
             go == Copies(G, O)
             gm == Copies(G, M)
             b == Cardinality(B)
             bk == b * k
             tb == THRESHOLD * b
             c == Cardinality(M)
  <1>15. /\ fo \in Nat /\ fm \in Nat /\ fb \in Nat /\ go \in Nat /\ gm \in Nat /\ b \in Nat /\ c \in Nat
         /\ bk \in Nat /\ tb \in Nat
         /\ go <= fo /\ gm <= fm + c /\ fb >= bk /\ tb <= bk + b
    BY <1>4, <1>7, <1>8, <1>9, <1>10, <1>12, <1>13, <1>14
  <1>16. Listed(cl) = fo + (fm + fb) /\ Listed(dl) = go + (gm + 0) /\ Cardinality(A) = c + b
    BY <1>1, <1>7, <1>8, <1>11, <1>13
  <1> HIDE DEF fo, fm, fb, go, gm, bk, tb, b, c
  <1>17. Listed(dl) + tb <= Listed(cl) + (c + b)
    BY <1>15, <1>16
  <1> QED
    BY <1>1, <1>12, <1>13, <1>16, <1>17 DEF tb, b, c

-----------------------------------------------------------------------------
(* Counting a request.                                                     *)

\* Counting modulo u never gives more than was counted.
LEMMA Modulo ==
    ASSUME NEW u \in Nat, u > 0, NEW x \in 0 .. u
    PROVE  x % u <= x /\ x % u \in Nat /\ (x < u => x % u = x)
  <1>1. x % u \in 0 .. u - 1
    OBVIOUS
  <1>2. CASE x < u
    <2>1. x % u = x
      BY <1>2, Z3
    <2> QED
      BY <1>1, <2>1
  <1>3. CASE x = u
    BY <1>1, <1>3
  <1> QED
    BY <1>2, <1>3

\* One request counted: the count goes up by one at most, and one that has
\* reached the threshold starts again from 0.
LEMMA CountOne ==
    ASSUME TypeOK, NEW n \in Nodes, NEW f \in Files, NEW g \in Frags,
           NEW c, c = crlist[n][<<f, g>>], NEW d, d = Count(n, f, g)
    PROVE  /\ d \in 0 .. U32 - 1 /\ c \in NoCreq .. U32 - 1
           /\ reachThreshold(n, f, g) => c # NoCreq /\ d = 0 /\ c + 1 >= THRESHOLD
           /\ d <= (IF c = NoCreq THEN 0 ELSE c) + 1
  <1>1. c \in NoCreq .. U32 - 1
    BY DEF TypeOK, Pairs
  <1>2. U32 \in Nat /\ U32 > 1 /\ THRESHOLD \in 0 .. U32 - 1
    BY ParamsAssumption, U32Assumption
  <1>3. d = IF c = NoCreq THEN 1 ELSE IF reachThreshold(n, f, g) THEN 0 ELSE (c + 1) % U32
    BY DEF Count
  <1>4. reachThreshold(n, f, g) <=> c # NoCreq /\ c >= (THRESHOLD - 1) % U32
    BY DEF reachThreshold
  <1>5. (THRESHOLD - 1) % U32 \in 0 .. U32 - 1 /\ (THRESHOLD - 1) % U32 >= THRESHOLD - 1
    <2>1. CASE THRESHOLD = 0
      <3>1. (THRESHOLD - 1) % U32 \in 0 .. U32 - 1
        BY <1>2
      <3> QED
        BY <1>2, <2>1, <3>1
    <2>2. CASE THRESHOLD # 0
      <3>1. THRESHOLD - 1 \in 0 .. U32 /\ THRESHOLD - 1 < U32
        BY <1>2, <2>2
      <3>2. (THRESHOLD - 1) % U32 = THRESHOLD - 1
        BY <1>2, <3>1, Modulo
      <3> QED
        BY <1>2, <3>1, <3>2
    <2> QED
      BY <2>1, <2>2
  <1>6. c # NoCreq => (c + 1) % U32 <= c + 1
    <2>1. c # NoCreq => c + 1 \in 0 .. U32
      BY <1>1, <1>2 DEF NoCreq
    <2> QED
      BY <1>2, <2>1, Modulo
  <1>7. d \in 0 .. U32 - 1
    BY CountType
  <1> DEFINE r == reachThreshold(n, f, g)
             t == (THRESHOLD - 1) % U32
             e == (c + 1) % U32
  <1> HIDE DEF r, t, e
  <1>8. /\ d = IF c = NoCreq THEN 1 ELSE IF r THEN 0 ELSE e
        /\ r <=> c # NoCreq /\ c >= t
        /\ t \in 0 .. U32 - 1 /\ t >= THRESHOLD - 1
        /\ c # NoCreq => e <= c + 1
    BY <1>3, <1>4, <1>5, <1>6, Zenon DEF r, t, e
  <1>9. r => c # NoCreq /\ d = 0 /\ c + 1 >= THRESHOLD
    BY <1>1, <1>2, <1>8 DEF NoCreq
  <1>10. d <= (IF c = NoCreq THEN 0 ELSE c) + 1
    <2>1. CASE c = NoCreq
      BY <1>8, <2>1
    <2>2. CASE c # NoCreq /\ r
      BY <1>1, <1>8, <2>2 DEF NoCreq
    <2>3. CASE c # NoCreq /\ ~r
      BY <1>1, <1>8, <2>3 DEF NoCreq
    <2> QED
      BY <2>1, <2>2, <2>3
  <1> QED
    BY <1>1, <1>7, <1>9, <1>10 DEF r

\* The slots of fragments C of file f at node n.
At(n, f, C) == {<<n, <<f, g>>>> : g \in C}

\* The slots of node n and file f are as many as the fragments they are for.
LEMMA AtCount ==
    ASSUME NEW n, NEW f, NEW C, IsFiniteSet(C)
    PROVE  Cardinality(At(n, f, C)) = Cardinality(C)
  <1> DEFINE h == [g \in C |-> <<n, <<f, g>>>>]
             A == At(n, f, C)
  <1>1. h \in [C -> A]
    BY DEF At
  <1>2. ASSUME NEW x \in C, NEW y \in C, h[x] = h[y]
        PROVE  x = y
    <2>1. <<n, <<f, x>>>> = <<n, <<f, y>>>>
      BY <1>2
    <2>2. <<f, x>> = <<f, y>>
      BY <2>1
    <2> QED
      BY <2>2
  <1>3. \A z \in A : \E x \in C : h[x] = z
    BY DEF At
  <1> HIDE DEF h, A
  <1>4. h \in Bijection(C, A)
    BY <1>1, <1>2, <1>3, Fun_IsBij, Zenon
  <1>5. ExistsBijection(C, A)
    BY <1>4 DEF ExistsBijection
  <1>6. Cardinality(A) = Cardinality(C)
    BY <1>5, FS_Bijection
  <1> QED
    BY <1>6 DEF A

\* The fragments C are counted at n, those of P have reached the threshold.
LEMMA CountingStep ==
    ASSUME TypeOK, TypeOK', NEW n \in Nodes, NEW f \in Files, NEW C \in SUBSET Frags,
           NEW P, P = {g \in C : reachThreshold(n, f, g)},
           \A q \in Nodes \X Pairs :
               crlist'[q[1]][q[2]] = IF q \in At(n, f, C) THEN Count(n, f, q[2][2]) ELSE crlist[q[1]][q[2]]
    PROVE  /\ Cardinality(C) \in Nat /\ Cardinality(P) \in Nat /\ IsFiniteSet(P)
           /\ Listed(crlist') \in Nat /\ Listed(crlist) \in Nat
           /\ Listed(crlist') + THRESHOLD * Cardinality(P) <= Listed(crlist) + Cardinality(C)
  <1> DEFINE A == At(n, f, C)
             B == At(n, f, P)
  <1>1. crlist \in CrlistType /\ crlist' \in CrlistType
    BY DEF TypeOK, CrlistType
  <1>2. IsFiniteSet(C) /\ IsFiniteSet(P) /\ P \in SUBSET C
    BY FragIdsAssumption, FS_Subset
  <1>3. A \in SUBSET (Nodes \X Pairs) /\ B \in SUBSET A
    BY DEF At, Pairs
  <1>4. Cardinality(A) = Cardinality(C) /\ Cardinality(B) = Cardinality(P)
    BY <1>2, AtCount
  <1>5. \A q \in (Nodes \X Pairs) \ A : Counts(crlist')[q] <= Counts(crlist)[q]
    <2> SUFFICES ASSUME NEW q \in (Nodes \X Pairs) \ A
                 PROVE  Counts(crlist')[q] <= Counts(crlist)[q]
      OBVIOUS
    <2>1. Counts(crlist)[q] \in Nat
      BY <1>1, CountsType
    <2>2. Counts(crlist')[q] = Counts(crlist)[q]
      BY DEF Counts
    <2> QED
      BY <2>1, <2>2
  <1>6. ASSUME NEW g \in C, NEW q, q = <<n, <<f, g>>>>
        PROVE  /\ Counts(crlist')[q] <= Counts(crlist)[q] + 1
               /\ g \in P => Counts(crlist')[q] = 0 /\ Counts(crlist)[q] + 1 >= THRESHOLD
    <2> DEFINE c == crlist[n][<<f, g>>]
               d == Count(n, f, g)
    <2>1. q \in Nodes \X Pairs /\ q \in A /\ q[1] = n /\ q[2] = <<f, g>> /\ q[2][2] = g
      BY <1>6 DEF At, Pairs
    <2>2. crlist'[q[1]][q[2]] = d
      BY <2>1
    <2>3. /\ d \in 0 .. U32 - 1 /\ c \in NoCreq .. U32 - 1
          /\ reachThreshold(n, f, g) => c # NoCreq /\ d = 0 /\ c + 1 >= THRESHOLD
          /\ d <= (IF c = NoCreq THEN 0 ELSE c) + 1
      BY CountOne
    <2>4. g \in P <=> reachThreshold(n, f, g)
      OBVIOUS
    <2>5. Counts(crlist)[q] = IF c = NoCreq THEN 0 ELSE c
      BY <2>1 DEF Counts
    <2> HIDE DEF c, d
    <2>6. Counts(crlist')[q] = d
      <3>1. Counts(crlist')[q] = IF crlist'[q[1]][q[2]] = NoCreq THEN 0 ELSE crlist'[q[1]][q[2]]
        BY <2>1 DEF Counts
      <3>2. d # NoCreq
        BY <2>3 DEF NoCreq
      <3> QED
        BY <2>2, <3>1, <3>2
    <2> QED
      BY <2>3, <2>4, <2>5, <2>6
  <1>7. /\ \A q \in A \ B : Counts(crlist')[q] <= Counts(crlist)[q] + 1
        /\ \A q \in B : Counts(crlist')[q] = 0 /\ Counts(crlist)[q] + 1 >= THRESHOLD
    <2>1. \A q \in A : \E g \in C : q = <<n, <<f, g>>>>
      BY DEF At
    <2>2. \A q \in B : \E g \in C : q = <<n, <<f, g>>>> /\ g \in P
      BY <1>2 DEF At
    <2> HIDE DEF A, B
    <2> QED
      BY <1>6, <2>1, <2>2
  <1> HIDE DEF A, B
  <1>8. /\ Cardinality(A) \in Nat /\ Cardinality(B) \in Nat
        /\ Listed(crlist') \in Nat /\ Listed(crlist) \in Nat
        /\ Listed(crlist') + THRESHOLD * Cardinality(B) <= Listed(crlist) + Cardinality(A)
    BY <1>1, <1>3, <1>5, <1>7, ListedCount
  <1> QED
    BY <1>2, <1>4, <1>8

-----------------------------------------------------------------------------
(* What a step stores.                                                     *)

\* What has been stored or still may be.
Prefetched == stores + Amount(timers, AddTimers) + Amount(net, Adds)

\* What has been stored or still may be is a number.
LEMMA PrefetchedType ==
    ASSUME TypeOK, Countable(net, Adds), Countable(timers, AddTimers)
    PROVE  /\ Amount(timers, AddTimers) \in Nat /\ Amount(net, Adds) \in Nat
           /\ stores \in Nat /\ Prefetched \in Nat
  <1>1. Amount(timers, AddTimers) \in Nat /\ Amount(net, Adds) \in Nat
    BY AmountType DEF TypeOK
  <1>2. stores \in Nat
    BY DEF TypeOK
  <1> QED
    BY <1>1, <1>2 DEF Prefetched

\* Multiplication distributes over what a step adds.
LEMMA Distribute ==
    ASSUME NEW t \in Nat, NEW x \in Nat, NEW y \in Nat, NEW p \in Nat, x <= y + p
    PROVE  t * x <= t * y + t * p /\ t * x \in Nat /\ t * y \in Nat /\ t * p \in Nat
  <1> DEFINE k == (y + p) - x
  <1>1. k \in Nat /\ y + p = x + k
    OBVIOUS
  <1> HIDE DEF k
  <1>2. t * (y + p) = t * y + t * p
    OBVIOUS
  <1>3. t * (x + k) = t * x + t * k
    BY <1>1
  <1>4. t * x \in Nat /\ t * y \in Nat /\ t * p \in Nat /\ t * k \in Nat
    BY <1>1
  <1>5. t * y + t * p = t * x + t * k
    BY <1>1, <1>2, <1>3
  <1> DEFINE a == t * x
             b == t * y + t * p
             d == t * k
  <1>6. a \in Nat /\ b \in Nat /\ d \in Nat /\ b = a + d
    BY <1>4, <1>5
  <1> HIDE DEF a, b, d
  <1>7. a <= b
    BY <1>6
  <1> QED
    BY <1>4, <1>7 DEF a, b

\* A step that prefetches p fragments more than before and counts c requests.
LEMMA StillFunded ==
    ASSUME TypeOK, TypeOK', Funded, Countable(net', Adds), Countable(timers', AddTimers),
           NEW p \in Nat, NEW c \in Nat,
           Prefetched' <= Prefetched + p,
           Listed(crlist') + THRESHOLD * p <= Listed(crlist) + c,
           counted' = counted + c
    PROVE  Funded'
  <1> DEFINE T == THRESHOLD
             x == Prefetched'
             y == Prefetched
             l == Listed(crlist)
             k == Listed(crlist')
  <1>1. T \in Nat
    BY ParamsAssumption
  <1>2. y \in Nat
    BY PrefetchedType DEF Funded
  <1>3. x \in Nat
    <2>1. Amount(timers', AddTimers) \in Nat /\ Amount(net', Adds) \in Nat
      BY AmountType DEF TypeOK
    <2>2. stores' \in Nat
      BY DEF TypeOK
    <2> QED
      BY <2>1, <2>2 DEF Prefetched
  <1>4. l \in Nat /\ k \in Nat
    <2>1. crlist \in CrlistType /\ crlist' \in CrlistType
      BY DEF TypeOK, CrlistType
    <2> QED
      BY <2>1, CountsType
  <1>5. x <= y + p
    OBVIOUS
  <1>6. T * y + l <= counted
    BY DEF Funded, Prefetched
  <1>7. k + T * p <= l + c
    OBVIOUS
  <1>8. counted \in Nat /\ counted' = counted + c
    BY DEF TypeOK
  <1> HIDE DEF T, x, y, l, k
  <1>9. T * x <= T * y + T * p /\ T * x \in Nat /\ T * y \in Nat /\ T * p \in Nat
    BY <1>1, <1>2, <1>3, <1>5, Distribute
  <1> DEFINE tx == T * x
             ty == T * y
             tp == T * p
  <1>10. tx \in Nat /\ ty \in Nat /\ tp \in Nat /\ tx <= ty + tp /\ ty + l <= counted /\ k + tp <= l + c
    BY <1>6, <1>7, <1>9
  <1> HIDE DEF tx, ty, tp
  <1>11. tx + k <= counted'
    BY <1>4, <1>8, <1>10
  <1> QED
    BY <1>11 DEF Funded, Prefetched, tx, T, x, k

\* A step that counts nothing and prefetches nothing new.
LEMMA NothingNew ==
    ASSUME TypeOK, TypeOK', Funded, Countable(net', Adds), Countable(timers', AddTimers),
           Prefetched' <= Prefetched, Listed(crlist') <= Listed(crlist), UNCHANGED counted
    PROVE  Funded'
  <1>1. Prefetched \in Nat
    BY PrefetchedType DEF Funded
  <1>2. Prefetched' \in Int
    <2>1. Amount(timers', AddTimers) \in Nat /\ Amount(net', Adds) \in Nat
      BY AmountType DEF TypeOK
    <2>2. stores' \in Nat
      BY DEF TypeOK
    <2> QED
      BY <2>1, <2>2 DEF Prefetched
  <1>3. Prefetched' <= Prefetched + 0
    BY <1>1, <1>2
  <1>4. Listed(crlist) \in Nat /\ Listed(crlist') \in Nat
    <2>1. crlist \in CrlistType /\ crlist' \in CrlistType
      BY DEF TypeOK, CrlistType
    <2> QED
      BY <2>1, CountsType
  <1>5. THRESHOLD * 0 = 0 /\ counted' = counted + 0
    BY ParamsAssumption DEF TypeOK
  <1>6. Listed(crlist') + THRESHOLD * 0 <= Listed(crlist) + 0
    BY <1>4, <1>5
  <1>7. 0 \in Nat
    OBVIOUS
  <1> QED
    BY <1>3, <1>5, <1>6, <1>7, StillFunded

\* The timers: one put in, one taken out, none of the exchange.
LEMMA TimerPut ==
    ASSUME TypeOK, Countable(timers, AddTimers), NEW t, timers' = Inserted(timers, t)
    PROVE  /\ Countable(timers', AddTimers) /\ Amount(timers, AddTimers) \in Nat
           /\ Amount(timers', AddTimers) = Amount(timers, AddTimers) + IF t \in AddTimers THEN 1 ELSE 0
  <1> DEFINE A == {t} \cap AddTimers
  <1>1. IsFiniteSet(A) /\ Cardinality(A) = IF t \in AddTimers THEN 1 ELSE 0
    <2>1. CASE t \in AddTimers
      <3>1. A = {t}
        BY <2>1
      <3>2. IsFiniteSet({t}) /\ Cardinality({t}) = 1
        BY FS_Singleton
      <3> QED
        BY <2>1, <3>1, <3>2
    <2>2. CASE t \notin AddTimers
      <3>1. A = {}
        BY <2>2
      <3> QED
        BY <2>2, <3>1, FS_EmptySet
    <2> QED
      BY <2>1, <2>2
  <1>2. IsABag(timers)
    BY DEF TypeOK
  <1>3. /\ Countable(timers', AddTimers)
        /\ Amount(timers', AddTimers) = Amount(timers, AddTimers) + Cardinality(A)
    BY <1>1, <1>2, AmountSend DEF Inserted
  <1> HIDE DEF A
  <1> QED
    BY <1>1, <1>2, <1>3, AmountType

\* A timer that fires is one less.
LEMMA TimerGone ==
    ASSUME TypeOK, Countable(timers, AddTimers), NEW t \in DOMAIN timers, timers' = Taken(timers, t)
    PROVE  /\ Countable(timers', AddTimers) /\ Amount(timers', AddTimers) \in Nat
           /\ Amount(timers, AddTimers) \in Nat
           /\ Amount(timers, AddTimers) = Amount(timers', AddTimers) + IF t \in AddTimers THEN 1 ELSE 0
  BY AmountTake, AmountType DEF TypeOK

\* The timer that ends the collection of replies is none of ADD_CACHE_SEND.
LEMMA CollectionTimer ==
    ASSUME NEW n, NEW f
    PROVE  FragReqSend(n, f) \notin AddTimers
  BY DEF FragReqSend, AddTimers

\* Steps that leave the counts, the stores and the timers of the exchange.
LEMMA FundedOther ==
    ASSUME TypeOK, TypeOK', Funded, Quiet(Adds), UNCHANGED <<crlist, counted, stores>>,
           Countable(timers', AddTimers), Amount(timers', AddTimers) = Amount(timers, AddTimers)
    PROVE  Funded'
  <1>1. Countable(net', Adds) /\ Amount(net', Adds) = Amount(net, Adds)
    BY DEF Quiet
  <1>2. Prefetched' = Prefetched /\ Prefetched \in Nat
    BY <1>1, PrefetchedType DEF Prefetched, Funded
  <1>3. Listed(crlist') = Listed(crlist) /\ Listed(crlist) \in Nat
    <2>1. crlist \in CrlistType
      BY DEF TypeOK, CrlistType
    <2> QED
      BY <2>1, CountsType
  <1> QED
    BY <1>1, <1>2, <1>3, NothingNew

\* A message in Adds is an add-cache message.
LEMMA AddsKind == \A x \in Adds : x.type = "addcache"
  BY DEF Adds

\* Handling a file request or a file reply sends file requests and replies only.
LEMMA RecvFlreqQuiet ==
    ASSUME TypeOK, NEW n \in Nodes, NEW m \in DOMAIN net, recv_flreq(n, m) \/ recv_flrep(n, m),
           NEW T, Countable(net, T), \A x \in T : x.type \notin {"flreq", "flrep"}
    PROVE  Quiet(T)
  <1>1. m \in Message /\ m.type \in {"flreq", "flrep"} /\ m \notin T /\ {} \cap T = {}
    BY DEF TypeOK, recv_flreq, recv_flrep
  <1>2. CASE Deliver(m, {})
    BY <1>1, <1>2, OtherDelivered DEF TypeOK, Quiet
  <1>3. CASE recv_flreq(n, m) /\ ~DropFlreq(n, m)
    <2> DEFINE r == gen_flrep(n, m.src, m.file, m.metric + 1)
               q == Flreq(n, m.src, m.file, m.seq, m.metric + 1, m.ttl - 1)
               b == local_broadcast(n, m.ttl - 1, q)
    <2>1. m.type = "flreq" /\ Deliver(m, r \cup b)
      BY <1>3, Zenon DEF recv_flreq
    <2>2. /\ m.src \in Nodes /\ m.file \in Files /\ m.seq \in 1 .. Len(Asks)
          /\ m.metric \in Nat /\ m.ttl \in Nat
      BY <1>1, <2>1, MessageFields
    <2>3. m.ttl - 1 \in Nat /\ m.metric + 1 \in Nat
      BY <1>3, <2>2 DEF DropFlreq
    <2>4. q \in Message
      BY <2>2, <2>3, FlreqType
    <2>5. q.type = "flreq"
      BY MadeKinds
    <2> HIDE DEF q
    <2>6. \A x \in b : x.type = "flreq"
      BY <2>4, <2>5, BroadcastKind
    <2>7. \A x \in r : x.type = "flrep"
      BY MadeKinds DEF gen_flrep, send_message
    <2> HIDE DEF r, b
    <2>8. (r \cup b) \cap T = {}
      BY <2>6, <2>7
    <2> QED
      BY <1>1, <2>1, <2>8, OtherDelivered DEF TypeOK, Quiet
  <1> QED
    BY <1>2, <1>3, Zenon DEF recv_flreq, recv_flrep

-----------------------------------------------------------------------------
(* The steps of retrieval and of requests that pass by.                    *)

\* retrieve_frag stores one fragment at most.
LEMMA RetrieveStores ==
    ASSUME TypeOK, NEW n, NEW f, NEW g, retrieve_frag(n, f, g)
    PROVE  stores \in Nat /\ stores' \in Nat /\ stores' <= stores + 1
  <1>1. stores \in Nat
    BY DEF TypeOK
  <1>2. stores' = stores \/ stores' = stores + 1
    BY Zenon DEF retrieve_frag
  <1> QED
    BY <1>1, <1>2

\* A retrieval counts every fragment it asks for.
LEMMA RetrievalFunded ==
    ASSUME TypeOK, TypeOK', Funded, NEW n \in Nodes, NEW f \in Files, process_flrep(n, f)
    PROVE  Funded'
  <1> DEFINE t == FragReqSend(n, f)
             C == Chosen(n, f)
             dst(g) == rinfo[n][Provider(n, f, g)].dst
             P == {g \in C : reachThreshold(n, f, g)}
             popular == IF n \in ActOn THEN P ELSE {}
             S == {AddCacheSend(n, dst(g), f, g) : g \in popular}
             L == Taken(timers, t)
             enough == Cardinality(NewFrags(n, f)) >= Need(n, f)
  <1>1. t \in DOMAIN timers /\ UNCHANGED stores
    BY Zenon DEF process_flrep, BagIn, BagToSet
  <1>2. Quiet(Adds)
    BY RetrievalQuiet, AddsKind DEF Funded
  <1>3. C \in SUBSET Frags
    BY OfferTypes
  <1>4. /\ Countable(L, AddTimers) /\ IsABag(L)
        /\ Amount(L, AddTimers) = Amount(timers, AddTimers)
        /\ Amount(timers, AddTimers) \in Nat
    <2>1. IsABag(timers) /\ Countable(timers, AddTimers) /\ t \notin AddTimers
      BY CollectionTimer DEF TypeOK, Funded
    <2>2. IsABag(L)
      BY <2>1, BagTake
    <2> HIDE DEF t
    <2>3. /\ Countable(L, AddTimers) /\ Amount(L, AddTimers) \in Nat
          /\ Amount(timers, AddTimers) = Amount(L, AddTimers) + IF t \in AddTimers THEN 1 ELSE 0
      BY <1>1, <2>1, AmountTake
    <2> HIDE DEF L
    <2> QED
      BY <2>1, <2>2, <2>3
  <1>5. CASE enough /\ n \in ActOn
    <2>1. /\ timers' = L (+) SetToBag(S)
          /\ crlist' = [crlist EXCEPT ![n] = [p \in Pairs |->
                               IF p[1] = f /\ p[2] \in C THEN Count(n, f, p[2]) ELSE @[p]]]
          /\ counted' = counted + Cardinality(C)
      BY <1>5, Zenon DEF process_flrep
    <2>2. \A q \in Nodes \X Pairs :
               crlist'[q[1]][q[2]] = IF q \in At(n, f, C) THEN Count(n, f, q[2][2]) ELSE crlist[q[1]][q[2]]
      <3> SUFFICES ASSUME NEW x \in Nodes, NEW p \in Pairs
                   PROVE  crlist'[x][p] = IF <<x, p>> \in At(n, f, C) THEN Count(n, f, p[2]) ELSE crlist[x][p]
        OBVIOUS
      <3>1. p = <<p[1], p[2]>>
        BY DEF Pairs
      <3>2. <<x, p>> \in At(n, f, C) <=> x = n /\ p[1] = f /\ p[2] \in C
        <4> HIDE DEF C
        <4> QED
          BY <3>1 DEF At
      <3>3. crlist \in [Nodes -> [Pairs -> NoCreq .. U32 - 1]]
        BY DEF TypeOK
      <3> DEFINE cn == [y \in Pairs |-> IF y[1] = f /\ y[2] \in C THEN Count(n, f, y[2]) ELSE crlist[n][y]]
      <3>4. crlist' = [crlist EXCEPT ![n] = cn]
        BY <2>1, <3>3
      <3>5. cn[p] = IF p[1] = f /\ p[2] \in C THEN Count(n, f, p[2]) ELSE crlist[n][p]
        OBVIOUS
      <3> HIDE DEF cn, C
      <3> QED
        BY <3>2, <3>3, <3>4, <3>5
    <2> HIDE DEF C
    <2>3. P = {g \in C : reachThreshold(n, f, g)}
      OBVIOUS
    <2> HIDE DEF P
    <2>4. /\ Cardinality(C) \in Nat /\ Cardinality(P) \in Nat /\ IsFiniteSet(P)
          /\ Listed(crlist') \in Nat /\ Listed(crlist) \in Nat
          /\ Listed(crlist') + THRESHOLD * Cardinality(P) <= Listed(crlist) + Cardinality(C)
      BY <1>3, <2>2, <2>3, CountingStep
    <2>5. IsFiniteSet(S \cap AddTimers) /\ Cardinality(S \cap AddTimers) \in Nat
          /\ Cardinality(S \cap AddTimers) <= Cardinality(P)
      <3> DEFINE h == [g \in P |-> AddCacheSend(n, dst(g), f, g)]
      <3>1. popular = P
        BY <1>5
      <3> HIDE DEF popular, dst
      <3>2. S = {AddCacheSend(n, dst(g), f, g) : g \in P}
        BY <3>1
      <3> HIDE DEF S
      <3>3. h \in Surjection(P, S)
        BY <3>2 DEF Surjection
      <3> HIDE DEF h
      <3>4. IsFiniteSet(S) /\ Cardinality(S) <= Cardinality(P)
        BY <2>4, <3>3, FS_Surjection
      <3>5. IsFiniteSet(S \cap AddTimers) /\ Cardinality(S \cap AddTimers) <= Cardinality(S)
        BY <3>4, FS_Subset
      <3>6. Cardinality(S) \in Nat /\ Cardinality(S \cap AddTimers) \in Nat
        BY <3>4, <3>5, FS_CardinalityType
      <3> QED
        BY <2>4, <3>4, <3>5, <3>6
    <2> HIDE DEF S, L
    <2>6. /\ Countable(timers', AddTimers)
          /\ Amount(timers', AddTimers) = Amount(L, AddTimers) + Cardinality(S \cap AddTimers)
      BY <1>4, <2>1, <2>5, AmountSend
    <2>7. Prefetched' <= Prefetched + Cardinality(P)
      <3>1. Amount(net', Adds) = Amount(net, Adds) /\ Amount(net, Adds) \in Nat /\ stores \in Nat
        BY <1>2, PrefetchedType DEF Quiet, Funded
      <3>2. Amount(timers', AddTimers) = Amount(timers, AddTimers) + Cardinality(S \cap AddTimers)
        BY <1>4, <2>6
      <3> DEFINE a == Amount(timers, AddTimers)
                 b == Amount(timers', AddTimers)
                 c == Amount(net, Adds)
                 d == Amount(net', Adds)
                 e == Cardinality(S \cap AddTimers)
                 p == Cardinality(P)
      <3>3. /\ a \in Nat /\ b = a + e /\ c \in Nat /\ d = c /\ e \in Nat /\ p \in Nat /\ e <= p
            /\ stores' = stores /\ stores \in Nat
        BY <1>1, <1>4, <2>4, <2>5, <3>1, <3>2
      <3>4. Prefetched = stores + a + c /\ Prefetched' = stores' + b + d
        BY DEF Prefetched
      <3> HIDE DEF a, b, c, d, e, p
      <3>5. Prefetched' <= Prefetched + p
        BY <3>3, <3>4
      <3> QED
        BY <3>5 DEF p
    <2>8. Countable(net', Adds)
      BY <1>2 DEF Quiet
    <2> QED
      BY <2>1, <2>4, <2>6, <2>7, <2>8, StillFunded
  <1>6. CASE ~(enough /\ n \in ActOn)
    <2>1. UNCHANGED <<crlist, counted>> /\ (timers' = L \/ (timers' = L (+) SetToBag(S) /\ n \notin ActOn))
      <3>1. CASE ~enough
        <4>1. timers' = L /\ UNCHANGED <<crlist, counted>>
          BY <3>1, Zenon DEF process_flrep
        <4> HIDE DEF L, S
        <4> QED
          BY <4>1
      <3>2. CASE enough /\ n \notin ActOn
        <4>1. /\ timers' = L (+) SetToBag(S)
              /\ crlist' = IF n \in ActOn
                         THEN [crlist EXCEPT ![n] = [p \in Pairs |->
                                 IF p[1] = f /\ p[2] \in C THEN Count(n, f, p[2]) ELSE @[p]]]
                         ELSE crlist
              /\ counted' = IF n \in ActOn THEN counted + Cardinality(C) ELSE counted
          BY <3>2, Zenon DEF process_flrep
        <4> HIDE DEF L, S, C
        <4> QED
          BY <3>2, <4>1
      <3> HIDE DEF L, S, C, enough
      <3> QED
        BY <1>6, <3>1, <3>2
    <2>2. n \notin ActOn => S = {}
      OBVIOUS
    <2> HIDE DEF S, L
    <2>3. S = {} => S \cap AddTimers = {} /\ IsFiniteSet(S \cap AddTimers) /\ Cardinality(S \cap AddTimers) = 0
      BY FS_EmptySet
    <2>4. n \notin ActOn =>
             /\ Countable(L (+) SetToBag(S), AddTimers)
             /\ Amount(L (+) SetToBag(S), AddTimers) = Amount(L, AddTimers) + Cardinality(S \cap AddTimers)
      BY <1>4, <2>2, <2>3, AmountSend
    <2>5. Countable(timers', AddTimers) /\ Amount(timers', AddTimers) = Amount(timers, AddTimers)
      BY <1>4, <2>1, <2>2, <2>3, <2>4
    <2> QED
      BY <1>1, <1>2, <2>1, <2>5, FundedOther
  <1> QED
    BY <1>5, <1>6

\* A request that passes by is counted, or resets the count.
LEMMA PassingFunded ==
    ASSUME TypeOK, TypeOK', Funded, NEW n \in Nodes, NEW m \in DOMAIN tasks,
           recv_frreq_ori(n, m) \/ recv_frreq_fwd(n, m)
    PROVE  Funded'
  <1>1. Quiet(Adds)
    BY PassingQuiet, AddsKind DEF Funded
  <1>2. m.file \in Files /\ m.frag \in Frags /\ <<m.file, m.frag>> \in Pairs
    BY DEF TypeOK, FragmentRequest, Pairs
  <1>3. UNCHANGED stores
    BY DEF recv_frreq_ori, recv_frreq_fwd
  <1>4. crlist \in [Nodes -> [Pairs -> NoCreq .. U32 - 1]]
    BY DEF TypeOK
  <1>5. Countable(net', Adds) /\ Amount(net', Adds) = Amount(net, Adds)
        /\ Amount(net, Adds) \in Nat /\ stores \in Nat /\ Amount(timers, AddTimers) \in Nat
    BY <1>1, PrefetchedType DEF Quiet, Funded
  <1>6. CASE UNCHANGED <<crlist, timers, counted>>
    <2>1. Countable(timers', AddTimers) /\ Amount(timers', AddTimers) = Amount(timers, AddTimers)
      BY <1>6 DEF Funded
    <2> QED
      BY <1>1, <1>3, <1>6, <2>1, FundedOther
  <1>7. CASE CountPassing(n, m)
    <2> DEFINE f == m.file
               g == m.frag
               t == AddCacheSend(n, m.dst, f, g)
               C == {g}
               P == {h \in C : reachThreshold(n, f, h)}
    <2>1. /\ crlist' = [crlist EXCEPT ![n][<<f, g>>] = Count(n, f, g)]
          /\ counted' = counted + 1
          /\ timers' = IF reachThreshold(n, f, g) THEN Inserted(timers, t) ELSE timers
      BY <1>7, Zenon DEF CountPassing
    <2>2. \A q \in Nodes \X Pairs :
               crlist'[q[1]][q[2]] = IF q \in At(n, f, C) THEN Count(n, f, q[2][2]) ELSE crlist[q[1]][q[2]]
      <3> HIDE DEF f, C
      <3> SUFFICES ASSUME NEW x \in Nodes, NEW p \in Pairs
                   PROVE  crlist'[x][p] = IF <<x, p>> \in At(n, f, C) THEN Count(n, f, p[2]) ELSE crlist[x][p]
        OBVIOUS
      <3> USE DEF f, C
      <3> DEFINE k == Count(n, f, g)
                 pr == <<f, g>>
      <3>1. <<x, p>> \in At(n, f, C) <=> x = n /\ p = pr
        BY DEF At
      <3>2. crlist' = [crlist EXCEPT ![n][pr] = k]
        BY <2>1
      <3>3. pr \in Pairs /\ pr[2] = g
        BY <1>2
      <3>4. p = pr => Count(n, f, p[2]) = k
        BY <3>3
      <3> HIDE DEF pr, k
      <3>5. crlist'[x][p] = IF x = n /\ p = pr THEN k ELSE crlist[x][p]
        BY <1>4, <3>2, <3>3
      <3> HIDE DEF f, C
      <3> QED
        BY <3>1, <3>4, <3>5
    <2>3. C \in SUBSET Frags /\ f \in Files
      BY <1>2
    <2>4. /\ Cardinality(C) \in Nat /\ Cardinality(P) \in Nat
          /\ Listed(crlist') \in Nat /\ Listed(crlist) \in Nat
          /\ Listed(crlist') + THRESHOLD * Cardinality(P) <= Listed(crlist) + Cardinality(C)
      <3>1. P = {h \in C : reachThreshold(n, f, h)}
        OBVIOUS
      <3> HIDE DEF f, C, P
      <3> QED
        BY <2>2, <2>3, <3>1, CountingStep
    <2>5. Cardinality(C) = 1 /\ Cardinality(P) = IF reachThreshold(n, f, g) THEN 1 ELSE 0
      <3>1. P = IF reachThreshold(n, f, g) THEN {g} ELSE {}
        OBVIOUS
      <3> HIDE DEF P, f, g
      <3> QED
        BY <3>1, FS_Singleton, FS_EmptySet
    <2>6. Countable(timers, AddTimers)
      BY DEF Funded
    <2> HIDE DEF f, g, t, C, P
    <2>7. /\ Countable(timers', AddTimers) /\ Amount(timers', AddTimers) \in Nat
          /\ Amount(timers', AddTimers) <= Amount(timers, AddTimers) + Cardinality(P)
      <3>1. CASE reachThreshold(n, f, g)
        <4>1. timers' = Inserted(timers, t)
          BY <2>1, <3>1
        <4>2. /\ Countable(timers', AddTimers)
              /\ Amount(timers', AddTimers) = Amount(timers, AddTimers) + IF t \in AddTimers THEN 1 ELSE 0
          BY <2>6, <4>1, TimerPut
        <4> QED
          BY <1>5, <2>5, <3>1, <4>2
      <3>2. CASE ~reachThreshold(n, f, g)
        <4>1. timers' = timers
          BY <2>1, <3>2
        <4> QED
          BY <1>5, <2>5, <2>6, <3>2, <4>1
      <3> QED
        BY <3>1, <3>2
    <2>8. Prefetched' <= Prefetched + Cardinality(P)
      <3> DEFINE a == Amount(timers, AddTimers)
                 b == Amount(timers', AddTimers)
                 c == Amount(net, Adds)
                 d == Amount(net', Adds)
                 p == Cardinality(P)
      <3>1. /\ a \in Nat /\ b \in Nat /\ b <= a + p /\ c \in Nat /\ d = c /\ p \in Nat
            /\ stores' = stores /\ stores \in Nat
        BY <1>3, <1>5, <2>4, <2>7
      <3>2. Prefetched = stores + a + c /\ Prefetched' = stores' + b + d
        BY DEF Prefetched
      <3> HIDE DEF a, b, c, d, p
      <3>3. Prefetched' <= Prefetched + p
        BY <3>1, <3>2
      <3> QED
        BY <3>3 DEF p
    <2>9. counted' = counted + Cardinality(C)
      BY <2>1, <2>5
    <2> QED
      BY <1>5, <2>4, <2>7, <2>8, <2>9, StillFunded
  <1>8. CASE FlushPassing(n, m)
    <2>1. /\ crlist' = [crlist EXCEPT ![n][<<m.file, m.frag>>] = IF @ = NoCreq THEN NoCreq ELSE 0]
          /\ UNCHANGED <<timers, counted>>
      BY <1>8 DEF FlushPassing
    <2>2. crlist \in CrlistType /\ crlist' \in CrlistType
      BY DEF TypeOK, CrlistType
    <2>3. \A q \in Nodes \X Pairs : Counts(crlist')[q] <= Counts(crlist)[q]
      <3> SUFFICES ASSUME NEW x \in Nodes, NEW p \in Pairs
                   PROVE  Counts(crlist')[<<x, p>>] <= Counts(crlist)[<<x, p>>]
        OBVIOUS
      <3> DEFINE pr == <<m.file, m.frag>>
                 k == IF crlist[n][pr] = NoCreq THEN NoCreq ELSE 0
      <3>1. crlist' = [crlist EXCEPT ![n][pr] = k]
        BY <1>2, <1>4, <2>1
      <3>2. crlist'[x][p] = IF x = n /\ p = pr THEN k ELSE crlist[x][p]
        <4> HIDE DEF k
        <4> QED
          BY <1>2, <1>4, <3>1
      <3>3. <<x, p>> \in Nodes \X Pairs
        OBVIOUS
      <3>4. Counts(crlist)[<<x, p>>] \in Nat
        BY <2>2, <3>3, CountsType
      <3>5. /\ Counts(crlist)[<<x, p>>] = IF crlist[x][p] = NoCreq THEN 0 ELSE crlist[x][p]
            /\ Counts(crlist')[<<x, p>>] = IF crlist'[x][p] = NoCreq THEN 0 ELSE crlist'[x][p]
        BY DEF Counts
      <3>6. CASE x = n /\ p = pr
        <4>1. Counts(crlist')[<<x, p>>] = 0
          BY <3>2, <3>5, <3>6
        <4> QED
          BY <3>4, <4>1
      <3>7. CASE ~(x = n /\ p = pr)
        BY <3>2, <3>4, <3>5, <3>7
      <3> QED
        BY <3>6, <3>7
    <2>4. Listed(crlist') <= Listed(crlist)
      BY <2>2, <2>3, ListedLess
    <2>5. Countable(timers', AddTimers) /\ Prefetched' = Prefetched /\ Prefetched \in Nat
      BY <1>3, <1>5, <2>1, PrefetchedType DEF Funded, Prefetched
    <2> QED
      BY <1>5, <2>1, <2>4, <2>5, NothingNew
  <1> QED
    BY <1>6, <1>7, <1>8, Zenon DEF recv_frreq_ori, recv_frreq_fwd, ServeFragment, FlushPassing

-----------------------------------------------------------------------------
(* The steps of the prefetch exchange.                                     *)

\* A fragment that is pushed is stored once at most: it stops where it arrives.
LEMMA AddcacheFunded ==
    ASSUME TypeOK, TypeOK', Nearby, Funded, NEW n \in Nodes, NEW m \in DOMAIN net, recv_addcache(n, m)
    PROVE  Funded'
  <1>1. m \in Message /\ m.type = "addcache" /\ m.to = n /\ Deliver(m, Onward(n, m))
    BY DEF TypeOK, recv_addcache
  <1>2. Onward(n, m) = {} /\ m \in Adds
    BY <1>1 DEF Nearby, Near, Onward, Adds
  <1>3. UNCHANGED <<crlist, counted, timers>>
    BY DEF recv_addcache
  <1>4. stores \in Nat /\ stores' \in Nat /\ stores' <= stores + 1
    BY RetrieveStores DEF recv_addcache
  <1>5. IsABag(net) /\ Countable(net, Adds) /\ Countable(timers, AddTimers)
    BY DEF TypeOK, Funded
  <1>6. Countable(net', Adds) /\ Amount(net', Adds) \in Nat /\ Amount(net', Adds) + 1 = Amount(net, Adds)
    <2>1. {} \cap Adds = {}
      OBVIOUS
    <2>2. IsFiniteSet({} \cap Adds) /\ Cardinality({} \cap Adds) = 0
      BY <2>1, FS_EmptySet
    <2>3. /\ Countable(net', Adds) /\ Amount(net', Adds) \in Nat /\ Amount(net, Adds) \in Nat
          /\ Amount(net', Adds) + 1 = Amount(net, Adds) + Cardinality({} \cap Adds)
      BY <1>1, <1>2, <1>5, <2>2, DeliverAmount
    <2> QED
      BY <2>2, <2>3
  <1>7. Amount(timers, AddTimers) \in Nat /\ Amount(timers', AddTimers) = Amount(timers, AddTimers)
    BY <1>3, <1>5, PrefetchedType
  <1>8. Prefetched' <= Prefetched
    <2> DEFINE a == Amount(timers, AddTimers)
               b == Amount(timers', AddTimers)
               c == Amount(net, Adds)
               d == Amount(net', Adds)
               r == stores
               w == stores'
    <2>1. /\ a \in Nat /\ b \in Nat /\ b = a /\ c \in Nat /\ d \in Nat /\ c = d + 1
          /\ r \in Nat /\ w \in Nat /\ w <= r + 1
      BY <1>4, <1>6, <1>7
    <2>2. Prefetched = r + a + c /\ Prefetched' = w + b + d
      BY DEF Prefetched
    <2> HIDE DEF a, b, c, d, r, w
    <2>3. w + b + d <= r + a + c
      BY <2>1
    <2> QED
      BY <2>2, <2>3
  <1>9. Listed(crlist') <= Listed(crlist)
    <2>1. crlist \in CrlistType
      BY DEF TypeOK, CrlistType
    <2> QED
      BY <1>3, <2>1, CountsType
  <1>10. Countable(timers', AddTimers)
    BY <1>3, <1>5
  <1> QED
    BY <1>3, <1>6, <1>8, <1>9, <1>10, NothingNew

\* The end of an exchange pushes the fragment, stores it, or gives up.
LEMMA SelectFunded ==
    ASSUME TypeOK, TypeOK', Funded, NEW n \in Nodes, NEW t \in DOMAIN timers, select_agent(n, t)
    PROVE  Funded'
  <1>1. /\ t.type = "ADD_CACHE_SEND" /\ timers' = Taken(timers, t)
        /\ UNCHANGED <<crlist, counted>>
    BY Zenon DEF select_agent
  <1>2. t \in AddTimers
    BY <1>1 DEF TypeOK, AddTimers
  <1>3. IsABag(net) /\ Countable(net, Adds) /\ Countable(timers, AddTimers)
    BY DEF TypeOK, Funded
  <1>4. /\ Countable(timers', AddTimers) /\ Amount(timers', AddTimers) \in Nat
        /\ Amount(timers, AddTimers) = Amount(timers', AddTimers) + 1
    BY <1>1, <1>2, <1>3, TimerGone
  <1>5. stores \in Nat /\ Amount(net, Adds) \in Nat
    BY <1>3, PrefetchedType
  <1>6. /\ stores' \in Nat /\ Countable(net', Adds) /\ Amount(net', Adds) \in Nat
        /\ stores' + Amount(net', Adds) <= stores + Amount(net, Adds) + 1
    <2>1. \/ UNCHANGED stores /\ \E a : Send(send_message(NET_DIAMETER, a))
          \/ retrieve_frag(n, t.file, t.frag) /\ UNCHANGED net
      <3>1. \/ UNCHANGED <<ctable, ct_len, stores>> /\
                  \E i \in Bids(n, t.file, t.frag) :
                      Send(send_message(NET_DIAMETER,
                          Addcache(Route[n][extable[n][i].neigh], extable[n][i].neigh, t.dst, t.file, t.frag)))
            \/ retrieve_frag(n, t.file, t.frag) /\ UNCHANGED net
        BY Zenon DEF select_agent
      <3> QED
        BY <3>1
    <2>2. CASE retrieve_frag(n, t.file, t.frag) /\ UNCHANGED net
      <3>1. stores' \in Nat /\ stores' <= stores + 1
        BY <2>2, RetrieveStores
      <3>2. Countable(net', Adds) /\ Amount(net', Adds) = Amount(net, Adds)
        BY <1>3, <2>2
      <3> QED
        BY <1>5, <3>1, <3>2
    <2>3. ASSUME UNCHANGED stores, NEW a, Send(send_message(NET_DIAMETER, a))
          PROVE  /\ stores' \in Nat /\ Countable(net', Adds) /\ Amount(net', Adds) \in Nat
                 /\ stores' + Amount(net', Adds) <= stores + Amount(net, Adds) + 1
      <3> DEFINE S == send_message(NET_DIAMETER, a)
                 k == Cardinality(S \cap Adds)
      <3>1. IsFiniteSet({a}) /\ Cardinality({a}) = 1
        BY FS_Singleton
      <3>2. S \cap Adds \in SUBSET {a}
        BY DEF send_message
      <3> HIDE DEF S
      <3>3. IsFiniteSet(S \cap Adds) /\ k <= 1
        BY <3>1, <3>2, FS_Subset
      <3>4. Send(S)
        BY <2>3 DEF S
      <3>5. /\ Countable(net', Adds) /\ k \in Nat
            /\ Amount(net', Adds) = Amount(net, Adds) + k
        BY <1>3, <3>3, <3>4, SendAmount
      <3> HIDE DEF k
      <3> QED
        BY <1>5, <2>3, <3>3, <3>5
    <2> QED
      BY <2>1, <2>2, <2>3
  <1>7. Prefetched' <= Prefetched
    <2> DEFINE a == Amount(timers, AddTimers)
               b == Amount(timers', AddTimers)
               c == Amount(net, Adds)
               d == Amount(net', Adds)
               r == stores
               w == stores'
    <2>1. /\ a \in Nat /\ b \in Nat /\ a = b + 1 /\ c \in Nat /\ d \in Nat
          /\ r \in Nat /\ w \in Nat /\ w + d <= r + c + 1
      BY <1>4, <1>5, <1>6
    <2>2. Prefetched = r + a + c /\ Prefetched' = w + b + d
      BY DEF Prefetched
    <2> HIDE DEF a, b, c, d, r, w
    <2>3. w + b + d <= r + a + c
      BY <2>1
    <2> QED
      BY <2>2, <2>3
  <1>8. Listed(crlist') <= Listed(crlist)
    <2>1. crlist \in CrlistType
      BY DEF TypeOK, CrlistType
    <2> QED
      BY <1>1, <2>1, CountsType
  <1> QED
    BY <1>1, <1>4, <1>6, <1>7, <1>8, NothingNew

\* A node that is reloaded forgets its counts and its timers.
LEMMA ReloadFunded ==
    ASSUME TypeOK, TypeOK', Funded, NEW n \in Nodes, Reload(n)
    PROVE  Funded'
  <1>1. /\ timers' = Elsewhere(timers, {t \in DOMAIN timers : t.node = n})
        /\ crlist' = [crlist EXCEPT ![n] = [p \in Pairs |-> NoCreq]]
        /\ UNCHANGED <<net, counted, stores>>
    BY DEF Reload
  <1>2. IsABag(net) /\ IsABag(timers) /\ Countable(net, Adds) /\ Countable(timers, AddTimers)
    BY DEF TypeOK, Funded
  <1>3. Countable(net', Adds) /\ Amount(net', Adds) = Amount(net, Adds)
    BY <1>1, <1>2
  <1>4. /\ Countable(timers', AddTimers) /\ Amount(timers', AddTimers) \in Nat
        /\ Amount(timers', AddTimers) <= Amount(timers, AddTimers)
    <2> DEFINE A == DOMAIN timers' \cap AddTimers
               B == DOMAIN timers \cap AddTimers
    <2>1. \A x \in DOMAIN timers' : x \in DOMAIN timers /\ timers'[x] = timers[x]
      BY <1>1 DEF Elsewhere
    <2>2. \A x \in DOMAIN timers : timers[x] \in Nat
      BY <1>2 DEF IsABag
    <2>3. A \in SUBSET B /\ IsFiniteSet(B)
      BY <1>2, <2>1 DEF Countable
    <2>4. \A x \in B : timers[x] \in Int
      BY <2>2
    <2>5. \A x \in A : timers'[x] \in Int /\ timers'[x] <= timers[x]
      BY <2>1, <2>2
    <2> HIDE DEF A, B
    <2>6. IsFiniteSet(A) /\ Copies(timers', A) \in Nat /\ Copies(timers', A) <= Copies(timers, B)
      BY <2>3, <2>4, <2>5, CopiesGrow
    <2> QED
      BY <2>6 DEF Countable, Amount, A, B
  <1>5. Prefetched' <= Prefetched
    <2>1. Amount(timers, AddTimers) \in Nat /\ Amount(net, Adds) \in Nat /\ stores \in Nat
      BY <1>2, PrefetchedType
    <2> DEFINE a == Amount(timers, AddTimers)
               b == Amount(timers', AddTimers)
               c == Amount(net, Adds)
               d == Amount(net', Adds)
               r == stores
               w == stores'
    <2>2. a \in Nat /\ b \in Nat /\ b <= a /\ c \in Nat /\ d = c /\ w = r /\ r \in Nat
      BY <1>1, <1>3, <1>4, <2>1
    <2>3. Prefetched = r + a + c /\ Prefetched' = w + b + d
      BY DEF Prefetched
    <2> HIDE DEF a, b, c, d, r, w
    <2>4. w + b + d <= r + a + c
      BY <2>2
    <2> QED
      BY <2>3, <2>4
  <1>6. Listed(crlist') <= Listed(crlist)
    <2>1. crlist \in CrlistType /\ crlist' \in CrlistType
      BY DEF TypeOK, CrlistType
    <2>2. \A q \in Nodes \X Pairs : Counts(crlist')[q] <= Counts(crlist)[q]
      <3> SUFFICES ASSUME NEW x \in Nodes, NEW p \in Pairs
                   PROVE  Counts(crlist')[<<x, p>>] <= Counts(crlist)[<<x, p>>]
        OBVIOUS
      <3>1. <<x, p>> \in Nodes \X Pairs
        OBVIOUS
      <3>2. Counts(crlist)[<<x, p>>] \in Nat
        BY <2>1, <3>1, CountsType
      <3>3. /\ Counts(crlist)[<<x, p>>] = IF crlist[x][p] = NoCreq THEN 0 ELSE crlist[x][p]
            /\ Counts(crlist')[<<x, p>>] = IF crlist'[x][p] = NoCreq THEN 0 ELSE crlist'[x][p]
        BY DEF Counts
      <3>4. crlist'[x][p] = IF x = n THEN NoCreq ELSE crlist[x][p]
        BY <1>1 DEF TypeOK
      <3>5. CASE x = n
        BY <3>2, <3>3, <3>4, <3>5
      <3>6. CASE x # n
        BY <3>2, <3>3, <3>4, <3>6
      <3> QED
        BY <3>5, <3>6
    <2> QED
      BY <2>1, <2>2, ListedLess
  <1> QED
    BY <1>1, <1>3, <1>4, <1>5, <1>6, NothingNew

\* What is stored stays paid for: every step.
LEMMA FundedStep ==
    ASSUME TypeOK, TypeOK', Nearby, Funded, [Next]_vars
    PROVE  Funded'
  <1>1. Countable(net, Adds) /\ Countable(timers, AddTimers)
    BY DEF Funded
  <1>2. ASSUME Quiet(Adds), UNCHANGED <<crlist, counted, stores, timers>>
        PROVE  Funded'
    <2>1. Countable(timers', AddTimers) /\ Amount(timers', AddTimers) = Amount(timers, AddTimers)
      BY <1>1, <1>2
    <2> QED
      BY <1>2, <2>1, FundedOther
  <1>3. CASE UNCHANGED vars
    <2>1. Quiet(Adds)
      BY <1>1, <1>3, UnchangedQuiet DEF vars
    <2> QED
      BY <1>2, <1>3, <2>1 DEF vars
  <1>4. ASSUME NEW n \in Nodes, NEW f \in Files, gen_flreq(n, f)
        PROVE  Funded'
    <2>1. Quiet(Adds)
      BY <1>1, <1>4, AddsKind, GenFlreqQuiet
    <2> QED
      BY <1>2, <1>4, <2>1 DEF gen_flreq
  <1>5. ASSUME NEW n \in Nodes, NEW f \in Files, process_flrep(n, f)
        PROVE  Funded'
    BY <1>5, RetrievalFunded
  <1>6. ASSUME NEW n \in Nodes, NEW m \in DOMAIN net, recv_flreq(n, m)
        PROVE  Funded'
    <2>1. Quiet(Adds)
      BY <1>1, <1>6, AddsKind, RecvFlreqQuiet
    <2> QED
      BY <1>2, <1>6, <2>1 DEF recv_flreq
  <1>7. ASSUME NEW n \in Nodes, NEW m \in DOMAIN net, recv_flrep(n, m)
        PROVE  Funded'
    <2>1. Quiet(Adds)
      BY <1>1, <1>7, AddsKind, RecvFlreqQuiet
    <2> DEFINE t == FragReqSend(n, m.file)
    <2>2. /\ UNCHANGED <<crlist, counted, stores>>
          /\ timers' = Inserted(timers, t) \/ timers' = timers
      BY <1>7 DEF recv_flrep
    <2>3. t \notin AddTimers
      BY CollectionTimer
    <2> HIDE DEF t
    <2>4. Countable(timers', AddTimers) /\ Amount(timers', AddTimers) = Amount(timers, AddTimers)
      <3>1. CASE timers' = timers
        BY <1>1, <3>1
      <3>2. CASE timers' = Inserted(timers, t)
        <4>1. /\ Countable(timers', AddTimers) /\ Amount(timers, AddTimers) \in Nat
              /\ Amount(timers', AddTimers) = Amount(timers, AddTimers) + IF t \in AddTimers THEN 1 ELSE 0
          BY <1>1, <3>2, TimerPut
        <4> QED
          BY <2>3, <4>1
      <3> QED
        BY <2>2, <3>1, <3>2
    <2> QED
      BY <2>1, <2>2, <2>4, FundedOther
  <1>8. ASSUME NEW n \in Nodes, NEW m \in DOMAIN net, packet_in(n, m)
        PROVE  Funded'
    <2>1. Quiet(Adds)
      BY <1>1, <1>8, AddsKind, PassingQuiet
    <2> QED
      BY <1>2, <1>8, <2>1 DEF packet_in
  <1>9. ASSUME NEW n \in Nodes, NEW m \in DOMAIN hook, packet_verdict(n, m)
        PROVE  Funded'
    <2>1. Quiet(Adds)
      BY <1>1, <1>9, AddsKind, PassingQuiet
    <2> QED
      BY <1>2, <1>9, <2>1 DEF packet_verdict
  <1>10. ASSUME NEW n \in Nodes, NEW m \in DOMAIN tasks, recv_frreq_ori(n, m) \/ recv_frreq_fwd(n, m)
         PROVE  Funded'
    BY <1>10, PassingFunded
  <1>11. ASSUME NEW n \in Nodes, NEW m \in DOMAIN net, recv_exreq(n, m) \/ recv_exrep(n, m)
         PROVE  Funded'
    <2>1. Quiet(Adds)
      BY <1>1, <1>11, AddsKind, BidQuiet
    <2> QED
      BY <1>2, <1>11, <2>1 DEF recv_exreq, recv_exrep
  <1>12. ASSUME NEW n \in Nodes, NEW m \in DOMAIN net, recv_addcache(n, m)
         PROVE  Funded'
    BY <1>12, AddcacheFunded
  <1>13. ASSUME NEW n \in Nodes, NEW t \in DOMAIN timers, select_agent(n, t)
         PROVE  Funded'
    BY <1>13, SelectFunded
  <1>14. ASSUME NEW n \in Nodes, Reload(n)
         PROVE  Funded'
    BY <1>14, ReloadFunded
  <1> QED
    BY <1>3, <1>4, <1>5, <1>6, <1>7, <1>8, <1>9, <1>10, <1>11, <1>12, <1>13, <1>14 DEF Next

\* Where links work both ways and a neighbour is reached without a relay,
\* every fragment stored, pushed or still bid for was asked for THRESHOLD
\* times: the counts of process_flrep and recv_frreq_ori pay for one exchange
\* each time they start again from 0, and a push ends where it arrives.
THEOREM PrefetchPaid ==
    ASSUME DirectRoutes
    PROVE  Spec => []PrefetchBudget
  <1>1. Init => Nearby
    <2> SUFFICES ASSUME Init
                 PROVE  Nearby
      OBVIOUS
    <2>1. DOMAIN net = {}
      BY BagOfSet DEF Init, EmptyBag
    <2>2. \A n \in Nodes : extable[n] = <<>>
      BY DEF Init
    <2> QED
      BY <2>1, <2>2 DEF Nearby, NearBids
  <1>2. Init => Funded
    <2> SUFFICES ASSUME Init
                 PROVE  Funded
      OBVIOUS
    <2>1. DOMAIN net \cap Adds = {} /\ DOMAIN timers \cap AddTimers = {}
      BY BagOfSet DEF Init, EmptyBag
    <2>2. \A B : Copies(B, {}) = 0
      <3> SUFFICES ASSUME NEW B
                   PROVE  Copies(B, {}) = 0
        OBVIOUS
      <3>1. Units(B, {}) = {}
        BY DEF Units
      <3> QED
        BY <3>1, CopiesUnits, FS_EmptySet
    <2>3. Amount(net, Adds) = 0 /\ Amount(timers, AddTimers) = 0
      BY <2>1, <2>2, Zenon DEF Amount
    <2>4. Countable(net, Adds) /\ Countable(timers, AddTimers)
      BY <2>1, FS_EmptySet DEF Countable
    <2>5. Listed(crlist) = 0
      <3>1. \A q \in Nodes \X Pairs : Counts(crlist)[q] = 0
        BY DEF Init, Counts
      <3>2. Units(Counts(crlist), Nodes \X Pairs) = {}
        <4> SUFFICES ASSUME NEW u \in Units(Counts(crlist), Nodes \X Pairs)
                     PROVE  FALSE
          OBVIOUS
        <4>1. PICK q \in Nodes \X Pairs : \E k \in 1 .. Counts(crlist)[q] : u = <<q, k>>
          BY UnitOf
        <4>2. 1 .. Counts(crlist)[q] = {}
          BY <3>1
        <4> QED
          BY <4>1, <4>2
      <3> QED
        BY <3>2, CopiesUnits, FS_EmptySet DEF Listed
    <2>6. stores = 0 /\ counted = 0 /\ THRESHOLD \in Nat
      BY ParamsAssumption DEF Init
    <2>7. THRESHOLD * (stores + Amount(timers, AddTimers) + Amount(net, Adds)) = 0
      BY <2>3, <2>6
    <2> QED
      BY <2>4, <2>5, <2>6, <2>7 DEF Funded
  <1>3. TypeOK /\ Nearby /\ [Next]_vars => Nearby'
    BY NearStep
  <1>4. TypeOK /\ TypeOK' /\ Nearby /\ Funded /\ [Next]_vars => Funded'
    BY FundedStep
  <1>5. TypeOK /\ Funded => PrefetchBudget
    <2> SUFFICES ASSUME TypeOK, Funded
                 PROVE  PrefetchBudget
      OBVIOUS
    <2>1. /\ {t \in DOMAIN timers : t.type = "ADD_CACHE_SEND"} = DOMAIN timers \cap AddTimers
          /\ {m \in DOMAIN net : m.type = "addcache"} = DOMAIN net \cap Adds
      BY DEF TypeOK, AddTimers, Adds
    <2>2. PrefetchBudget <=> THRESHOLD * Prefetched <= counted
      BY <2>1 DEF PrefetchBudget, Prefetched, Amount
    <2>3. THRESHOLD * Prefetched + Listed(crlist) <= counted
      BY DEF Funded, Prefetched
    <2>4. Listed(crlist) \in Nat
      <3>1. crlist \in CrlistType
        BY DEF TypeOK, CrlistType
      <3> QED
        BY <3>1, CountsType
    <2>5. THRESHOLD * Prefetched \in Nat /\ counted \in Nat
      <3>1. Prefetched \in Nat /\ THRESHOLD \in Nat
        BY PrefetchedType, ParamsAssumption DEF Funded
      <3>2. counted \in Nat
        BY DEF TypeOK
      <3> QED
        BY <3>1, <3>2
    <2> DEFINE x == THRESHOLD * Prefetched
    <2> HIDE DEF x
    <2>6. x <= counted
      BY <2>3, <2>4, <2>5 DEF x
    <2> QED
      BY <2>2, <2>6 DEF x
  <1> QED
    BY <1>1, <1>2, <1>3, <1>4, <1>5, TypeCorrect, PTL DEF Spec

-----------------------------------------------------------------------------
(* A retrieval that counts has KVAL different fragments, if no fragment is *)
(* cached twice.                                                           *)

\* The members of S that have fewer than m members before them, and what it
\* takes for "before" to be an order.
Preceding(S, R, g) == {h \in S : <<h, g>> \in R}
FirstOf(S, R, m) == {g \in S : Cardinality(Preceding(S, R, g)) < m}
OrderOn(S, R) ==
    /\ \A x \in S : <<x, x>> \notin R
    /\ \A x, y, z \in S : <<x, y>> \in R /\ <<y, z>> \in R => <<x, z>> \in R

\* Of a set ordered by R at least m members have fewer than m before them,
\* if there are m: what process_flrep's walk from the nearest reply on finds
\* before it stops.
LEMMA FirstOnes ==
    ASSUME NEW S, IsFiniteSet(S), NEW R, NEW m \in Nat, m <= Cardinality(S), OrderOn(S, R)
    PROVE  Cardinality(FirstOf(S, R, m)) >= m
  <1> USE DEF OrderOn, FirstOf, Preceding
  <1> DEFINE Before(g) == {h \in S : <<h, g>> \in R}
             C == {g \in S : Cardinality(Before(g)) < m}
             D == {Cardinality(Before(g)) : g \in S \ C}
  <1>1. /\ IsFiniteSet(C) /\ Cardinality(C) \in Nat /\ Cardinality(S) \in Nat
        /\ \A g \in S : IsFiniteSet(Before(g)) /\ Cardinality(Before(g)) \in Nat
    BY FS_Subset, FS_CardinalityType
  <1> SUFFICES ASSUME Cardinality(C) < m PROVE FALSE
    BY <1>1
  <1>2. S \ C # {}
    <2>1. S # C
      <3>1. Cardinality(S) >= m /\ ~(Cardinality(C) >= m)
        BY <1>1
      <3> HIDE DEF C
      <3> QED  BY <3>1
    <2> QED  BY <2>1
  <1>3. D \in SUBSET Nat /\ D # {}
    <2>1. \A g \in S \ C : Cardinality(Before(g)) \in Nat
      BY <1>1
    <2> HIDE DEF Before, C
    <2> QED  BY <1>2, <2>1
  <1>4. PICK d \in D : \A e \in D : d <= e
    BY <1>3, LeastNat
  <1>5. PICK g \in S \ C : d = Cardinality(Before(g))
    BY <1>4
  <1>6. Before(g) \in SUBSET C
    <2> SUFFICES ASSUME NEW h \in Before(g), h \notin C PROVE FALSE
      OBVIOUS
    <2>1. h \in S \ C /\ <<h, g>> \in R
      OBVIOUS
    <2>2. Before(h) \in SUBSET Before(g) /\ h \notin Before(h)
      BY <1>5, <2>1
    <2>3. Cardinality(Before(h)) <= Cardinality(Before(g)) /\ Cardinality(Before(h)) # Cardinality(Before(g))
      <3>1. IsFiniteSet(Before(g)) /\ Before(h) # Before(g)
        BY <1>1, <1>5, <2>1, <2>2
      <3> HIDE DEF Before
      <3> QED  BY <2>2, <3>1, FS_Subset
    <2>4. Cardinality(Before(h)) \in D
      <3> HIDE DEF Before, C
      <3> QED  BY <2>1
    <2>5. Cardinality(Before(g)) <= Cardinality(Before(h))
      BY <1>4, <1>5, <2>4
    <2>6. Cardinality(Before(g)) \in Nat /\ Cardinality(Before(h)) \in Nat
      BY <1>1, <1>5, <2>1
    <2> HIDE DEF Before
    <2> QED  BY <2>3, <2>5, <2>6
  <1>7. Cardinality(Before(g)) <= Cardinality(C)
    BY <1>1, <1>6, FS_Subset
  <1>8. Cardinality(Before(g)) < m /\ g \in S
    <2>1. g \in S /\ Cardinality(Before(g)) \in Nat
      BY <1>1, <1>5
    <2> HIDE DEF Before, C
    <2> QED  BY <1>1, <1>7, <2>1
  <1> QED  BY <1>5, <1>8

\* A fragment has its place in the reply it is taken from.
LEMMA SlotIsPlace ==
    ASSUME TypeOK, NEW n \in Nodes, NEW f \in Files, NEW g \in NewFrags(n, f)
    PROVE  /\ Slot(n, f, g) \in DOMAIN rinfo[n][Provider(n, f, g)].frags /\ Slot(n, f, g) \in Nat
           /\ rinfo[n][Provider(n, f, g)].frags[Slot(n, f, g)] = g
  <1> DEFINE s == rinfo[n][Provider(n, f, g)].frags
             P == {k \in DOMAIN s : s[k] = g}
  <1>1. Provider(n, f, g) \in Replies(n, f) /\ g \in Offered(n, Provider(n, f, g))
    BY ProviderIsReply
  <1>2. s \in Seq(Frags) /\ Len(s) \in Nat /\ DOMAIN s = 1 .. Len(s)
    <2>1. s \in Seq(Frags)
      BY <1>1, OfferTypes DEF Reply, Offers
    <2> HIDE DEF s
    <2> QED  BY <2>1
  <1>3. \E k \in DOMAIN s : s[k] = g
    BY <1>1 DEF Offered
  <1>4. Slot(n, f, g) = CHOOSE k \in DOMAIN s : s[k] = g /\ \A l \in 1 .. k - 1 : s[l] # g
    BY Zenon DEF Slot
  <1> HIDE DEF s
  <1>5. P \in SUBSET Nat /\ P # {}
    BY <1>2, <1>3
  <1>6. PICK k \in P : \A l \in P : k <= l
    <2> HIDE DEF P
    <2> QED  BY <1>5, LeastNat
  <1>7. k \in DOMAIN s /\ s[k] = g /\ \A l \in 1 .. k - 1 : s[l] # g
    <2>1. k \in Nat /\ k \in 1 .. Len(s)
      BY <1>2
    <2> SUFFICES ASSUME NEW l \in 1 .. k - 1, s[l] = g PROVE FALSE
      OBVIOUS
    <2>2. l \in 1 .. Len(s) /\ l < k
      BY <1>2, <2>1
    <2>3. l \in P
      BY <1>2, <2>2
    <2> HIDE DEF P
    <2> QED  BY <1>6, <2>1, <2>2, <2>3
  <1>8. Slot(n, f, g) \in DOMAIN s /\ s[Slot(n, f, g)] = g
    BY <1>4, <1>7, Zenon
  <1>9. Slot(n, f, g) \in Nat
    BY <1>2, <1>8
  <1> QED  BY <1>8, <1>9 DEF s

\* The walk visits the fragments in an order.
LEMMA TakenInTurn ==
    ASSUME TypeOK, NEW n \in Nodes, NEW f \in Files
    PROVE  /\ \A g \in NewFrags(n, f) : ~TakenBefore(n, f, g, g)
           /\ \A g, h, k \in NewFrags(n, f) :
                TakenBefore(n, f, g, h) /\ TakenBefore(n, f, h, k) => TakenBefore(n, f, g, k)
  <1> DEFINE P(g) == Provider(n, f, g)
             d(g) == rinfo[n][P(g)].dist
             s(g) == Slot(n, f, g)
  <1>1. \A g \in NewFrags(n, f) : P(g) \in Nat /\ d(g) \in Nat /\ s(g) \in Nat
    <2> SUFFICES ASSUME NEW g \in NewFrags(n, f) PROVE P(g) \in Nat /\ d(g) \in Nat /\ s(g) \in Nat
      OBVIOUS
    <2>1. P(g) \in Replies(n, f)
      BY ProviderIsReply
    <2>2. P(g) \in Nat /\ d(g) \in Nat
      BY <2>1, OfferTypes DEF Reply
    <2> QED  BY <2>2, SlotIsPlace
  <1>2. \A g, h : TakenBefore(n, f, g, h) <=>
                    \/ d(g) < d(h)
                    \/ d(g) = d(h) /\ P(g) < P(h)
                    \/ P(g) = P(h) /\ s(g) < s(h)
    BY Zenon DEF TakenBefore, Nearer
  <1>3. \A g, h : P(g) = P(h) => d(g) = d(h)
    OBVIOUS
  <1> HIDE DEF P, d, s
  <1>4. \A g \in NewFrags(n, f) : ~TakenBefore(n, f, g, g)
    BY <1>1, <1>2
  <1>5. ASSUME NEW g \in NewFrags(n, f), NEW h \in NewFrags(n, f), NEW k \in NewFrags(n, f),
               TakenBefore(n, f, g, h), TakenBefore(n, f, h, k)
        PROVE  TakenBefore(n, f, g, k)
    <2>1. \/ d(g) < d(h)
          \/ d(g) = d(h) /\ P(g) < P(h)
          \/ P(g) = P(h) /\ d(g) = d(h) /\ s(g) < s(h)
      BY <1>2, <1>3, <1>5
    <2>2. \/ d(h) < d(k)
          \/ d(h) = d(k) /\ P(h) < P(k)
          \/ P(h) = P(k) /\ d(h) = d(k) /\ s(h) < s(k)
      BY <1>2, <1>3, <1>5
    <2>3. /\ d(g) \in Nat /\ d(h) \in Nat /\ d(k) \in Nat /\ P(g) \in Nat /\ P(h) \in Nat /\ P(k) \in Nat
          /\ s(g) \in Nat /\ s(h) \in Nat /\ s(k) \in Nat
      BY <1>1
    <2>4. \/ d(g) < d(k)
          \/ d(g) = d(k) /\ P(g) < P(k)
          \/ P(g) = P(k) /\ s(g) < s(k)
      BY <2>1, <2>2, <2>3
    <2> QED  BY <1>2, <2>4
  <1> QED  BY <1>4, <1>5

\* The fragments a node counts as its own are different if its entries are.
LEMMA OwnDifferent ==
    ASSUME TypeOK, NEW n \in Nodes, NEW f \in Files, NoRepeats(ctable[n])
    PROVE  IsFiniteSet(OwnFrags(n, f)) /\ Cardinality(OwnFrags(n, f)) = Len(ReplyFrags(n, f))
  <1> DEFINE t == ctable[n]
             K == Own(t, f)
             c == Cardinality(K)
             own == Kept(t, K)
             r == ReplyFrags(n, f)
  <1>1. t \in Seq(Entry) /\ NoRepeats(t)
    BY DEF TypeOK
  <1>2. r = [k \in DOMAIN own |-> own[k].frag] /\ OwnFrags(n, f) = {r[k] : k \in DOMAIN r}
    BY Zenon DEF ReplyFrags, OwnFrags
  <1> HIDE DEF t, r
  <1>3. K \in SUBSET (DOMAIN t) /\ \A i \in K : t[i].file = f
    BY <1>1, OwnCount DEF Own, Positions
  <1>4. own \in Seq(Entry) /\ c \in Nat /\ Len(own) = c
    BY <1>1, <1>3, KeptEntries
  <1>5. PICK at \in [1 .. c -> K] :
            /\ \A k \in 1 .. c : own[k] = t[at[k]]
            /\ \A j, k \in 1 .. c : j < k => at[j] < at[k]
    BY <1>1, <1>3, KeptEntries
  <1> HIDE DEF own, c
  <1>6. DOMAIN own = 1 .. c
    BY <1>4
  <1>7. ASSUME NEW j \in 1 .. c, NEW k \in 1 .. c, r[j] = r[k]
        PROVE  j = k
    <2>1. at[j] \in K /\ at[k] \in K
      BY <1>5
    <2>2. t[at[j]].frag = t[at[k]].frag
      BY <1>2, <1>5, <1>6, <1>7
    <2>3. at[j] = at[k] /\ at[j] \in Int
      <3>1. at[j] = at[k]
        BY <1>1, <1>3, <2>1, <2>2 DEF NoRepeats
      <3>2. DOMAIN t \subseteq Int
        BY <1>1
      <3> QED  BY <1>3, <2>1, <3>1, <3>2
    <2>4. ~(j < k) /\ ~(k < j)
      <3>1. ~(at[j] < at[k]) /\ ~(at[k] < at[j])
        BY <2>3
      <3> QED  BY <1>5, <3>1
    <2> QED  BY <1>4, <2>4
  <1>8. r \in Seq(Frags) /\ DOMAIN r = 1 .. c /\ Len(r) = c
    <2>1. r \in Seq(Frags) /\ DOMAIN r = 1 .. c
      BY <1>2, <1>6, ReplyTypes DEF r
    <2> QED  BY <1>4, <2>1
  <1>9. r \in Bijection(1 .. c, OwnFrags(n, f))
    <2>1. r \in [1 .. c -> OwnFrags(n, f)]
      BY <1>2, <1>8
    <2>2. \A x \in OwnFrags(n, f) : \E k \in 1 .. c : r[k] = x
      BY <1>2, <1>8
    <2> QED  BY <1>7, <2>1, <2>2 DEF Bijection, Injection, Surjection, IsInjective
  <1>10. IsFiniteSet(1 .. c) /\ Cardinality(1 .. c) = c
    <2>1. 1 \in Int /\ c \in Int
      BY <1>4
    <2>2. IsFiniteSet(1 .. c) /\ Cardinality(1 .. c) = IF 1 > c THEN 0 ELSE c - 1 + 1
      BY <2>1, FS_Interval
    <2> QED  BY <1>4, <2>2
  <1>11. IsFiniteSet(OwnFrags(n, f)) /\ Cardinality(OwnFrags(n, f)) = c
    BY <1>9, <1>10, FS_Bijection, SMTT(20) DEF ExistsBijection
  <1> QED  BY <1>8, <1>11 DEF r

\* What is new is not the node's own.
LEMMA NewAreNotOwn ==
    ASSUME NEW n \in Nodes, NEW f \in Files
    PROVE  \A g \in NewFrags(n, f) : g \notin OwnFrags(n, f)
  <1> SUFFICES ASSUME NEW g \in NewFrags(n, f) PROVE g \notin OwnFrags(n, f)
    OBVIOUS
  <1> QED  BY DEF NewFrags

\* A retrieval that finds enough takes KVAL fragments in all.
LEMMA EnoughTaken ==
    ASSUME TypeOK, NEW n \in Nodes, NEW f \in Files, NoRepeats(ctable[n]),
           Cardinality(NewFrags(n, f)) >= Need(n, f)
    PROVE  Cardinality(OwnFrags(n, f) \cup Chosen(n, f)) >= KVAL
  <1> DEFINE S == NewFrags(n, f)
             C == Chosen(n, f)
             O == OwnFrags(n, f)
             m == Need(n, f)
             R == {p \in S \X S : TakenBefore(n, f, p[1], p[2])}
  <1>1. IsFiniteSet(S) /\ C \in SUBSET S
    <2>1. S \in SUBSET Frags /\ C \in SUBSET S /\ IsFiniteSet(Frags)
      BY OfferTypes, FragIdsAssumption
    <2> QED  BY <2>1, FS_Subset
  <1>2. IsFiniteSet(O) /\ Cardinality(O) = Len(ReplyFrags(n, f)) /\ Cardinality(O) \in 0 .. KVAL
    BY OwnDifferent, ReplyTypes
  <1>3. m = KVAL - Cardinality(O) /\ m \in Nat
    <2>1. m = KVAL - Cardinality(O)
      BY <1>2 DEF Need
    <2> HIDE DEF m, O
    <2> QED  BY <1>2, <2>1, KvalAssumption
  <1>4. \A h, g \in S : <<h, g>> \in R <=> TakenBefore(n, f, h, g)
    OBVIOUS
  <1>5. C = FirstOf(S, R, m)
    <2>1. C = {g \in S : Cardinality({h \in S : TakenBefore(n, f, h, g)}) < m}
      BY Zenon DEF Chosen
    <2>2. \A g \in S : Preceding(S, R, g) = {h \in S : TakenBefore(n, f, h, g)}
      BY <1>4 DEF Preceding
    <2> HIDE DEF C, R, S, m
    <2> QED  BY <2>1, <2>2 DEF FirstOf
  <1>6. OrderOn(S, R)
    <2>1. /\ \A g \in S : ~TakenBefore(n, f, g, g)
          /\ \A g, h, k \in S : TakenBefore(n, f, g, h) /\ TakenBefore(n, f, h, k) => TakenBefore(n, f, g, k)
      BY TakenInTurn
    <2> HIDE DEF S, R
    <2> QED  BY <1>4, <2>1 DEF OrderOn
  <1>7. Cardinality(S) >= m /\ Cardinality(S) \in Nat
    BY <1>1, FS_CardinalityType
  <1>8. O \cap C = {}
    <2>1. \A g \in S : g \notin O
      BY NewAreNotOwn
    <2> HIDE DEF O, S, C
    <2> QED  BY <1>1, <2>1
  <1> HIDE DEF S, C, O, m, R
  <1>9. Cardinality(FirstOf(S, R, m)) >= m
    BY <1>1, <1>3, <1>6, <1>7, FirstOnes
  <1>10. Cardinality(C) >= m /\ IsFiniteSet(C) /\ Cardinality(C) \in Nat
    <2>1. IsFiniteSet(C)
      BY <1>1, FS_Subset
    <2> QED  BY <1>5, <1>9, <2>1, FS_CardinalityType
  <1>11. Cardinality(O \cup C) = Cardinality(O) + Cardinality(C)
    <2>1. Cardinality(O \cup C) = Cardinality(O) + Cardinality(C) - Cardinality(O \cap C)
      BY <1>2, <1>10, FS_Union
    <2>2. Cardinality(O \cap C) = 0
      BY <1>8, FS_EmptySet
    <2> QED  BY <1>2, <1>10, <2>1, <2>2
  <1>12. Cardinality(O \cup C) >= KVAL
    BY <1>2, <1>3, <1>10, <1>11, KvalAssumption
  <1> QED  BY <1>12 DEF O, C

\* What a step does to a node's count of successes and its fragments.
LEMMA SuccessSteps ==
    ASSUME TypeOK, [Next]_vars, NEW x \in Nodes
    PROVE  \/ cSuccess'[x] = 0
           \/ cSuccess'[x] = cSuccess[x] /\ buf'[x] = buf[x]
           \/ \E f \in Files : /\ Cardinality(NewFrags(x, f)) >= Need(x, f)
                               /\ buf'[x] = OwnFrags(x, f) \cup Chosen(x, f)
  <1> DEFINE Same == UNCHANGED <<cSuccess, buf>>
  <1>1. cSuccess \in [Nodes -> Nat] /\ buf \in [Nodes -> SUBSET Frags]
    BY DEF TypeOK
  <1>2. ASSUME NEW n \in Nodes, NEW f \in Files, process_flrep(n, f)
        PROVE  \/ Same
               \/ /\ cSuccess' = [cSuccess EXCEPT ![n] = @ + 1]
                  /\ buf' = [buf EXCEPT ![n] = OwnFrags(n, f) \cup Chosen(n, f)]
                  /\ Cardinality(NewFrags(n, f)) >= Need(n, f)
    BY <1>2, Zenon DEF process_flrep
  <1>3. ASSUME NEW n \in Nodes, Reload(n)
        PROVE  cSuccess' = [cSuccess EXCEPT ![n] = 0] /\ UNCHANGED buf
    BY <1>3 DEF Reload
  <1>4. ASSUME NEW n \in Nodes, NEW f \in Files, gen_flreq(n, f) PROVE Same
    BY <1>4 DEF gen_flreq
  <1>5. ASSUME NEW n \in Nodes, NEW m \in DOMAIN net,
               \/ recv_flreq(n, m) \/ recv_flrep(n, m) \/ packet_in(n, m)
               \/ recv_exreq(n, m) \/ recv_exrep(n, m) \/ recv_addcache(n, m)
        PROVE  Same
    BY <1>5, Zenon DEF recv_flreq, recv_flrep, packet_in, recv_exreq, recv_exrep, recv_addcache
  <1>6. ASSUME NEW n \in Nodes, NEW m \in DOMAIN hook, packet_verdict(n, m) PROVE Same
    BY <1>6 DEF packet_verdict
  <1>7. ASSUME NEW n \in Nodes, NEW m \in DOMAIN tasks, recv_frreq_ori(n, m) \/ recv_frreq_fwd(n, m)
        PROVE  Same
    BY <1>7, Zenon DEF recv_frreq_ori, recv_frreq_fwd
  <1>8. ASSUME NEW n \in Nodes, NEW t \in DOMAIN timers, select_agent(n, t) PROVE Same
    BY <1>8, Zenon DEF select_agent
  <1>9. ASSUME UNCHANGED vars PROVE Same
    BY <1>9 DEF vars
  <1>10. CASE Same
    BY <1>10
  <1>11. ASSUME NEW n \in Nodes, NEW f \in Files, process_flrep(n, f), ~Same
         PROVE  \/ cSuccess'[x] = cSuccess[x] /\ buf'[x] = buf[x]
                \/ /\ Cardinality(NewFrags(x, f)) >= Need(x, f)
                   /\ buf'[x] = OwnFrags(x, f) \cup Chosen(x, f)
    <2>1. /\ cSuccess' = [cSuccess EXCEPT ![n] = @ + 1]
          /\ buf' = [buf EXCEPT ![n] = OwnFrags(n, f) \cup Chosen(n, f)]
          /\ Cardinality(NewFrags(n, f)) >= Need(n, f)
      BY <1>2, <1>11
    <2>2. CASE x = n
      BY <1>1, <2>1, <2>2
    <2>3. CASE x # n
      BY <1>1, <2>1, <2>3
    <2> QED  BY <2>2, <2>3
  <1>12. ASSUME NEW n \in Nodes, Reload(n)
         PROVE  cSuccess'[x] = 0 \/ (cSuccess'[x] = cSuccess[x] /\ buf'[x] = buf[x])
    BY <1>1, <1>3, <1>12
  <1> HIDE DEF Same
  <1> QED  BY <1>4, <1>5, <1>6, <1>7, <1>8, <1>9, <1>10, <1>11, <1>12 DEF Next

\* Whatever is cached, pushed or lost, and whichever replies came: a
\* retrieval counted as a success has KVAL different fragments of the file
\* if the node caches no fragment twice.
THEOREM RetrievalsGather == Spec => RetrievalsWhole
  <1> DEFINE Whole == \A n \in Nodes : cSuccess'[n] > cSuccess[n] /\ NoRepeats(ctable[n])
                                       => Cardinality(buf'[n]) >= KVAL
  <1>1. TypeOK /\ [Next]_vars => [Whole]_vars
    <2> SUFFICES ASSUME TypeOK, [Next]_vars, NEW n \in Nodes, cSuccess'[n] > cSuccess[n],
                        NoRepeats(ctable[n])
                 PROVE  Cardinality(buf'[n]) >= KVAL
      OBVIOUS
    <2>1. cSuccess[n] \in Nat
      BY DEF TypeOK
    <2>2. cSuccess'[n] # 0 /\ cSuccess'[n] # cSuccess[n]
      BY <2>1
    <2>3. PICK f \in Files : /\ Cardinality(NewFrags(n, f)) >= Need(n, f)
                             /\ buf'[n] = OwnFrags(n, f) \cup Chosen(n, f)
      BY <2>2, SuccessSteps
    <2> QED  BY <2>3, EnoughTaken
  <1> QED  BY <1>1, TypeCorrect, PTL DEF Spec, RetrievalsWhole

-----------------------------------------------------------------------------
(* Without prefetch, every retrieval counts only different fragments.      *)

\* The user stores no fragment twice.
StoredOnce == \A n \in Nodes : \A i, j \in DOMAIN Stored[n] : Stored[n][i] = Stored[n][j] => i = j

\* No fragment is pushed or about to be, and none is cached twice.
NoPush == DOMAIN net \cap Adds = {} /\ DOMAIN timers \cap AddTimers = {}
Single == \A n \in Nodes : NoRepeats(ctable[n])

\* No member of T in a bag is an amount of 0.
LEMMA NoneIsZero ==
    ASSUME NEW B, NEW T, IsABag(B)
    PROVE  DOMAIN B \cap T = {} <=> Countable(B, T) /\ Amount(B, T) = 0
  <1> DEFINE P == DOMAIN B \cap T
  <1>1. ASSUME P = {} PROVE IsFiniteSet(P) /\ Copies(B, P) = 0
    <2>1. Units(B, P) = {}
      BY <1>1 DEF Units
    <2> QED  BY <1>1, <2>1, CopiesUnits, FS_EmptySet
  <1>2. ASSUME IsFiniteSet(P), Copies(B, P) = 0 PROVE P = {}
    <2>1. \A x \in P : B[x] \in Int /\ B[x] >= 1
      BY DEF IsABag
    <2> HIDE DEF P
    <2>2. Cardinality(P) \in Nat /\ Copies(B, P) >= Cardinality(P) * 1
      BY <1>2, <2>1, CopiesAtLeast
    <2>3. Cardinality(P) = 0
      BY <1>2, <2>2
    <2> QED  BY <1>2, <2>3, FS_EmptySet
  <1> QED  BY <1>1, <1>2, Zenon DEF Amount, Countable

\* A list that changes in nothing but its counts repeats nothing new.
LEMMA CountsRepeatNothing ==
    ASSUME NEW t \in Seq(Entry), NEW u, SameButRefs(u, t), NoRepeats(t)
    PROVE  NoRepeats(u)
  <1>1. u \in Seq(Entry) /\ Len(u) = Len(t) /\ DOMAIN t = 1 .. Len(t) /\ DOMAIN u = 1 .. Len(t)
    BY DEF SameButRefs
  <1>2. \A i \in 1 .. Len(t) : u[i].file = t[i].file /\ u[i].frag = t[i].frag
    BY DEF SameButRefs
  <1> QED  BY <1>1, <1>2 DEF NoRepeats

\* Neither does what the user stores.
LEMMA StoredRepeatNothing ==
    ASSUME StoredOnce, NEW n \in Nodes
    PROVE  NoRepeats(init_cache_table(Stored[n]))
  <1> DEFINE s == Stored[n]
             t == init_cache_table(s)
             at(i) == Len(s) + 1 - i
  <1>1. s \in Seq(Pairs) /\ Len(s) \in Nat /\ DOMAIN s = 1 .. Len(s)
    BY ParamsAssumption
  <1>2. /\ t \in Seq(Entry) /\ Len(t) = Len(s)
        /\ \A i \in 1 .. Len(s) : t[i].file = s[at(i)][1] /\ t[i].frag = s[at(i)][2]
    BY <1>1, InitTable
  <1>3. \A i, j \in DOMAIN s : s[i] = s[j] => i = j
    BY DEF StoredOnce
  <1> HIDE DEF s, t
  <1> SUFFICES ASSUME NEW i \in DOMAIN t, NEW j \in DOMAIN t, t[i].file = t[j].file, t[i].frag = t[j].frag
               PROVE  i = j
    BY DEF NoRepeats, t, s
  <1>4. i \in 1 .. Len(s) /\ j \in 1 .. Len(s)
    BY <1>2
  <1>5. at(i) \in DOMAIN s /\ at(j) \in DOMAIN s
    BY <1>1, <1>4
  <1>6. s[at(i)][1] = s[at(j)][1] /\ s[at(i)][2] = s[at(j)][2]
    BY <1>2, <1>4
  <1>7. s[at(i)] \in Files \X Frags /\ s[at(j)] \in Files \X Frags
    BY <1>1, <1>5 DEF Pairs
  <1> HIDE DEF at
  <1>8. s[at(i)] = s[at(j)]
    BY <1>6, <1>7
  <1>9. at(i) = at(j)
    BY <1>3, <1>5, <1>8
  <1> QED  BY <1>1, <1>4, <1>9 DEF at

\* Without prefetch no step starts an exchange or pushes a fragment.
LEMMA NoPushStep ==
    ASSUME ActOn = {}, TypeOK, TypeOK', NoPush, [Next]_vars
    PROVE  NoPush'
  <1>1. Countable(net, Adds) /\ Amount(net, Adds) = 0
    BY NoneIsZero DEF NoPush, TypeOK
  <1>2. ASSUME Quiet(Adds), DOMAIN timers' \subseteq DOMAIN timers \cup (Timer \ AddTimers)
        PROVE  NoPush'
    <2>1. DOMAIN net' \cap Adds = {}
      BY <1>1, <1>2, NoneIsZero DEF Quiet, TypeOK
    <2> QED  BY <1>2, <2>1 DEF NoPush
  <1>3. ASSUME UNCHANGED net PROVE Quiet(Adds)
    BY <1>1, <1>3, UnchangedQuiet
  <1>4. CASE UNCHANGED vars
    BY <1>2, <1>3, <1>4 DEF vars
  <1>5. ASSUME NEW n \in Nodes, NEW f \in Files, gen_flreq(n, f) PROVE NoPush'
    BY <1>1, <1>2, <1>5, AddsKind, GenFlreqQuiet DEF gen_flreq
  <1>6. ASSUME NEW n \in Nodes, NEW f \in Files, process_flrep(n, f) PROVE NoPush'
    <2>1. Quiet(Adds)
      BY <1>1, <1>6, AddsKind, RetrievalQuiet
    <2> DEFINE L == Taken(timers, FragReqSend(n, f))
               dst(g) == rinfo[n][Provider(n, f, g)].dst
               popular == IF n \in ActOn THEN {g \in Chosen(n, f) : reachThreshold(n, f, g)} ELSE {}
               S == {AddCacheSend(n, dst(g), f, g) : g \in popular}
    <2>2. timers' = L (+) SetToBag(S) \/ timers' = L
      BY <1>6, Zenon DEF process_flrep
    <2>3. S = {}
      OBVIOUS
    <2>4. IsABag(L) /\ DOMAIN L \subseteq DOMAIN timers
      BY BagTake DEF TypeOK
    <2> HIDE DEF L, S
    <2>5. DOMAIN (L (+) SetToBag(S)) = DOMAIN L
      <3>1. IsABag(SetToBag(S)) /\ DOMAIN SetToBag(S) = S
        BY BagOfSet
      <3>2. DOMAIN (L (+) SetToBag(S)) = DOMAIN L \cup S
        BY <2>4, <3>1, BagPlus
      <3> QED  BY <2>3, <3>2
    <2>6. DOMAIN timers' \subseteq DOMAIN timers
      BY <2>2, <2>4, <2>5
    <2> QED  BY <1>2, <2>1, <2>6
  <1>7. ASSUME NEW n \in Nodes, NEW m \in DOMAIN net, recv_flreq(n, m) \/ recv_flrep(n, m) PROVE NoPush'
    <2>1. Quiet(Adds)
      BY <1>1, <1>7, AddsKind, RecvFlreqQuiet
    <2> DEFINE t == FragReqSend(n, m.file)
    <2>2. timers' = timers \/ timers' = Inserted(timers, t)
      BY <1>7 DEF recv_flreq, recv_flrep
    <2>3. t \in Timer \ AddTimers
      <3>1. m.file \in Files
        BY MessageFields DEF TypeOK
      <3> QED  BY <3>1, TimerTypes, CollectionTimer
    <2> HIDE DEF t
    <2>4. DOMAIN Inserted(timers, t) \subseteq DOMAIN timers \cup {t}
      BY BagInsert DEF TypeOK
    <2> QED  BY <1>2, <2>1, <2>2, <2>3, <2>4
  <1>8. ASSUME NEW n \in Nodes, NEW m \in DOMAIN net, packet_in(n, m) PROVE NoPush'
    <2>1. Quiet(Adds)
      BY <1>1, <1>8, AddsKind, PassingQuiet
    <2> QED  BY <1>2, <1>8, <2>1 DEF packet_in
  <1>9. ASSUME NEW n \in Nodes, NEW m \in DOMAIN hook, packet_verdict(n, m) PROVE NoPush'
    <2>1. Quiet(Adds)
      BY <1>1, <1>9, AddsKind, PassingQuiet
    <2> QED  BY <1>2, <1>9, <2>1 DEF packet_verdict
  <1>10. ASSUME NEW n \in Nodes, NEW m \in DOMAIN tasks, recv_frreq_ori(n, m) \/ recv_frreq_fwd(n, m)
         PROVE  NoPush'
    <2>1. Quiet(Adds)
      BY <1>1, <1>10, AddsKind, PassingQuiet
    <2>2. UNCHANGED timers
      BY <1>10, Zenon DEF recv_frreq_ori, recv_frreq_fwd, ServeFragment, CountPassing, FlushPassing
    <2> QED  BY <1>2, <2>1, <2>2
  <1>11. ASSUME NEW n \in Nodes, NEW m \in DOMAIN net, recv_exreq(n, m) \/ recv_exrep(n, m) PROVE NoPush'
    <2>1. Quiet(Adds)
      BY <1>1, <1>11, AddsKind, BidQuiet
    <2> QED  BY <1>2, <1>11, <2>1 DEF recv_exreq, recv_exrep
  <1>12. ASSUME NEW n \in Nodes, NEW m \in DOMAIN net, recv_addcache(n, m) PROVE FALSE
    BY <1>12 DEF recv_addcache, NoPush, Adds, TypeOK
  <1>13. ASSUME NEW n \in Nodes, NEW t \in DOMAIN timers, select_agent(n, t) PROVE FALSE
    <2>1. t.type = "ADD_CACHE_SEND"
      BY <1>13, Zenon DEF select_agent
    <2> QED  BY <2>1 DEF NoPush, AddTimers, TypeOK
  <1>14. ASSUME NEW n \in Nodes, Reload(n) PROVE NoPush'
    <2>1. UNCHANGED net /\ timers' = Elsewhere(timers, {t \in DOMAIN timers : t.node = n})
      BY <1>14 DEF Reload
    <2>2. DOMAIN timers' \subseteq DOMAIN timers
      BY <2>1, BagElsewhere DEF TypeOK
    <2> QED  BY <1>2, <1>3, <2>1, <2>2
  <1> QED
    BY <1>4, <1>5, <1>6, <1>7, <1>8, <1>9, <1>10, <1>11, <1>12, <1>13, <1>14 DEF Next

\* A step that starts no exchange and pushes nothing stores nothing: a table
\* changes in its counts, or is read again from what the user stored.
LEMMA SingleStep ==
    ASSUME StoredOnce, TypeOK, NoPush, Single, [Next]_vars
    PROVE  Single'
  <1>1. ctable \in [Nodes -> Seq(Entry)]
    BY DEF TypeOK
  <1>2. ASSUME NEW n \in Nodes, NEW u, NoRepeats(u), ctable' = [ctable EXCEPT ![n] = u]
        PROVE  Single'
    BY <1>1, <1>2 DEF Single
  <1>3. ASSUME UNCHANGED ctable PROVE Single'
    BY <1>3 DEF Single
  <1>4. ASSUME NEW n \in Nodes, NEW f \in Files, process_flrep(n, f) PROVE Single'
    <2>1. UNCHANGED ctable \/ ctable' = [ctable EXCEPT ![n] = local_hits(ctable[n], f)]
      BY <1>4, Zenon DEF process_flrep
    <2>2. NoRepeats(local_hits(ctable[n], f))
      BY <1>1, LocalHitsEffect, CountsRepeatNothing DEF Single
    <2> QED  BY <1>2, <1>3, <2>1, <2>2
  <1>5. ASSUME NEW n \in Nodes, NEW m \in DOMAIN tasks, recv_frreq_ori(n, m) \/ recv_frreq_fwd(n, m)
        PROVE  Single'
    <2>1. UNCHANGED ctable \/ ctable' = [ctable EXCEPT ![n] = update_ref(ctable[n], m.file, m.frag)]
      BY <1>5, Zenon DEF recv_frreq_ori, recv_frreq_fwd, ServeFragment, CountPassing, FlushPassing
    <2>2. m.file \in Files /\ m.frag \in Frags
      BY DEF TypeOK, FragmentRequest
    <2>3. NoRepeats(update_ref(ctable[n], m.file, m.frag))
      BY <1>1, <2>2, UpdateRefEffect, CountsRepeatNothing DEF Single
    <2> QED  BY <1>2, <1>3, <2>1, <2>3
  <1>6. ASSUME NEW n \in Nodes, Reload(n) PROVE Single'
    <2>1. ctable' = [ctable EXCEPT ![n] = init_cache_table(Stored[n])]
      BY <1>6 DEF Reload
    <2> QED  BY <1>2, <2>1, StoredRepeatNothing
  <1>7. ASSUME NEW n \in Nodes, NEW f \in Files, gen_flreq(n, f) PROVE Single'
    BY <1>3, <1>7 DEF gen_flreq
  <1>8. ASSUME NEW n \in Nodes, NEW m \in DOMAIN net,
               recv_flreq(n, m) \/ recv_flrep(n, m) \/ packet_in(n, m) \/ recv_exreq(n, m) \/ recv_exrep(n, m)
        PROVE  Single'
    <2>1. UNCHANGED ctable
      BY <1>8, Zenon DEF recv_flreq, recv_flrep, packet_in, recv_exreq, recv_exrep
    <2> QED  BY <1>3, <2>1
  <1>9. ASSUME NEW n \in Nodes, NEW m \in DOMAIN hook, packet_verdict(n, m) PROVE Single'
    BY <1>3, <1>9 DEF packet_verdict
  <1>10. ASSUME NEW n \in Nodes, NEW m \in DOMAIN net, recv_addcache(n, m) PROVE FALSE
    BY <1>10 DEF recv_addcache, NoPush, Adds, TypeOK
  <1>11. ASSUME NEW n \in Nodes, NEW t \in DOMAIN timers, select_agent(n, t) PROVE FALSE
    <2>1. t.type = "ADD_CACHE_SEND"
      BY <1>11, Zenon DEF select_agent
    <2> QED  BY <2>1 DEF NoPush, AddTimers, TypeOK
  <1>12. CASE UNCHANGED vars
    BY <1>3, <1>12 DEF vars
  <1> QED
    BY <1>4, <1>5, <1>6, <1>7, <1>8, <1>9, <1>10, <1>11, <1>12 DEF Next

\* Where prefetch is off and the user stores no fragment twice, a node that
\* counts a success holds KVAL different fragments of the file: KDistinct
\* fails only through the fragments prefetch adds to a table.
THEOREM RetrievedDistinct ==
    ASSUME ActOn = {}, StoredOnce
    PROVE  Spec => []KDistinct
  <1>1. Init => NoPush /\ Single /\ KDistinct
    <2> SUFFICES ASSUME Init PROVE NoPush /\ Single /\ KDistinct
      OBVIOUS
    <2>1. NoPush
      BY BagOfSet DEF Init, EmptyBag, NoPush
    <2>2. Single
      BY StoredRepeatNothing DEF Init, Single
    <2>3. KDistinct
      BY DEF Init, KDistinct
    <2> QED  BY <2>1, <2>2, <2>3
  <1>2. TypeOK /\ TypeOK' /\ NoPush /\ [Next]_vars => NoPush'
    BY NoPushStep
  <1>3. TypeOK /\ NoPush /\ Single /\ [Next]_vars => Single'
    BY SingleStep
  <1>4. TypeOK /\ Single /\ KDistinct /\ [Next]_vars => KDistinct'
    <2> SUFFICES ASSUME TypeOK, Single, KDistinct, [Next]_vars, NEW n \in Nodes, cSuccess'[n] > 0
                 PROVE  Cardinality(buf'[n]) >= KVAL
      BY DEF KDistinct
    <2>1. CASE cSuccess'[n] = 0
      BY <2>1
    <2>2. CASE cSuccess'[n] = cSuccess[n] /\ buf'[n] = buf[n]
      BY <2>2 DEF KDistinct
    <2>3. CASE \E f \in Files : /\ Cardinality(NewFrags(n, f)) >= Need(n, f)
                                /\ buf'[n] = OwnFrags(n, f) \cup Chosen(n, f)
      BY <2>3, EnoughTaken DEF Single
    <2> QED  BY <2>1, <2>2, <2>3, SuccessSteps
  <1> QED
    BY <1>1, <1>2, <1>3, <1>4, TypeCorrect, PTL DEF Spec
=============================================================================
