------------------------------ MODULE Custody ------------------------------
(***************************************************************************)
(* What netfilter can rely on with packet_queue.c as its queue handler.    *)
(* An entry is handed over once.  If the handler keeps it, it feeds it     *)
(* back at most once, and has done so when it is gone for good.            *)
(*                                                                         *)
(* Netfilter asks more: every entry is to be fed back, or refused and left *)
(* to netfilter.  An entry that ipq_enqueue does not keep is neither: it   *)
(* is freed and an error is returned, at which netfilter frees it as well. *)
(* Such an entry is lost, and nothing is promised of it.                   *)
(***************************************************************************)
CONSTANT Entries       \* the nf_queue_entry structures

VARIABLES
    place,             \* place[e]: who has to deal with e
    closed             \* the handler is gone

Init == place = [e \in Entries |-> "netfilter"] /\ ~closed

Pass(e, from, to) == place[e] = from /\ place' = [place EXCEPT ![e] = to]

Keep(e)     == Pass(e, "netfilter", "handler")
Lose(e)     == Pass(e, "netfilter", "lost")
FeedBack(e) == Pass(e, "handler", "back")

Close == /\ \A e \in Entries : place[e] # "handler"
         /\ closed' /\ UNCHANGED place

Next ==
    /\ ~closed
    /\ \/ \E e \in Entries : (Keep(e) \/ Lose(e) \/ FeedBack(e)) /\ ~closed'
       \/ Close

Spec == Init /\ [][Next]_<<place, closed>>
=============================================================================
