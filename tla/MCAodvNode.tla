----------------------------- MODULE MCAodvNode -----------------------------
(* One daemon with two nodes around it and a local subnet.  iptables       *)
(* queues packet 3, which is for a host of that.                           *)
EXTENDS AodvNode

DstOf == <<1, 1, 6>>
=============================================================================
