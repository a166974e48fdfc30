------------------------------- MODULE MCAodv -------------------------------
(* Instances of AodvNetwork for TLC.                                       *)
EXTENDS AodvNetwork, TLC
CONSTANTS a, b, c

Pair == {{a, b}}
Line == {{a, b}, {b, c}}
FarLink == {{b, c}}
NoLinks == {}

OneToB == <<<<a, b>>>>
OneToC == <<<<a, c>>>>
TwoToC == <<<<a, c>>, <<a, c>>>>
=============================================================================
