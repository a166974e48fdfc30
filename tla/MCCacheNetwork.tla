-------------------------- MODULE MCCacheNetwork --------------------------
(* Three nodes in a line, a - b - c.  Node a stores two fragments of a     *)
(* file and asks for the third, which is stored at the far end.            *)
EXTENDS CacheNetwork, TLC

CONSTANTS a, b, c

Line3 == (a :> {b}) @@ (b :> {a, c}) @@ (c :> {b})

Via3(x, y, z) == (a :> x) @@ (b :> y) @@ (c :> z)
Route3 == Via3(Via3(a, b, b), Via3(a, b, c), Via3(b, b, c))

\* File 1, fragments 1 to 3, three nodes.
Apart3 == Via3(<<<<1, 1>>, <<1, 2>>>>, <<>>, <<<<1, 3>>>>)
Ask3   == <<<<a, 1>>, <<a, 1>>>>
Ask3B  == Ask3 \o <<<<b, 1>>>>

\* File 0, fragments 0 to 2: ids that are equal to their high byte.
Apart0 == Via3(<<<<0, 1>>, <<0, 2>>>>, <<>>, <<<<0, 0>>>>)
Ask0   == <<<<a, 0>>, <<a, 0>>>>

\* The far end also stores a fragment that a has.
Overlap0 == Via3(<<<<0, 1>>, <<0, 2>>>>, <<>>, <<<<0, 0>>, <<0, 1>>>>)
AskOff == <<<<a, 0>>, <<b, 0>>>>
=============================================================================
