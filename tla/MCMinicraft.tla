---------------------------- MODULE MCMinicraft ----------------------------
(* Small instances of Minicraft.                                           *)
EXTENDS Minicraft, TLC

CONSTANTS c1, c2, p1, p2

TwoConns == {c1, c2}
TwoPuids == {p1, p2}
(* For the runs with symmetry a client's uid is written as its connection. *)
OwnPuidOf == [c \in Conn |-> c]
ConnSymmetry == Permutations(Conn)

DistinctPuidOf == [c \in Conn |-> IF c = c1 THEN p1 ELSE p2]

Spawn == <<128, 72>>
KeysWD == {<<0, 1>>, <<1, 0>>}
KeyD == {<<1, 0>>}
MinicraftBodies == Bodies
=============================================================================
