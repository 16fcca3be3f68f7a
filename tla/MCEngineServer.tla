--------------------------- MODULE MCEngineServer ---------------------------
(* Small instances of EngineServer.                                        *)
EXTENDS EngineServer, TLC

CONSTANTS c1, c2, c3, p1, p2, p3, move

TwoConns == {c1, c2}
ThreeConns == {c1, c2, c3}
TwoPuids == {p1, p2}
ThreePuids == {p1, p2, p3}
Bodies == {move}

DistinctPuidOf == [c \in Conn |-> CASE c = c1 -> p1 [] c = c2 -> p2 [] OTHER -> p3]

(* For the runs with symmetry a client's uid is written as its connection. *)
OwnPuidOf == [c \in Conn |-> c]
ConnSymmetry == Permutations(Conn)

(* Two clients that were started in the same second.                       *)
CollidingPuidOf == [c \in Conn |-> IF c = c3 THEN p2 ELSE p1]
=============================================================================
