----------------------------- MODULE MCTilemap -----------------------------
(* Tilemap with the numbers of the program: chunks of 16 by 16 tiles whose *)
(* coordinates are 16 bits wide.  Chunks are only generated.               *)
EXTENDS Tilemap

NoFloors == {}
NoRandomi(seed, n) == 0
=============================================================================
