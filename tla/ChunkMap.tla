------------------------------ MODULE ChunkMap ------------------------------
(***************************************************************************)
(* What the tilemap promises: a floor for each loaded chunk, and air       *)
(* wherever no chunk is loaded, beyond the edges of the world included.    *)
(* Tilemap keeps the chunks under a key computed from their coordinates    *)
(* and finds tiles with unsigned arithmetic.                               *)
(***************************************************************************)
EXTENDS Integers

CONSTANTS CHUNK_SIZE_TLS, Floors, Air, Grass

VARIABLE floors  \* floors[<<x, y>>]: the floor of the chunk at x, y

(* The tile at a position of the plane.                                    *)
TileAt(x, y) ==
  LET c == <<x \div CHUNK_SIZE_TLS, y \div CHUNK_SIZE_TLS>>
  IN  IF c \in DOMAIN floors
      THEN floors[c][(x % CHUNK_SIZE_TLS) + (y % CHUNK_SIZE_TLS) * CHUNK_SIZE_TLS]
      ELSE Air

MapInit == floors = <<>>

SetChunk(c, floor) ==
  floors' = [d \in DOMAIN floors \union {c} |-> IF d = c THEN floor ELSE floors[d]]

(* Every chunk of a rectangle is covered with grass.                       *)
Generate(low, high) ==
  LET area == (low[1]..high[1]) \X (low[2]..high[2]) IN
  floors' = [d \in DOMAIN floors \union area |-> IF d \in area THEN Grass ELSE floors[d]]

MapNext ==
  \/ \E c \in DOMAIN floors' : \E floor \in Floors : SetChunk(c, floor)
  \/ \E low, high \in DOMAIN floors' : Generate(low, high)

Map == MapInit /\ [][MapNext]_floors
=============================================================================
