--------------------------- MODULE TilemapProofs ---------------------------
(***************************************************************************)
(* Proofs about Tilemap, for any size of chunks and any coordinates whose  *)
(* keys are apart (KeysApart): the chunks are the map they stand for and   *)
(* every tile is found through the truncations of get_tile; a frame does   *)
(* not depend on the order of the hash map; it covers the loaded chunks    *)
(* exactly, each quadrant with the borders its neighbours ask for.         *)
(*                                                                         *)
(* The invariant says that chunks are kept under the keys of their own     *)
(* coordinates and that the picture is the frame they make; what a frame   *)
(* is without the order it was drawn in is proved of FrameOf first.        *)
(***************************************************************************)
EXTENDS Tilemap, FiniteSetTheorems, TLAPS

(* A set of numbers has a least one.                                       *)
LEMMA Least ==
  ASSUME NEW S \in SUBSET Nat, S # {}
  PROVE  \E x \in S : \A y \in S : x <= y
<1> DEFINE R == OpToRel(<, Nat)
<1>1. IsWellFoundedOn(R, Nat)
  BY NatLessThanWellFounded
<1>2. PICK x \in S : \A y \in S : <<y, x>> \notin R
  BY <1>1, WFMin
<1>3. \A y \in S : ~(y < x)
  BY <1>2 DEF OpToRel
<1> QED
  BY <1>3

(* Division of integers by a positive number.                              *)
LEMMA Euclid ==
  ASSUME NEW a \in Int, NEW n \in Nat \ {0}
  PROVE  a \div n \in Int /\ a % n \in 0..(n - 1) /\ a = n * (a \div n) + (a % n)
<1>1. a \div n \in Int /\ a % n \in 0..(n - 1)
  OBVIOUS
<1>2. n \in Nat /\ n > 0
  OBVIOUS
<1>3. a = n * (a \div n) + (a % n)
  BY <1>2, Z3
<1> QED
  BY <1>1, <1>3

(* A multiple of n that lies between -n and n is none.                     *)
LEMMA Times ==
  ASSUME NEW n \in Nat \ {0}, NEW k \in Int, NEW r \in Int, n * k + r = 0, r < n, -n < r
  PROVE  k = 0
<1>1. CASE k >= 1
  <2>1. n * k >= n
    BY <1>1
  <2> QED
    BY <2>1
<1>2. CASE k <= -1
  <2>1. n * k <= -n
    BY <1>2
  <2> QED
    BY <2>1
<1> QED
  BY <1>1, <1>2

(* What is n times q and a rest below n has that quotient and rest.        *)
LEMMA DivMod ==
  ASSUME NEW n \in Nat \ {0}, NEW q \in Int, NEW r \in 0..(n - 1)
  PROVE  (n * q + r) \div n = q /\ (n * q + r) % n = r
<1> DEFINE a == n * q + r
<1>0. a \in Int
  OBVIOUS
<1>1. PICK p \in Int, s \in 0..(n - 1) : p = a \div n /\ s = a % n /\ a = n * p + s
  BY <1>0, Euclid
<1>2. n * (q - p) + (r - s) = 0
  <2>1. n * q + r = n * p + s
    BY <1>1
  <2>2. n * (q - p) = n * q - n * p
    OBVIOUS
  <2> QED
    BY <2>1, <2>2
<1>3. q - p = 0
  BY <1>2, Times
<1> QED
  BY <1>1, <1>2, <1>3

(* Whole multiples of n are seen by the quotient only.                     *)
LEMMA Shifted ==
  ASSUME NEW n \in Nat \ {0}, NEW a \in Int, NEW k \in Int
  PROVE  (a + n * k) % n = a % n /\ (a + n * k) \div n = a \div n + k
<1>1. PICK q \in Int, r \in 0..(n - 1) : q = a \div n /\ r = a % n /\ a = n * q + r
  BY Euclid
<1>2. PICK b \in Int : b = q + k
  OBVIOUS
<1>3. a + n * k = n * b + r
  BY <1>1, <1>2
<1>4. (n * b + r) \div n = b /\ (n * b + r) % n = r
  BY DivMod
<1>5. (a + n * k) \div n = b /\ (a + n * k) % n = r
  BY <1>3, <1>4, Zenon
<1> QED
  BY <1>1, <1>2, <1>5

(* A multiple of n, reduced modulo a multiple of n, leaves the remainder   *)
(* modulo n as it is.                                                      *)
LEMMA Reduced ==
  ASSUME NEW n \in Nat \ {0}, NEW m \in Nat \ {0}, m % n = 0, NEW a \in Int
  PROVE  (a % m) % n = a % n
<1>1. PICK q \in Int, r \in 0..(m - 1) : q = a \div m /\ r = a % m /\ a = m * q + r
  BY Euclid
<1>2. PICK p \in Int : p = m \div n /\ m = n * p
  BY Euclid
<1>3. PICK b \in Int : b = p * q
  OBVIOUS
<1>4. a = r + n * b
  <2>1. (n * p) * q = n * (p * q)
    OBVIOUS
  <2>2. a = (n * p) * q + r
    BY <1>1, <1>2
  <2>3. n * b \in Int /\ (n * p) * q = n * b /\ r \in Int
    BY <1>3, <2>1
  <2> QED
    BY <2>2, <2>3
<1>5. (r + n * b) % n = r % n
  <2>1. r \in Int
    OBVIOUS
  <2> QED
    BY <2>1, Shifted, Zenon
<1> QED
  BY <1>1, <1>4, <1>5

(* A number that leaves no rest is a multiple.                             *)
LEMMA Multiple ==
  ASSUME NEW n \in Nat \ {0}, NEW a \in Nat \ {0}, a % n = 0
  PROVE  \E q \in Int : a = n * q
<1>1. a \div n \in Int /\ a = n * (a \div n) + (a % n)
  BY Euclid
<1>2. PICK q \in Int : q = a \div n
  BY <1>1
<1>3. a = n * q + 0
  BY <1>1, <1>2
<1>4. a = n * q
  BY <1>3
<1> QED
  BY <1>4

(* What is below n is its own rest.                                        *)
LEMMA Small ==
  ASSUME NEW n \in Nat \ {0}, NEW a \in 0..(n - 1)
  PROVE  a % n = a /\ a \div n = 0
<1>1. n * 0 + a = a
  OBVIOUS
<1>2. (n * 0 + a) \div n = 0 /\ (n * 0 + a) % n = a
  BY DivMod
<1> QED
  BY <1>1, <1>2

-----------------------------------------------------------------------------
(* The truncations of get_tile: a position of the plane, reduced to an     *)
(* unsigned int, has the coordinate of its chunk modulo the width of the   *)
(* world, and its own place in the chunk.                                  *)
ChunkOf(a) == ((a % UINT) \div CHUNK_SIZE_TLS) % USHORT
PlaceIn(a) == (((a % UINT) - ChunkOf(a) * CHUNK_SIZE_TLS) % UINT) % UCHAR

(* So that a tile is looked for where it is, whatever the truncations cut  *)
(* off on the way.                                                         *)
LEMMA Truncations ==
  ASSUME NEW x \in Int
  PROVE  /\ ChunkOf(x) = (x \div CHUNK_SIZE_TLS) % USHORT
         /\ PlaceIn(x) = x % CHUNK_SIZE_TLS
<1> DEFINE C == CHUNK_SIZE_TLS
<1>0. /\ C \in Nat \ {0} /\ USHORT \in Nat \ {0} /\ UINT \in Nat \ {0} /\ UCHAR \in Nat \ {0}
      /\ C <= UCHAR /\ UINT % (USHORT * C) = 0 /\ (USHORT * C) % UCHAR = 0
  BY TilemapAssumption
<1> HIDE DEF C
<1>1. PICK W \in Nat \ {0} : W = USHORT * C
  BY <1>0
<1>2. PICK m \in Int : UINT = W * m
  <2>1. UINT % W = 0
    BY <1>0, <1>1, Zenon
  <2> QED
    BY <1>0, <2>1, Multiple
<1>3. PICK w \in Int : W = UCHAR * w
  <2>1. W % UCHAR = 0
    BY <1>0, <1>1, Zenon
  <2> QED
    BY <1>0, <2>1, Multiple
<1>4. PICK a \in 0..(UINT - 1), e \in Int : a = x % UINT /\ x = UINT * e + a
  <2>1. x \div UINT \in Int /\ x % UINT \in 0..(UINT - 1) /\ x = UINT * (x \div UINT) + (x % UINT)
    BY <1>0, Euclid
  <2> QED
    BY <2>1, Zenon
<1>5. PICK d \in Int, l \in 0..(C - 1) : d = x \div C /\ l = x % C /\ x = C * d + l
  <2>1. x \div C \in Int /\ x % C \in 0..(C - 1) /\ x = C * (x \div C) + (x % C)
    BY <1>0, Euclid
  <2> QED
    BY <2>1, Zenon
<1>6. PICK k \in Int : k = -(m * e)
  OBVIOUS
<1>7. a = x + W * k
  <2>1. (W * m) * e = W * (m * e)
    OBVIOUS
  <2>2. W * (-(m * e)) = -(W * (m * e))
    OBVIOUS
  <2>3. x = (W * m) * e + a
    BY <1>2, <1>4
  <2> QED
    BY <1>6, <2>1, <2>2, <2>3
<1>8. a = x + C * (USHORT * k)
  <2>1. (USHORT * C) * k = C * (USHORT * k)
    BY <1>0
  <2> QED
    BY <1>1, <1>7, <2>1
<1>9. a \div C = d + USHORT * k
  <2>1. PICK b \in Int : b = USHORT * k
    BY <1>0
  <2>2. (x + C * b) \div C = (x \div C) + b
    BY <1>0, Shifted, Zenon
  <2> QED
    BY <1>5, <1>8, <2>1, <2>2
<1>10. ChunkOf(x) = d % USHORT
  <2>1. (d + USHORT * k) % USHORT = d % USHORT
    BY <1>0, Shifted, Zenon
  <2> QED
    BY <1>4, <1>9, <2>1 DEF ChunkOf, C
<1>11. PICK c \in 0..(USHORT - 1), f \in Int : c = d % USHORT /\ d = USHORT * f + c
  <2>1. d \div USHORT \in Int /\ d % USHORT \in 0..(USHORT - 1)
        /\ d = USHORT * (d \div USHORT) + (d % USHORT)
    BY <1>0, Euclid
  <2> QED
    BY <2>1, Zenon
<1>12. PICK b \in Int : b = a - c * C
  BY <1>0
<1>13. PICK t \in Int : t = f + k
  OBVIOUS
<1>14. b = l + W * t
  <2>1. C * d = C * (USHORT * f) + C * c
    BY <1>0, <1>11
  <2>2. C * (USHORT * f) = W * f /\ C * c = c * C
    BY <1>0, <1>1
  <2>3. W * t = W * f + W * k
    BY <1>13
  <2>4. /\ W * f \in Int /\ W * k \in Int /\ c * C \in Int /\ W * t \in Int
        /\ C * d \in Int
    BY <1>0
  <2>5. a = C * d + l + W * k
    BY <1>5, <1>7
  <2>6. C * d = W * f + c * C
    BY <2>1, <2>2, Zenon
  <2> QED
    <3>1. PICK p \in Int, q \in Int, r \in Int, v \in Int :
            p = W * f /\ q = W * k /\ r = c * C /\ v = W * t
      BY <2>4, Zenon
    <3>2. a = (p + r) + l + q
      BY <2>5, <2>6, <3>1, Zenon
    <3>3. v = p + q /\ b = a - r
      BY <1>12, <2>3, <3>1, Zenon
    <3>4. l \in Int
      BY <1>0
    <3>5. b = l + v
      BY <3>2, <3>3, <3>4
    <3> QED
      BY <3>1, <3>5, Zenon
<1>15. b % UCHAR = l
  <2>1. PICK z \in Int : z = w * t
    OBVIOUS
  <2>2. (UCHAR * w) * t = UCHAR * (w * t)
    BY <1>0
  <2>3. b = l + UCHAR * z
    BY <1>3, <1>14, <2>1, <2>2
  <2>4. l \in Int /\ C \in Int
    BY <1>0
  <2>5. (l + UCHAR * z) % UCHAR = l % UCHAR
    BY <1>0, <2>4, Shifted, Zenon
  <2>6. l \in 0..(UCHAR - 1)
    BY <1>0
  <2> QED
    BY <1>0, <2>3, <2>5, <2>6, Small
<1>16. UINT % UCHAR = 0
  <2>1. (UCHAR * w) * m = UCHAR * (w * m)
    BY <1>0
  <2>2. PICK z \in Int : z = w * m
    OBVIOUS
  <2>3. UINT = UCHAR * z + 0
    BY <1>0, <1>2, <1>3, <2>1, <2>2
  <2>4. 0 \in 0..(UCHAR - 1)
    BY <1>0
  <2>5. (UCHAR * z + 0) % UCHAR = 0
    BY <1>0, <2>4, DivMod, Zenon
  <2> QED
    BY <2>3, <2>5
<1>17. (b % UINT) % UCHAR = b % UCHAR
  BY <1>0, <1>16, Reduced, Zenon
<1>18. PlaceIn(x) = (b % UINT) % UCHAR
  BY <1>4, <1>10, <1>11, <1>12 DEF PlaceIn, C
<1> QED
  BY <1>5, <1>10, <1>15, <1>17, <1>18 DEF C

(* The chunks that are loaded.                                             *)
Chunks == [x : Extent, y : Extent, tiles : [TileIndexes -> TileIDs]]
ChunksOK(chunks) ==
  /\ IsFiniteSet(DOMAIN chunks) /\ chunks \in [DOMAIN chunks -> Chunks]
  /\ \A key \in DOMAIN chunks : key = GetChunkKey(chunks[key].x, chunks[key].y)

(* The coordinates callers name, and those next to them.                   *)
LEMMA ExtentFacts ==
  /\ Extent \subseteq Around /\ Extent \subseteq 0..(USHORT - 1)
  /\ \A x \in Extent : x % USHORT = x
<1>1. USHORT \in Nat \ {0}
  BY TilemapAssumption
<1>2. Extent \subseteq Around /\ Extent \subseteq 0..(USHORT - 1)
  BY <1>1 DEF Extent, Around
<1>3. ASSUME NEW x \in Extent PROVE x % USHORT = x
  BY <1>1, <1>2, Small
<1> QED
  BY <1>2, <1>3

(* No two chunks that callers can name share a key.                        *)
LEMMA KeysOfExtent ==
  ASSUME KeysApart, NEW c1 \in Extent, NEW c2 \in Extent, NEW d1 \in Extent, NEW d2 \in Extent,
         GetChunkKey(c1, c2) = GetChunkKey(d1, d2)
  PROVE  c1 = d1 /\ c2 = d2
<1>1. /\ d1 \in Around /\ d2 \in Around
      /\ GetChunkKey(c1, c2) = GetChunkKey(d1 % USHORT, d2 % USHORT)
  BY ExtentFacts
<1> QED
  BY <1>1 DEF KeysApart

(* The map that some chunks stand for.                                     *)
FloorsOf(chunks) ==
  [c \in {<<chunks[key].x, chunks[key].y>> : key \in DOMAIN chunks} |->
     (CHOOSE chunk \in {chunks[key] : key \in DOMAIN chunks} : <<chunk.x, chunk.y>> = c).tiles]

(* The map the chunks stand for has the floor of each of them.             *)
LEMMA FloorsFacts ==
  ASSUME NEW chunks, ChunksOK(chunks)
  PROVE  /\ DOMAIN FloorsOf(chunks) = {<<chunks[key].x, chunks[key].y>> :
                                key \in DOMAIN chunks}
         /\ \A key \in DOMAIN chunks :
              FloorsOf(chunks)[<<chunks[key].x, chunks[key].y>>] = chunks[key].tiles
         /\ \A c \in DOMAIN FloorsOf(chunks) :
              /\ c = <<c[1], c[2]>> /\ c[1] \in Extent /\ c[2] \in Extent
              /\ GetChunkKey(c[1], c[2]) \in DOMAIN chunks
              /\ FloorsOf(chunks)[c] = chunks[GetChunkKey(c[1], c[2])].tiles
<1>1. DOMAIN FloorsOf(chunks) = {<<chunks[key].x, chunks[key].y>> :
                          key \in DOMAIN chunks}
  BY DEF FloorsOf
<1>2. ASSUME NEW key \in DOMAIN chunks
      PROVE  FloorsOf(chunks)[<<chunks[key].x, chunks[key].y>>] = chunks[key].tiles
  <2> DEFINE c == <<chunks[key].x, chunks[key].y>>
             all == {chunks[k] : k \in DOMAIN chunks}
             chosen == CHOOSE chunk \in all : <<chunk.x, chunk.y>> = c
  <2>1. FloorsOf(chunks)[c] = chosen.tiles
    BY <1>1 DEF FloorsOf
  <2>2. chosen \in all /\ <<chosen.x, chosen.y>> = c
    <3>1. chunks[key] \in all /\ <<chunks[key].x, chunks[key].y>> = c
      OBVIOUS
    <3> HIDE DEF all, c
    <3>2. \E chunk \in all : <<chunk.x, chunk.y>> = c
      BY <3>1
    <3> QED
      BY <3>2
  <2> HIDE DEF chosen
  <2>3. PICK k \in DOMAIN chunks : chosen = chunks[k]
    BY <2>2
  <2>4. chosen.x = chunks[key].x /\ chosen.y = chunks[key].y
    BY <2>2
  <2>5. k = key
    BY <2>3, <2>4 DEF ChunksOK
  <2> QED
    BY <2>1, <2>3, <2>5
<1>3. ASSUME NEW c \in DOMAIN FloorsOf(chunks)
      PROVE  /\ c = <<c[1], c[2]>> /\ c[1] \in Extent /\ c[2] \in Extent
             /\ GetChunkKey(c[1], c[2]) \in DOMAIN chunks
             /\ FloorsOf(chunks)[c] = chunks[GetChunkKey(c[1], c[2])].tiles
  <2>1. PICK key \in DOMAIN chunks : c = <<chunks[key].x, chunks[key].y>>
    BY <1>1
  <2>2. /\ chunks[key] \in Chunks
        /\ key = GetChunkKey(chunks[key].x, chunks[key].y)
    BY DEF ChunksOK
  <2>3. c[1] = chunks[key].x /\ c[2] = chunks[key].y
    BY <2>1
  <2> QED
    BY <1>2, <2>1, <2>2, <2>3 DEF Chunks
<1> QED
  BY <1>1, <1>2, <1>3

(* The same of the map itself.                                             *)
LEMMA FloorFacts ==
  ASSUME ChunksOK(loaded_chunks)
  PROVE  /\ DOMAIN FloorAt = {<<loaded_chunks[key].x, loaded_chunks[key].y>> :
                                key \in DOMAIN loaded_chunks}
         /\ \A key \in DOMAIN loaded_chunks :
              FloorAt[<<loaded_chunks[key].x, loaded_chunks[key].y>>] = loaded_chunks[key].tiles
         /\ \A c \in DOMAIN FloorAt :
              /\ c = <<c[1], c[2]>> /\ c[1] \in Extent /\ c[2] \in Extent
              /\ GetChunkKey(c[1], c[2]) \in DOMAIN loaded_chunks
              /\ FloorAt[c] = loaded_chunks[GetChunkKey(c[1], c[2])].tiles
<1>1. FloorAt = FloorsOf(loaded_chunks)
  BY DEF FloorAt, FloorsOf
<1> HIDE DEF FloorAt
<1> QED
  BY <1>1, FloorsFacts, Zenon

(* A tile in or next to a chunk, and where it is in the chunk it is in.    *)
LEMMA Neighbourhood ==
  ASSUME NEW c \in Extent, NEW i \in -1..CHUNK_SIZE_TLS
  PROVE  /\ (c * CHUNK_SIZE_TLS + i) \div CHUNK_SIZE_TLS \in Around
         /\ i \in 0..(CHUNK_SIZE_TLS - 1) =>
              /\ (c * CHUNK_SIZE_TLS + i) \div CHUNK_SIZE_TLS = c
              /\ (c * CHUNK_SIZE_TLS + i) % CHUNK_SIZE_TLS = i
<1> DEFINE C == CHUNK_SIZE_TLS
<1>0. C \in Nat \ {0} /\ USHORT \in Nat \ {0} /\ c \in 0..(USHORT - 1)
  BY TilemapAssumption, ExtentFacts
<1>00. i \in -1..C
  OBVIOUS
<1> HIDE DEF C
<1>1. CASE i \in 0..(C - 1)
  <2>1. c * C + i = C * c + i
    BY <1>0
  <2>2. (C * c + i) \div C = c /\ (C * c + i) % C = i
    BY <1>0, <1>1, DivMod
  <2> QED
    BY <2>1, <2>2, ExtentFacts DEF C
<1>2. CASE i = -1
  <2>1. c * C + i = C * (c - 1) + (C - 1)
    BY <1>0, <1>2
  <2>2. (C * (c - 1) + (C - 1)) \div C = c - 1
    <3>1. PICK b \in Int : b = c - 1
      BY <1>0
    <3>2. C - 1 \in 0..(C - 1)
      BY <1>0
    <3>3. (C * b + (C - 1)) \div C = b
      BY <1>0, <3>2, DivMod
    <3> QED
      BY <3>1, <3>3
  <2>3. c - 1 \in Around
    BY <1>0 DEF Around
  <2> QED
    BY <1>2, <2>1, <2>2, <2>3 DEF C
<1>3. CASE i = C
  <2>1. c * C + i = C * (c + 1) + 0
    BY <1>0, <1>3
  <2>2. (C * (c + 1) + 0) \div C = c + 1
    <3>1. PICK b \in Int : b = c + 1
      BY <1>0
    <3>2. 0 \in 0..(C - 1)
      BY <1>0
    <3>3. (C * b + 0) \div C = b
      BY <1>0, <3>2, DivMod
    <3> QED
      BY <3>1, <3>3
  <2>3. c + 1 \in Around
    BY <1>0 DEF Around
  <2>4. ~(i \in 0..(C - 1))
    BY <1>0, <1>3
  <2> QED
    BY <2>1, <2>2, <2>3, <2>4 DEF C
<1>4. i \in 0..(C - 1) \/ i = -1 \/ i = C
  BY <1>0, <1>00
<1> QED
  BY <1>1, <1>2, <1>3, <1>4

(* get_tile finds the tile the map has there.                              *)
LEMMA LookupWorks ==
  ASSUME KeysApart, ChunksOK(loaded_chunks), NEW c \in DOMAIN FloorAt,
         NEW i \in -1..CHUNK_SIZE_TLS, NEW j \in -1..CHUNK_SIZE_TLS
  PROVE  GetTile(loaded_chunks, (c[1] * CHUNK_SIZE_TLS + i) % UINT,
                 (c[2] * CHUNK_SIZE_TLS + j) % UINT)
           = ChunkMap!TileAt(c[1] * CHUNK_SIZE_TLS + i, c[2] * CHUNK_SIZE_TLS + j)
<1>1. c[1] \in Extent /\ c[2] \in Extent
  BY FloorFacts
<1>2. PICK x \in Int, y \in Int : x = c[1] * CHUNK_SIZE_TLS + i /\ y = c[2] * CHUNK_SIZE_TLS + j
  <2>0. USHORT \in Nat /\ c[1] \in 0..(USHORT - 1) /\ c[2] \in 0..(USHORT - 1)
    BY <1>1, TilemapAssumption, ExtentFacts
  <2>1. CHUNK_SIZE_TLS \in Int /\ c[1] \in Int /\ c[2] \in Int
    <3>1. UCHAR \in Nat /\ CHUNK_SIZE_TLS \in 1..UCHAR
      BY TilemapAssumption
    <3> QED
      BY <2>0, <3>1
  <2>2. c[1] * CHUNK_SIZE_TLS + i \in Int /\ c[2] * CHUNK_SIZE_TLS + j \in Int
    BY <2>1
  <2> QED
    BY <2>2, Zenon
<1> DEFINE C == CHUNK_SIZE_TLS
           key == GetChunkKey(ChunkOf(x), ChunkOf(y))
           d1 == x \div C
           d2 == y \div C
           d == <<d1, d2>>
<1>3. GetTile(loaded_chunks, x % UINT, y % UINT)
        = IF key \in DOMAIN loaded_chunks
          THEN loaded_chunks[key].tiles[PlaceIn(x) + PlaceIn(y) * C] ELSE AIR
  BY DEF GetTile, ChunkOf, PlaceIn
<1>4. /\ ChunkOf(x) = d1 % USHORT /\ ChunkOf(y) = d2 % USHORT
      /\ PlaceIn(x) = x % C /\ PlaceIn(y) = y % C
  BY Truncations
<1>5. d1 \in Around /\ d2 \in Around
  BY <1>1, <1>2, Neighbourhood
<1>6. key \in DOMAIN loaded_chunks
        => d \in DOMAIN FloorAt /\ FloorAt[d] = loaded_chunks[key].tiles
  <2> SUFFICES ASSUME key \in DOMAIN loaded_chunks
               PROVE  d \in DOMAIN FloorAt /\ FloorAt[d] = loaded_chunks[key].tiles
    OBVIOUS
  <2>1. /\ loaded_chunks[key].x \in Extent /\ loaded_chunks[key].y \in Extent
        /\ key = GetChunkKey(loaded_chunks[key].x, loaded_chunks[key].y)
    BY DEF ChunksOK, Chunks
  <2>2. key = GetChunkKey(d1 % USHORT, d2 % USHORT)
    BY <1>4
  <2> HIDE DEF key, d1, d2
  <2>3. loaded_chunks[key].x = d1 /\ loaded_chunks[key].y = d2
    BY <1>5, <2>1, <2>2 DEF KeysApart
  <2> QED
    BY <2>3, FloorFacts
<1>7. d \in DOMAIN FloorAt => key \in DOMAIN loaded_chunks
  <2> SUFFICES ASSUME d \in DOMAIN FloorAt
               PROVE  key \in DOMAIN loaded_chunks
    OBVIOUS
  <2>1. d[1] = d1 /\ d[2] = d2
    OBVIOUS
  <2>2. d1 \in Extent /\ d2 \in Extent /\ GetChunkKey(d1, d2) \in DOMAIN loaded_chunks
    BY <2>1, FloorFacts
  <2>3. d1 % USHORT = d1 /\ d2 % USHORT = d2
    BY <2>2, ExtentFacts
  <2> QED
    BY <1>4, <2>2, <2>3
<1>8. ChunkMap!TileAt(x, y)
        = IF d \in DOMAIN FloorAt THEN FloorAt[d][(x % C) + (y % C) * C] ELSE AIR
  BY DEF ChunkMap!TileAt
<1>9. GetTile(loaded_chunks, x % UINT, y % UINT) = ChunkMap!TileAt(x, y)
  <2> HIDE DEF key, d, C
  <2> QED
    BY <1>3, <1>4, <1>6, <1>7, <1>8
<1> QED
  BY <1>2, <1>9

-----------------------------------------------------------------------------
(* What a chunk adds to a frame, and what the frame has in the end, do not *)
(* depend on the order of the hash map.                                    *)
RectsOf(chunks, chunk) == DrawChunk([rects |-> {}, n |-> 0], chunks, chunk).rects
WholeFrame(chunks) == UNION {RectsOf(chunks, chunks[key]) : key \in DOMAIN chunks}

(* A chunk adds the same rectangles whatever was drawn before it, as it    *)
(* sets the seed first.                                                    *)
LEMMA DrawChunkAdds ==
  ASSUME NEW chunks, NEW chunk, NEW so_far, DOMAIN so_far = {"rects", "n"}
  PROVE  /\ DOMAIN DrawChunk(so_far, chunks, chunk) = {"rects", "n"}
         /\ DrawChunk(so_far, chunks, chunk).rects = so_far.rects \union RectsOf(chunks, chunk)
<1> DEFINE first == [rects |-> {}, n |-> 0]
<1>1. /\ [so_far EXCEPT !.n = 0].n = 0 /\ [so_far EXCEPT !.n = 0].rects = so_far.rects
      /\ [first EXCEPT !.n = 0].n = 0 /\ [first EXCEPT !.n = 0].rects = {}
  OBVIOUS
<1> DEFINE Some(old) == DrawColumns(old, chunks, chunk, 0..(CHUNK_SIZE_TLS - 1), Seed(chunk))
<1>2. ASSUME NEW old, old.n = 0
      PROVE  /\ DOMAIN Some(old) = {"rects", "n"}
             /\ Some(old).rects = old.rects \union Some([rects |-> {}, n |-> 0]).rects
  BY <1>2 DEF DrawColumns
<1>3. /\ DrawChunk(so_far, chunks, chunk) = Some([so_far EXCEPT !.n = 0])
      /\ RectsOf(chunks, chunk) = Some([first EXCEPT !.n = 0]).rects
  BY DEF DrawChunk, RectsOf
<1>4. [first EXCEPT !.n = 0] = [rects |-> {}, n |-> 0]
  OBVIOUS
<1> HIDE DEF Some
<1> QED
  BY <1>1, <1>2, <1>3, <1>4

(* What a frame has drawn after each chunk exists: the recursion defines   *)
(* it from the first chunk on.                                             *)
LEMMA FrameChain ==
  ASSUME NEW chunks, Cardinality(DOMAIN chunks) \in Nat, NEW order
  PROVE  \E f : /\ f[0] = [rects |-> {}, n |-> 0]
                /\ \A k \in 1..Cardinality(DOMAIN chunks) :
                     f[k] = DrawChunk(f[k - 1], chunks, chunks[order[k]])
                /\ FrameOf(chunks, order) = f[Cardinality(DOMAIN chunks)].rects
<1> DEFINE count == Cardinality(DOMAIN chunks)
           Next(f, i) == IF i = 0 THEN [rects |-> {}, n |-> 0]
                         ELSE DrawChunk(f[i - 1], chunks, chunks[order[i]])
           Defines(f, n) == f = [i \in 0..n |-> Next(f, i)]
           Bad == {n \in 0..count : ~\E f : Defines(f, n)}
<1>0. count \in Nat
  OBVIOUS
<1>9. FrameOf(chunks, order) = (CHOOSE g : Defines(g, count))[count].rects
  BY DEF FrameOf
<1> HIDE DEF count
<1>1. Bad = {}
  <2> SUFFICES ASSUME Bad # {}
               PROVE  FALSE
    OBVIOUS
  <2>0. Bad \in SUBSET Nat
    BY <1>0
  <2>1. PICK n \in Bad : \A k \in Bad : n <= k
    <3> HIDE DEF Bad
    <3> QED
      BY <2>0, Least
  <2>2. n # 0
    <3>1. Defines([i \in 0..0 |-> [rects |-> {}, n |-> 0]], 0)
      OBVIOUS
    <3> QED
      BY <3>1
  <2>3. n \in 0..count /\ n - 1 \in 0..count /\ n - 1 \notin Bad
    <3>1. n \in 0..count
      BY <2>1
    <3>2. n - 1 \in 0..count /\ ~(n <= n - 1)
      BY <1>0, <2>2, <3>1
    <3> HIDE DEF Bad
    <3> QED
      BY <2>1, <3>1, <3>2
  <2>4. PICK g : Defines(g, n - 1)
    BY <2>3
  <2> DEFINE f == [i \in 0..n |-> Next(g, i)]
  <2>5. \A i \in 0..(n - 1) : f[i] = g[i]
    <3>1. \A i \in 0..(n - 1) : g[i] = Next(g, i)
      <4> HIDE DEF Next
      <4> QED
        BY <2>4
    <3>2. \A i \in 0..(n - 1) : i \in 0..n
      BY <1>0, <2>3
    <3>3. \A i \in 0..n : f[i] = Next(g, i)
      <4> HIDE DEF Next
      <4> QED
        OBVIOUS
    <3> HIDE DEF f, Next
    <3> QED
      BY <3>1, <3>2, <3>3
  <2>6. ASSUME NEW i \in 0..n
        PROVE  Next(f, i) = Next(g, i)
    <3> HIDE DEF f
    <3>1. i = 0 \/ i - 1 \in 0..(n - 1)
      BY <1>0, <2>3
    <3>2. i = 0 \/ f[i - 1] = g[i - 1]
      BY <2>5, <3>1
    <3> QED
      BY <3>2
  <2>7. Defines(f, n)
    BY <2>6
  <2> QED
    BY <2>1, <2>7
<1> DEFINE f == CHOOSE g : Defines(g, count)
<1>2. Defines(f, count)
  <2>1. \E g : Defines(g, count)
    <3>1. count \in 0..count
      BY <1>0
    <3> QED
      BY <1>1, <3>1
  <2> HIDE DEF Defines
  <2> QED
    BY <2>1
<1> HIDE DEF f
<1>3. /\ f[0] = [rects |-> {}, n |-> 0]
      /\ \A k \in 1..count : f[k] = DrawChunk(f[k - 1], chunks, chunks[order[k]])
  <2>1. \A i \in 0..count : f[i] = Next(f, i)
    <3> HIDE DEF Next
    <3> QED
      BY <1>2
  <2>2. 0 \in 0..count /\ \A k \in 1..count : k \in 0..count /\ k # 0
    BY <1>0
  <2>3. f[0] = Next(f, 0)
    <3> HIDE DEF Next
    <3> QED
      BY <2>1, <2>2
  <2>4. ASSUME NEW k \in 1..count
        PROVE  f[k] = DrawChunk(f[k - 1], chunks, chunks[order[k]])
    <3>1. f[k] = Next(f, k) /\ k # 0
      <4> HIDE DEF Next
      <4> QED
        BY <2>1, <2>2
    <3> QED
      BY <3>1
  <2> QED
    BY <2>3, <2>4
<1>4. FrameOf(chunks, order) = f[count].rects
  BY <1>9 DEF f
<1> QED
  BY <1>3, <1>4 DEF count

(* A frame draws what the chunks add, in whatever order.                   *)
LEMMA FrameWhole ==
  ASSUME NEW chunks, IsFiniteSet(DOMAIN chunks),
         NEW order \in Bijection(1..Cardinality(DOMAIN chunks), DOMAIN chunks)
  PROVE  FrameOf(chunks, order) = WholeFrame(chunks)
<1> DEFINE count == Cardinality(DOMAIN chunks)
           So(k) == UNION {RectsOf(chunks, chunks[order[j]]) : j \in 1..k}
<1>0. count \in Nat
  BY FS_CardinalityType
<1>1. PICK f : /\ f[0] = [rects |-> {}, n |-> 0]
               /\ \A k \in 1..count : f[k] = DrawChunk(f[k - 1], chunks, chunks[order[k]])
               /\ FrameOf(chunks, order) = f[count].rects
  BY <1>0, FrameChain
<1>2. {order[j] : j \in 1..count} = DOMAIN chunks
  BY DEF Bijection, Surjection
<1> DEFINE Right(k) == DOMAIN f[k] = {"rects", "n"} /\ f[k].rects = So(k)
           Wrong == {k \in 0..count : ~Right(k)}
<1> HIDE DEF count
<1>3. Wrong = {}
  <2> SUFFICES ASSUME Wrong # {}
               PROVE  FALSE
    OBVIOUS
  <2>0. Wrong \in SUBSET Nat
    BY <1>0
  <2>1. PICK k \in Wrong : \A l \in Wrong : k <= l
    <3> HIDE DEF Wrong
    <3> QED
      BY <2>0, Least
  <2>2. k # 0
    <3>1. Right(0)
      <4>1. So(0) = {}
        OBVIOUS
      <4> HIDE DEF So
      <4> QED
        BY <1>1, <4>1
    <3> QED
      BY <2>1, <3>1
  <2>3. k - 1 \in 0..count /\ k \in 1..count
    BY <1>0, <2>1, <2>2
  <2>4. Right(k - 1)
    <3>1. ~(k <= k - 1)
      BY <2>3
    <3>2. k - 1 \notin Wrong
      BY <2>1, <3>1
    <3> HIDE DEF Right
    <3> QED
      BY <2>3, <3>2
  <2>5. f[k] = DrawChunk(f[k - 1], chunks, chunks[order[k]])
    BY <1>1, <2>3
  <2>6. /\ DOMAIN f[k] = {"rects", "n"}
        /\ f[k].rects = f[k - 1].rects \union RectsOf(chunks, chunks[order[k]])
    <3>1. PICK before : before = f[k - 1]
      OBVIOUS
    <3>2. DOMAIN before = {"rects", "n"}
      BY <2>4, <3>1
    <3> DEFINE chunk == chunks[order[k]]
               after == DrawChunk(before, chunks, chunk)
    <3>3. f[k] = after
      BY <2>5, <3>1
    <3> HIDE DEF chunk
    <3>4. DOMAIN after = {"rects", "n"} /\ after.rects = before.rects \union RectsOf(chunks, chunk)
      BY <3>2, DrawChunkAdds
    <3> HIDE DEF after
    <3> QED
      BY <3>1, <3>3, <3>4, Zenon DEF chunk
  <2>7. So(k) = So(k - 1) \union RectsOf(chunks, chunks[order[k]])
    <3>1. 1..k = (1..(k - 1)) \union {k}
      BY <1>0, <2>3
    <3> QED
      BY <3>1
  <2>8. Right(k)
    BY <2>4, <2>6, <2>7
  <2> QED
    BY <2>1, <2>8
<1>4. Right(count)
  <2> HIDE DEF Right
  <2> QED
    BY <1>0, <1>3
<1>5. So(count) = WholeFrame(chunks)
  BY <1>2 DEF WholeFrame
<1> QED
  BY <1>1, <1>4, <1>5

-----------------------------------------------------------------------------
(* The lookup table keeps to the chunks, and what was drawn is the frame   *)
(* those chunks make.                                                      *)
TilemapInv ==
  /\ running \in BOOLEAN
  /\ ChunksOK(loaded_chunks)
  /\ picture # {} => picture = WholeFrame(loaded_chunks)

(* set_chunk keeps the chunks under their own keys.                        *)
LEMMA SetChunkKeeps ==
  ASSUME NEW chunks, ChunksOK(chunks), NEW x \in Coords, NEW y \in Coords, NEW tiles \in Floors
  PROVE  ChunksOK(SetChunk(chunks, x, y, tiles))
<1> DEFINE key == GetChunkKey(x, y)
           after == SetChunk(chunks, x, y, tiles)
           added == [x |-> x, y |-> y, tiles |-> tiles]
<1>1. USHORT \in Nat /\ Coords \subseteq 0..(USHORT - 1)
      /\ Floors \subseteq [TileIndexes -> TileIDs]
  BY TilemapAssumption
<1>2. x \in Extent /\ y \in Extent /\ tiles \in [TileIndexes -> TileIDs]
  BY <1>1 DEF Extent
<1>3. added \in Chunks /\ added.x = x /\ added.y = y
  BY <1>2 DEF Chunks
<1>4. /\ DOMAIN after = DOMAIN chunks \union {key}
      /\ \A k \in DOMAIN after : after[k] = IF k = key THEN added ELSE chunks[k]
      /\ after = [k \in DOMAIN after |-> after[k]]
  BY DEF SetChunk
<1>5. IsFiniteSet(DOMAIN after)
  BY <1>4, FS_AddElement DEF ChunksOK
<1> HIDE DEF after, added
<1>6. ASSUME NEW k \in DOMAIN after
      PROVE  after[k] \in Chunks /\ k = GetChunkKey(after[k].x, after[k].y)
  <2>1. CASE k = key
    BY <1>3, <1>4, <2>1
  <2>2. CASE k # key
    <3>1. k \in DOMAIN chunks /\ after[k] = chunks[k]
      BY <1>4, <2>2
    <3> QED
      BY <3>1 DEF ChunksOK
  <2> QED
    BY <2>1, <2>2
<1>7. after \in [DOMAIN after -> Chunks]
  BY <1>4, <1>6
<1>8. ChunksOK(after)
  BY <1>5, <1>6, <1>7 DEF ChunksOK
<1> QED
  BY <1>8 DEF after

(* The keys of the chunks of an area.                                      *)
KeysOf(area) == {GetChunkKey(c[1], c[2]) : c \in area}

(* The area generate_chunks works on; no two of its chunks share a key.    *)
LEMMA AreaFacts ==
  ASSUME KeysApart, NEW sx \in Coords, NEW sy \in Coords, NEW ex \in Coords, NEW ey \in Coords,
         NEW area, area = (sx..ex) \X (sy..ey)
  PROVE  /\ IsFiniteSet(area)
         /\ \A c \in area : c = <<c[1], c[2]>> /\ c[1] \in Extent /\ c[2] \in Extent
         /\ \A c \in area : LastWith(GetChunkKey(c[1], c[2]), area) = c
<1>1. USHORT \in Nat /\ Coords \subseteq 0..(USHORT - 1)
  BY TilemapAssumption
<1>2. sx \in Int /\ sy \in Int /\ ex \in Int /\ ey \in Int
  BY <1>1
<1>3. IsFiniteSet(area)
  <2>1. IsFiniteSet(sx..ex) /\ IsFiniteSet(sy..ey)
    BY <1>2, FS_Interval
  <2> QED
    BY <2>1, FS_Product
<1>5. ASSUME NEW c \in area
      PROVE  c = <<c[1], c[2]>> /\ c[1] \in Extent /\ c[2] \in Extent
  <2>1. c = <<c[1], c[2]>> /\ c[1] \in sx..ex /\ c[2] \in sy..ey
    OBVIOUS
  <2> QED
    BY <1>1, <1>2, <2>1 DEF Extent
<1>6. ASSUME NEW c \in area
      PROVE  LastWith(GetChunkKey(c[1], c[2]), area) = c
  <2> DEFINE key == GetChunkKey(c[1], c[2])
             Last(e) == /\ GetChunkKey(e[1], e[2]) = key
                        /\ \A d \in area : GetChunkKey(d[1], d[2]) = key =>
                             d[1] < e[1] \/ (d[1] = e[1] /\ d[2] <= e[2])
  <2>1. ASSUME NEW d \in area, GetChunkKey(d[1], d[2]) = key
        PROVE  d = c
    <3>1. d[1] = c[1] /\ d[2] = c[2]
      BY <1>5, <2>1, KeysOfExtent
    <3> QED
      BY <1>5, <3>1
  <2>2. Last(c)
    <3>1. c[2] <= c[2]
      <4>1. c[2] \in Int
        BY <1>1, <1>5, ExtentFacts
      <4> QED
        BY <4>1
    <3> QED
      BY <2>1, <3>1
  <2>3. LastWith(key, area) = CHOOSE e \in area : Last(e)
    BY DEF LastWith
  <2>4. /\ LastWith(key, area) \in area
        /\ GetChunkKey(LastWith(key, area)[1], LastWith(key, area)[2]) = key
    <3>1. \E e \in area : Last(e)
      BY <2>2
    <3>2. (CHOOSE e \in area : Last(e)) \in area /\ Last(CHOOSE e \in area : Last(e))
      <4> HIDE DEF Last
      <4> QED
        BY <3>1
    <3> DEFINE e == CHOOSE e \in area : Last(e)
    <3> HIDE DEF key
    <3>3. e \in area /\ GetChunkKey(e[1], e[2]) = key
      BY <3>2
    <3> HIDE DEF Last
    <3> QED
      BY <2>3, <3>3, Zenon
  <2> QED
    BY <2>1, <2>4
<1> QED
  BY <1>3, <1>5, <1>6

(* Some chunks are set to a floor, the others stay.                         *)
Grown(chunks, after, area, floor) ==
  /\ DOMAIN after = DOMAIN chunks \union KeysOf(area)
  /\ \A c \in area : after[GetChunkKey(c[1], c[2])].tiles = floor
  /\ \A k \in DOMAIN chunks \ KeysOf(area) : after[k] = chunks[k]

(* generate_chunks sets the chunks of its area to grass, and no other.     *)
LEMMA GenerateGrows ==
  ASSUME KeysApart, NEW sx \in Coords, NEW sy \in Coords, NEW ex \in Coords, NEW ey \in Coords,
         NEW area, area = (sx..ex) \X (sy..ey), NEW chunks, ChunksOK(chunks)
  PROVE  ChunksOK(Generated(chunks, area)) /\ Grown(chunks, Generated(chunks, area), area, AllGrass)
<1> DEFINE keys == {GetChunkKey(c[1], c[2]) : c \in area}
           Chunk(c) == [x |-> c[1], y |-> c[2], tiles |-> AllGrass]
           after == Generated(chunks, area)
<1>1. /\ IsFiniteSet(keys)
      /\ \A c \in area : c = <<c[1], c[2]>> /\ c[1] \in Extent /\ c[2] \in Extent
      /\ \A c \in area : LastWith(GetChunkKey(c[1], c[2]), area) = c
  <2>1. IsFiniteSet(keys)
    <3> DEFINE h == [c \in area |-> GetChunkKey(c[1], c[2])]
    <3>1. h \in Surjection(area, keys)
      BY DEF Surjection
    <3>2. IsFiniteSet(area)
      BY AreaFacts
    <3> HIDE DEF h, keys
    <3> QED
      BY <3>1, <3>2, FS_Surjection
  <2> HIDE DEF after
  <2>2. \A c \in area : c = <<c[1], c[2]>> /\ c[1] \in Extent /\ c[2] \in Extent
    BY AreaFacts
  <2>3. \A c \in area : LastWith(GetChunkKey(c[1], c[2]), area) = c
    BY AreaFacts
  <2> QED
    BY <2>1, <2>2, <2>3
<1>2. after = [k \in DOMAIN chunks \union keys |->
                    IF k \in keys THEN Chunk(LastWith(k, area)) ELSE chunks[k]]
  BY DEF Generated
<1>3. ASSUME NEW c \in area
      PROVE  /\ Chunk(c) \in Chunks /\ Chunk(c).x = c[1] /\ Chunk(c).y = c[2]
             /\ GetChunkKey(c[1], c[2]) \in keys
             /\ after[GetChunkKey(c[1], c[2])] = Chunk(c)
  <2>1. AllGrass \in [TileIndexes -> TileIDs]
    BY DEF AllGrass, TileIDs, GRASS
  <2>2. GetChunkKey(c[1], c[2]) \in keys
    OBVIOUS
  <2> HIDE DEF keys
  <2>3. after[GetChunkKey(c[1], c[2])] = Chunk(LastWith(GetChunkKey(c[1], c[2]), area))
    BY <1>2, <2>2
  <2> QED
    BY <1>1, <2>1, <2>2, <2>3 DEF Chunks
<1>4. DOMAIN after = DOMAIN chunks \union keys
  BY <1>2
<1>5. ASSUME NEW k \in DOMAIN chunks, k \notin keys
      PROVE  after[k] = chunks[k]
  <2> HIDE DEF keys
  <2> QED
    BY <1>2, <1>5
<1> HIDE DEF after, Chunk
<1>6. ASSUME NEW k \in DOMAIN after
      PROVE  after[k] \in Chunks /\ k = GetChunkKey(after[k].x, after[k].y)
  <2>1. CASE k \in keys
    <3>1. PICK c \in area : k = GetChunkKey(c[1], c[2])
      BY <2>1
    <3> QED
      BY <1>3, <3>1
  <2>2. CASE k \notin keys
    <3>1. k \in DOMAIN chunks /\ after[k] = chunks[k]
      BY <1>4, <1>5, <2>2
    <3> QED
      BY <3>1 DEF ChunksOK
  <2> QED
    BY <2>1, <2>2
<1>7. after \in [DOMAIN after -> Chunks]
  <2>1. after = [k \in DOMAIN after |-> after[k]]
    BY <1>2
  <2> QED
    BY <1>6, <2>1
<1>8. IsFiniteSet(DOMAIN after)
  <2>1. IsFiniteSet(DOMAIN chunks)
    BY DEF ChunksOK
  <2> HIDE DEF keys
  <2>2. IsFiniteSet(DOMAIN chunks \union keys)
    BY <1>1, <2>1, FS_Union
  <2> QED
    BY <1>4, <2>2
<1>9. ChunksOK(after)
  BY <1>6, <1>7, <1>8 DEF ChunksOK
<1> QED
  <2>1. ASSUME NEW c \in area
        PROVE  after[GetChunkKey(c[1], c[2])].tiles = AllGrass
    <3>1. after[GetChunkKey(c[1], c[2])] = Chunk(c)
      BY <1>3
    <3>2. Chunk(c).tiles = AllGrass
      BY DEF Chunk
    <3> QED
      BY <3>1, <3>2, Zenon
  <2>2. \A k \in DOMAIN chunks \ keys : after[k] = chunks[k]
    <3> HIDE DEF keys
    <3> QED
      BY <1>5
  <2>3. keys = KeysOf(area)
    BY DEF KeysOf
  <2> HIDE DEF keys
  <2>4. Grown(chunks, after, area, AllGrass)
    BY <1>4, <2>1, <2>2, <2>3 DEF Grown
  <2> QED
    BY <1>9, <2>4 DEF after

(* At the start there are no chunks and no picture.                        *)
LEMMA TilemapInvInit == TilemapInit => TilemapInv
<1> SUFFICES ASSUME TilemapInit PROVE TilemapInv
  OBVIOUS
<1>1. DOMAIN loaded_chunks = {} /\ loaded_chunks \in [DOMAIN loaded_chunks -> Chunks]
  BY DEF TilemapInit
<1>2. ChunksOK(loaded_chunks)
  BY <1>1, FS_EmptySet DEF ChunksOK
<1> QED
  BY <1>2 DEF TilemapInit, TilemapInv

(* generate_chunks stops the program unless the area is among the chunks   *)
(* callers name.                                                           *)
LEMMA AreaGiven ==
  ASSUME NEW sx \in Coords \union {CHUNK_SIZE_TLS}, NEW sy \in Coords \union {CHUNK_SIZE_TLS},
         NEW ex \in Coords \union {CHUNK_SIZE_TLS}, NEW ey \in Coords \union {CHUNK_SIZE_TLS},
         GenerateChunks(sx, sy, ex, ey)
  PROVE  /\ running' \in BOOLEAN
         /\ running' => /\ sx \in Coords /\ sy \in Coords /\ ex \in Coords /\ ey \in Coords
                        /\ loaded_chunks' = Generated(loaded_chunks, (sx..ex) \X (sy..ey))
                        /\ picture' = {}
         /\ ~running' => UNCHANGED <<loaded_chunks, picture>>
<1>1. CHUNK_SIZE_TLS \in Int
  BY TilemapAssumption
<1>2. ~(CHUNK_SIZE_TLS < CHUNK_SIZE_TLS)
  BY <1>1
<1>3. running' = (\A c \in {sx, sy, ex, ey} : c < CHUNK_SIZE_TLS)
  BY DEF GenerateChunks
<1>4. running' => sx \in Coords /\ sy \in Coords /\ ex \in Coords /\ ey \in Coords
  BY <1>2, <1>3
<1> QED
  BY <1>3, <1>4 DEF GenerateChunks

(* No step breaks the invariant, and no frame differs from the one before  *)
(* while the chunks are the same.                                          *)
LEMMA TilemapInvStep ==
  ASSUME KeysApart, TilemapInv, [TilemapNext]_tilemapVars
  PROVE  /\ TilemapInv'
         /\ picture # {} /\ picture' # {} => picture' = picture
<1> USE DEF TilemapInv
<1>1. CASE \E x, y \in Coords : SetChunkAt(x, y)
  <2>1. PICK x \in Coords, y \in Coords, tiles \in Floors :
          /\ loaded_chunks' = SetChunk(loaded_chunks, x, y, tiles)
          /\ picture' = {} /\ running' = running
    BY <1>1 DEF SetChunkAt
  <2>2. ChunksOK(SetChunk(loaded_chunks, x, y, tiles))
    BY SetChunkKeeps
  <2>3. ChunksOK(loaded_chunks')
    BY <2>1, <2>2
  <2> QED
    BY <2>1, <2>3
<1>2. CASE \E sx, sy, ex, ey \in Coords \union {CHUNK_SIZE_TLS} : GenerateChunks(sx, sy, ex, ey)
  <2>1. PICK sx \in Coords \union {CHUNK_SIZE_TLS}, sy \in Coords \union {CHUNK_SIZE_TLS},
             ex \in Coords \union {CHUNK_SIZE_TLS}, ey \in Coords \union {CHUNK_SIZE_TLS} :
          GenerateChunks(sx, sy, ex, ey)
    BY <1>2
  <2>2. CASE running'
    <3>1. PICK area : area = (sx..ex) \X (sy..ey)
      OBVIOUS
    <3>2. /\ sx \in Coords /\ sy \in Coords /\ ex \in Coords /\ ey \in Coords
          /\ loaded_chunks' = Generated(loaded_chunks, area)
          /\ picture' = {} /\ running' \in BOOLEAN
      <4>1. /\ sx \in Coords /\ sy \in Coords /\ ex \in Coords /\ ey \in Coords
            /\ loaded_chunks' = Generated(loaded_chunks, (sx..ex) \X (sy..ey))
            /\ picture' = {} /\ running' \in BOOLEAN
        <5>1. running' => /\ sx \in Coords /\ sy \in Coords /\ ex \in Coords /\ ey \in Coords
                          /\ loaded_chunks' = Generated(loaded_chunks, (sx..ex) \X (sy..ey))
                          /\ picture' = {}
          BY <2>1, AreaGiven
        <5>2. running' \in BOOLEAN
          BY <2>1, AreaGiven
        <5> QED
          BY <2>2, <5>1, <5>2, Zenon
      <4> QED
        BY <3>1, <4>1, Zenon
    <3>3. ChunksOK(Generated(loaded_chunks, area))
      BY <3>1, <3>2, GenerateGrows
    <3>4. ChunksOK(loaded_chunks')
      BY <3>2, <3>3
    <3> QED
      BY <3>2, <3>4
  <2>3. CASE ~running'
    <3>1. UNCHANGED <<loaded_chunks, picture>> /\ running' \in BOOLEAN
      BY <2>1, <2>3, AreaGiven
    <3> QED
      BY <3>1
  <2> QED
    BY <2>2, <2>3
<1>3. CASE DrawChunks
  <2>1. PICK order \in Bijection(1..Cardinality(DOMAIN loaded_chunks), DOMAIN loaded_chunks) :
          picture' = FrameOf(loaded_chunks, order)
    BY <1>3 DEF DrawChunks
  <2>2. picture' = WholeFrame(loaded_chunks) /\ UNCHANGED <<loaded_chunks, running>>
    BY <1>3, <2>1, FrameWhole DEF DrawChunks, ChunksOK
  <2> QED
    BY <2>2
<1>4. CASE UNCHANGED tilemapVars
  BY <1>4 DEF tilemapVars
<1> QED
  BY <1>1, <1>2, <1>3, <1>4 DEF TilemapNext

(* As no two chunks share a key, the map has the floors by their keys.     *)
LEMMA FloorsByKey ==
  ASSUME KeysApart, NEW chunks, ChunksOK(chunks)
  PROVE  /\ \A c : c \in DOMAIN FloorsOf(chunks) <=>
                     c \in Extent \X Extent /\ GetChunkKey(c[1], c[2]) \in DOMAIN chunks
         /\ \A c \in DOMAIN FloorsOf(chunks) :
              FloorsOf(chunks)[c] = chunks[GetChunkKey(c[1], c[2])].tiles
         /\ FloorsOf(chunks) = [c \in DOMAIN FloorsOf(chunks) |-> FloorsOf(chunks)[c]]
<1>1. ASSUME NEW c \in DOMAIN FloorsOf(chunks)
      PROVE  /\ c \in Extent \X Extent /\ GetChunkKey(c[1], c[2]) \in DOMAIN chunks
             /\ FloorsOf(chunks)[c] = chunks[GetChunkKey(c[1], c[2])].tiles
  <2>1. /\ c = <<c[1], c[2]>> /\ c[1] \in Extent /\ c[2] \in Extent
        /\ GetChunkKey(c[1], c[2]) \in DOMAIN chunks
        /\ FloorsOf(chunks)[c] = chunks[GetChunkKey(c[1], c[2])].tiles
    BY FloorsFacts
  <2> QED
    BY <2>1
<1>2. ASSUME NEW c \in Extent \X Extent, GetChunkKey(c[1], c[2]) \in DOMAIN chunks
      PROVE  c \in DOMAIN FloorsOf(chunks)
  <2> DEFINE key == GetChunkKey(c[1], c[2])
  <2>1. /\ chunks[key].x \in Extent /\ chunks[key].y \in Extent
        /\ key = GetChunkKey(chunks[key].x, chunks[key].y)
    BY <1>2 DEF ChunksOK, Chunks
  <2>2. c[1] \in Extent /\ c[2] \in Extent /\ c = <<c[1], c[2]>>
    OBVIOUS
  <2>3. c[1] = chunks[key].x /\ c[2] = chunks[key].y
    BY <2>1, <2>2, KeysOfExtent
  <2>4. c = <<chunks[key].x, chunks[key].y>>
    BY <2>2, <2>3
  <2>5. DOMAIN FloorsOf(chunks) = {<<chunks[k].x, chunks[k].y>> : k \in DOMAIN chunks}
    BY FloorsFacts
  <2> HIDE DEF key
  <2> QED
    BY <1>2, <2>4, <2>5 DEF key
<1>3. FloorsOf(chunks) = [c \in DOMAIN FloorsOf(chunks) |-> FloorsOf(chunks)[c]]
  BY DEF FloorsOf
<1> QED
  BY <1>1, <1>2, <1>3

(* Setting some chunks to a floor is seen in the map as just that.         *)
Laid(floors, area, floor) ==
  [c \in DOMAIN floors \union area |-> IF c \in area THEN floor ELSE floors[c]]

(* Where some chunks were set to a floor, the map has that floor.          *)
LEMMA FloorsGrow ==
  ASSUME KeysApart, NEW chunks, ChunksOK(chunks), NEW after, ChunksOK(after),
         NEW area, area \subseteq Extent \X Extent, NEW floor, Grown(chunks, after, area, floor)
  PROVE  FloorsOf(after) = Laid(FloorsOf(chunks), area, floor)
<1> DEFINE keys == {GetChunkKey(c[1], c[2]) : c \in area}
           F == FloorsOf(chunks)
           G == FloorsOf(after)
           Key(c) == GetChunkKey(c[1], c[2])
<1>1. /\ \A c : c \in DOMAIN F <=> c \in Extent \X Extent /\ Key(c) \in DOMAIN chunks
      /\ \A c \in DOMAIN F : F[c] = chunks[Key(c)].tiles
  BY FloorsByKey
<1>2. /\ \A c : c \in DOMAIN G <=> c \in Extent \X Extent /\ Key(c) \in DOMAIN after
      /\ \A c \in DOMAIN G : G[c] = after[Key(c)].tiles
      /\ G = [c \in DOMAIN G |-> G[c]]
  BY FloorsByKey
<1>3. ASSUME NEW c \in Extent \X Extent
      PROVE  Key(c) \in keys <=> c \in area
  <2>1. c \in area => Key(c) \in keys
    OBVIOUS
  <2>2. ASSUME Key(c) \in keys
        PROVE  c \in area
    <3>1. PICK d \in area : Key(c) = Key(d)
      BY <2>2
    <3>2. /\ c[1] \in Extent /\ c[2] \in Extent /\ d[1] \in Extent /\ d[2] \in Extent
          /\ c = <<c[1], c[2]>> /\ d = <<d[1], d[2]>>
      OBVIOUS
    <3>3. c[1] = d[1] /\ c[2] = d[2]
      BY <3>1, <3>2, KeysOfExtent
    <3> QED
      BY <3>2, <3>3
  <2> QED
    BY <2>1, <2>2
<1>4. /\ DOMAIN after = DOMAIN chunks \union keys
      /\ \A c \in area : after[Key(c)].tiles = floor
      /\ \A k \in DOMAIN chunks : k \notin keys => after[k] = chunks[k]
  BY DEF KeysOf, Grown
<1> HIDE DEF keys, F, G, Key
<1>5. DOMAIN G = DOMAIN F \union area
  BY <1>1, <1>2, <1>3, <1>4
<1>6. ASSUME NEW c \in DOMAIN G
      PROVE  G[c] = IF c \in area THEN floor ELSE F[c]
  <2>1. CASE c \in area
    BY <1>2, <1>4, <2>1
  <2>2. CASE c \notin area
    <3>1. c \in DOMAIN F /\ c \in Extent \X Extent /\ Key(c) \in DOMAIN chunks /\ Key(c) \notin keys
      BY <1>1, <1>3, <1>5, <2>2
    <3>2. G[c] = after[Key(c)].tiles /\ F[c] = chunks[Key(c)].tiles
      BY <1>1, <1>2, <3>1
    <3> QED
      BY <1>4, <2>2, <3>1, <3>2
  <2> QED
    BY <2>1, <2>2
<1>7. G = [c \in DOMAIN F \union area |-> IF c \in area THEN floor ELSE F[c]]
  BY <1>2, <1>5, <1>6
<1> QED
  BY <1>7 DEF F, G, Laid

(* set_chunk, seen in the map.                                             *)
LEMMA SetMaps ==
  ASSUME KeysApart, NEW chunks, ChunksOK(chunks), NEW x \in Coords, NEW y \in Coords,
         NEW floor \in Floors
  PROVE  FloorsOf(SetChunk(chunks, x, y, floor)) = Laid(FloorsOf(chunks), {<<x, y>>}, floor)
<1>1. PICK after : after = SetChunk(chunks, x, y, floor)
  OBVIOUS
<1>2. PICK area : area = {<<x, y>>}
  OBVIOUS
<1>3. ChunksOK(after)
  BY <1>1, SetChunkKeeps
<1>4. area \subseteq Extent \X Extent
  <2>1. USHORT \in Nat /\ Coords \subseteq 0..(USHORT - 1)
    BY TilemapAssumption
  <2>2. x \in Extent /\ y \in Extent
    BY <2>1 DEF Extent
  <2> QED
    BY <1>2, <2>2
<1>5. KeysOf(area) = {GetChunkKey(x, y)}
  BY <1>2 DEF KeysOf
<1>6. /\ DOMAIN after = DOMAIN chunks \union {GetChunkKey(x, y)}
      /\ after[GetChunkKey(x, y)].tiles = floor
      /\ \A k \in DOMAIN chunks \ {GetChunkKey(x, y)} : after[k] = chunks[k]
  BY <1>1 DEF SetChunk
<1>7. Grown(chunks, after, area, floor)
  BY <1>2, <1>5, <1>6 DEF Grown
<1>8. FloorsOf(after) = Laid(FloorsOf(chunks), area, floor)
  BY <1>3, <1>4, <1>7, FloorsGrow
<1> QED
  BY <1>1, <1>2, <1>8

(* generate_chunks, seen in the map.                                       *)
LEMMA GenerateMaps ==
  ASSUME KeysApart, NEW chunks, ChunksOK(chunks),
         NEW sx \in Coords, NEW sy \in Coords, NEW ex \in Coords, NEW ey \in Coords,
         NEW area, area = (sx..ex) \X (sy..ey)
  PROVE  FloorsOf(Generated(chunks, area)) = Laid(FloorsOf(chunks), area, AllGrass)
<1>1. PICK after : after = Generated(chunks, area)
  OBVIOUS
<1>2. \A c \in area : c = <<c[1], c[2]>> /\ c[1] \in Extent /\ c[2] \in Extent
  BY AreaFacts
<1>3. area \subseteq Extent \X Extent
  BY <1>2
<1>4. ChunksOK(Generated(chunks, area)) /\ Grown(chunks, Generated(chunks, area), area, AllGrass)
  BY GenerateGrows
<1> QED
  BY <1>3, <1>4, FloorsGrow

(* generate_chunks lays grass on its area, or stops the program.           *)
LEMMA GenerateStep ==
  ASSUME KeysApart, TilemapInv,
         NEW sx \in Coords \union {CHUNK_SIZE_TLS}, NEW sy \in Coords \union {CHUNK_SIZE_TLS},
         NEW ex \in Coords \union {CHUNK_SIZE_TLS}, NEW ey \in Coords \union {CHUNK_SIZE_TLS},
         GenerateChunks(sx, sy, ex, ey)
  PROVE  ChunkMap!MapNext \/ FloorsOf(loaded_chunks') = FloorsOf(loaded_chunks)
<1> DEFINE F == FloorsOf(loaded_chunks)
           G == FloorsOf(loaded_chunks')
<1> HIDE DEF F, G
<1>0. FloorAt = F /\ FloorAt' = G
  BY DEF FloorAt, FloorsOf, F, G
<1>1. running' => /\ sx \in Coords /\ sy \in Coords /\ ex \in Coords /\ ey \in Coords
                  /\ loaded_chunks' = Generated(loaded_chunks, (sx..ex) \X (sy..ey))
                  /\ picture' = {}
  BY AreaGiven
<1>2. ~running' => UNCHANGED loaded_chunks
  BY AreaGiven
<1>3. PICK area : area = (sx..ex) \X (sy..ey)
  OBVIOUS
<1>4. CASE running'
  <2>1. /\ sx \in Coords /\ sy \in Coords /\ ex \in Coords /\ ey \in Coords
        /\ loaded_chunks' = Generated(loaded_chunks, area)
    BY <1>1, <1>3, <1>4, Zenon
  <2>2. FloorsOf(Generated(loaded_chunks, area)) = Laid(FloorsOf(loaded_chunks), area, AllGrass)
    BY <1>3, <2>1, GenerateMaps DEF TilemapInv
  <2>3. G = [c \in DOMAIN F \union area |-> IF c \in area THEN AllGrass ELSE F[c]]
    BY <2>1, <2>2 DEF Laid, F, G
  <2>4. CASE area = {}
    <3>1. F = [c \in DOMAIN F |-> F[c]]
      BY DEF FloorsOf, F
    <3>2. G = F
      BY <2>3, <2>4, <3>1
    <3> QED
      BY <3>2 DEF F, G
  <2>5. CASE area # {}
    <3>1. sx \in Int /\ ex \in Int /\ sy \in Int /\ ey \in Int
      BY <2>1, TilemapAssumption
    <3>2. PICK low, high : low = <<sx, sy>> /\ high = <<ex, ey>>
      OBVIOUS
    <3>3. low \in area /\ high \in area
      BY <1>3, <2>5, <3>1, <3>2
    <3>4. area = (low[1]..high[1]) \X (low[2]..high[2])
      BY <1>3, <3>2
    <3>5. low \in DOMAIN G /\ high \in DOMAIN G
      <4> HIDE DEF F, G
      <4> QED
        BY <2>3, <3>3
    <3> HIDE DEF F, G
    <3>6. ChunkMap!Generate(low, high)
      BY <1>0, <2>3, <3>4 DEF ChunkMap!Generate
    <3> QED
      BY <1>0, <3>5, <3>6 DEF ChunkMap!MapNext
  <2> QED
    BY <2>4, <2>5 DEF F, G
<1> QED
  BY <1>2, <1>4 DEF F, G

(* Each step of the tilemap is one of the map, or changes no floor.        *)
LEMMA ChunkMapStep ==
  ASSUME KeysApart, TilemapInv, [TilemapNext]_tilemapVars
  PROVE  [ChunkMap!MapNext]_FloorAt
<1> DEFINE F == FloorsOf(loaded_chunks)
           G == FloorsOf(loaded_chunks')
<1>1. FloorAt = F /\ FloorAt' = G
  BY DEF FloorAt, FloorsOf
<1>2. ChunksOK(loaded_chunks) /\ ChunksOK(loaded_chunks')
  BY TilemapInvStep DEF TilemapInv
<1>3. ASSUME NEW x \in Coords, NEW y \in Coords, SetChunkAt(x, y)
      PROVE  ChunkMap!MapNext
  <2>1. PICK floor \in Floors : loaded_chunks' = SetChunk(loaded_chunks, x, y, floor)
    BY <1>3 DEF SetChunkAt
  <2>2. FloorsOf(SetChunk(loaded_chunks, x, y, floor)) = Laid(F, {<<x, y>>}, floor)
    BY <1>2, SetMaps
  <2>3. G = [c \in DOMAIN F \union {<<x, y>>} |-> IF c = <<x, y>> THEN floor ELSE F[c]]
    BY <2>1, <2>2 DEF Laid
  <2> HIDE DEF F, G
  <2>4. <<x, y>> \in DOMAIN G
    BY <2>3
  <2> QED
    BY <1>1, <2>3, <2>4 DEF ChunkMap!MapNext, ChunkMap!SetChunk
<1>4. ASSUME \E sx, sy, ex, ey \in Coords \union {CHUNK_SIZE_TLS} : GenerateChunks(sx, sy, ex, ey)
      PROVE  ChunkMap!MapNext \/ G = F
  <2>0. PICK sx \in Coords \union {CHUNK_SIZE_TLS}, sy \in Coords \union {CHUNK_SIZE_TLS},
             ex \in Coords \union {CHUNK_SIZE_TLS}, ey \in Coords \union {CHUNK_SIZE_TLS} :
          GenerateChunks(sx, sy, ex, ey)
    BY <1>4
  <2>1. ChunkMap!MapNext \/ FloorsOf(loaded_chunks') = FloorsOf(loaded_chunks)
    <3> HIDE DEF F, G
    <3> QED
      BY <2>0, GenerateStep
  <2> QED
    BY <2>1
<1>5. ASSUME DrawChunks \/ UNCHANGED tilemapVars
      PROVE  G = F
  BY <1>5 DEF DrawChunks, tilemapVars
<1> HIDE DEF F, G
<1>6. ChunkMap!MapNext \/ FloorAt' = FloorAt
  BY <1>1, <1>3, <1>4, <1>5 DEF TilemapNext
<1> QED
  BY <1>6

(* What the invariant says of the tilemap; the lookup finds every tile.    *)
LEMMA TilemapShown ==
  ASSUME TilemapInv
  PROVE  TilemapTypeOK /\ (KeysApart => LookupRight)
<1>1. TilemapTypeOK
  BY DEF TilemapInv, TilemapTypeOK, ChunksOK, Chunks
<1>2. KeysApart => LookupRight
  BY LookupWorks DEF TilemapInv, LookupRight
<1> QED
  BY <1>1, <1>2

(* The invariant holds in every behaviour, if keys are apart.              *)
LEMMA TilemapAlways == KeysApart /\ TilemapSpec => []TilemapInv
<1> SUFFICES ASSUME KeysApart
             PROVE  TilemapSpec => []TilemapInv
  OBVIOUS
<1>1. TilemapInv /\ [TilemapNext]_tilemapVars => TilemapInv'
  BY TilemapInvStep
<1> QED
  BY <1>1, TilemapInvInit, PTL DEF TilemapSpec

(* A chunk is kept under the key of its own coordinates, with a whole      *)
(* floor of known tiles.                                                   *)
THEOREM TilemapTyped == KeysApart /\ TilemapSpec => []TilemapTypeOK
<1> SUFFICES ASSUME KeysApart
             PROVE  TilemapSpec => []TilemapTypeOK
  OBVIOUS
<1>1. TilemapInv => TilemapTypeOK
  BY TilemapShown
<1> QED
  BY <1>1, TilemapAlways, PTL

(* get_tile finds every tile of a loaded chunk, and around it, as the map  *)
(* has it, through its unsigned truncations and across the edges of the    *)
(* world.                                                                  *)
THEOREM ChunksFound == KeysApart /\ TilemapSpec => []LookupRight
<1> SUFFICES ASSUME KeysApart
             PROVE  TilemapSpec => []LookupRight
  OBVIOUS
<1>1. TilemapInv => LookupRight
  BY TilemapShown
<1> QED
  BY <1>1, TilemapAlways, PTL

(* Frames of the same chunks are the same picture, though the order of     *)
(* the hash map may be another in each: draw_chunk sets the seed from the  *)
(* chunk.                                                                  *)
THEOREM FramesAlike == KeysApart /\ TilemapSpec => NoFlicker
<1> SUFFICES ASSUME KeysApart
             PROVE  TilemapSpec => NoFlicker
  OBVIOUS
<1>1. TilemapInv /\ [TilemapNext]_tilemapVars
        => [picture # {} /\ picture' # {} => picture' = picture]_tilemapVars
  BY TilemapInvStep
<1> QED
  BY <1>1, TilemapAlways, PTL DEF TilemapSpec, NoFlicker

(* The hash map of chunks implements the map of floors by coordinates:     *)
(* every set_chunk and generate_chunks is one of the map, and drawing      *)
(* changes nothing.                                                        *)
THEOREM TilemapImplementsChunkMap == KeysApart /\ TilemapSpec => RefinesChunkMap
<1> SUFFICES ASSUME KeysApart
             PROVE  TilemapSpec => RefinesChunkMap
  OBVIOUS
<1>1. TilemapInit => ChunkMap!MapInit
  BY DEF TilemapInit, ChunkMap!MapInit, FloorAt
<1>2. TilemapInv /\ [TilemapNext]_tilemapVars => [ChunkMap!MapNext]_FloorAt
  BY ChunkMapStep
<1> QED
  BY <1>1, <1>2, TilemapAlways, PTL DEF TilemapSpec, RefinesChunkMap, ChunkMap!Map

-----------------------------------------------------------------------------
(* The k-th quadrant of a tile, where it lies in the tile, and on which    *)
(* sides of the tile.                                                      *)
QuadrantAt(chunks, chunk, lx, ly, k) ==
  LET x == chunk.x * CHUNK_SIZE_TLS + lx
      y == chunk.y * CHUNK_SIZE_TLS + ly
      id == GetTile(chunks, x, y)
      to == Connected(chunks, x, y, id)
      f == FloorSources(id)
      q == Quadrants(f)[k]
  IN  [turn |-> <<lx, ly, k>>, at |-> <<2 * x + q.dx, 2 * y + q.dy>>,
       palette |-> PaletteIndex(id),
       sources |-> Candidates(to[q.v], to[q.h], q.none, q.vOnly, q.hOnly, f.connected_all)]

Dx(k) == IF k \in {1, 3} THEN 0 ELSE 1
Dy(k) == IF k \in {1, 2} THEN 1 ELSE 0
Aside(k) == IF k \in {1, 3} THEN "left" ELSE "right"
Above(k) == IF k \in {1, 2} THEN "up" ELSE "down"

Columns == 0..(CHUNK_SIZE_TLS - 1)
AllQuadrants(chunks, chunk) ==
  {QuadrantAt(chunks, chunk, lx, ly, k) : lx \in Columns, ly \in Columns, k \in 1..4}

(* The random numbers that were drawn before a quadrant, and its rectangle.*)
Before(chunks, chunk, turn) ==
  {r \in AllQuadrants(chunks, chunk) : r.sources # <<>> /\ Earlier(r.turn, turn)}
RectAt(chunks, chunk, lx, ly, k) ==
  LET q == QuadrantAt(chunks, chunk, lx, ly, k)
  IN  [at |-> q.at, palette |-> q.palette,
       source |-> ConnectingFloorSource(q.sources, Seed(chunk),
                                        0 + Cardinality(Before(chunks, chunk, q.turn)))]

(* draw_chunk comes to every quadrant of every tile of a chunk.            *)
LEMMA QuadrantsAre ==
  ASSUME NEW chunks, NEW chunk
  PROVE  UNION {QuadrantsOf(chunks, chunk, lx, ly) :
                  lx \in 0..(CHUNK_SIZE_TLS - 1), ly \in 0..(CHUNK_SIZE_TLS - 1)}
           = AllQuadrants(chunks, chunk)
<1>1. ASSUME NEW lx, NEW ly
      PROVE  QuadrantsOf(chunks, chunk, lx, ly)
               = {QuadrantAt(chunks, chunk, lx, ly, k) : k \in 1..4}
  BY DEF QuadrantsOf, QuadrantAt
<1>2. ASSUME NEW q, NEW lx, NEW ly
      PROVE  q \in QuadrantsOf(chunks, chunk, lx, ly)
               <=> \E k \in 1..4 : q = QuadrantAt(chunks, chunk, lx, ly, k)
  BY <1>1
<1>3. ASSUME NEW q
      PROVE  q \in UNION {QuadrantsOf(chunks, chunk, lx, ly) :
                  lx \in 0..(CHUNK_SIZE_TLS - 1), ly \in 0..(CHUNK_SIZE_TLS - 1)}
               <=> \E lx, ly \in Columns : q \in QuadrantsOf(chunks, chunk, lx, ly)
  BY DEF Columns
<1>4. ASSUME NEW q
      PROVE  q \in AllQuadrants(chunks, chunk)
               <=> \E lx, ly \in Columns : \E k \in 1..4 : q = QuadrantAt(chunks, chunk, lx, ly, k)
  BY DEF AllQuadrants
<1> DEFINE all == UNION {QuadrantsOf(chunks, chunk, lx, ly) :
                           lx \in 0..(CHUNK_SIZE_TLS - 1), ly \in 0..(CHUNK_SIZE_TLS - 1)}
<1>5. ASSUME NEW q
      PROVE  q \in all <=> q \in AllQuadrants(chunks, chunk)
  <2> DEFINE is == q \in all
  <2>1. is <=> \E lx, ly \in Columns : q \in QuadrantsOf(chunks, chunk, lx, ly)
    BY <1>3
  <2> HIDE DEF is
  <2>2. is <=> q \in AllQuadrants(chunks, chunk)
    BY <1>2, <1>4, <2>1
  <2> QED
    BY <2>2 DEF is
<1> HIDE DEF all
<1>6. all = AllQuadrants(chunks, chunk)
  BY <1>5
<1> QED
  BY <1>6 DEF all

(* What a chunk adds to a frame: the rectangle of each quadrant.           *)
LEMMA RectsAre ==
  ASSUME NEW chunks, NEW chunk
  PROVE  RectsOf(chunks, chunk)
           = {RectAt(chunks, chunk, lx, ly, k) : lx \in Columns, ly \in Columns, k \in 1..4}
<1> DEFINE first == [rects |-> {}, n |-> 0]
           quadrants == AllQuadrants(chunks, chunk)
           random == {q \in quadrants : q.sources # <<>>}
           Rectangle(q) == [at |-> q.at, palette |-> q.palette,
                            source |-> ConnectingFloorSource(q.sources, Seed(chunk),
                               0 + Cardinality({r \in random : Earlier(r.turn, q.turn)}))]
<1>1. [first EXCEPT !.n = 0] = first /\ first.n = 0 /\ first.rects = {}
  OBVIOUS
<1>2. RectsOf(chunks, chunk)
        = DrawColumns(first, chunks, chunk, 0..(CHUNK_SIZE_TLS - 1), Seed(chunk)).rects
  BY <1>1 DEF RectsOf, DrawChunk
<1> DEFINE all == UNION {QuadrantsOf(chunks, chunk, lx, ly) :
                           lx \in 0..(CHUNK_SIZE_TLS - 1), ly \in 0..(CHUNK_SIZE_TLS - 1)}
<1> DEFINE Made(these, n) ==
             {[at |-> q.at, palette |-> q.palette,
               source |-> ConnectingFloorSource(q.sources, Seed(chunk),
                  n + Cardinality({r \in {s \in these : s.sources # <<>>} :
                                     Earlier(r.turn, q.turn)}))] : q \in these}
<1>4. DrawColumns(first, chunks, chunk, 0..(CHUNK_SIZE_TLS - 1), Seed(chunk)).rects
        = first.rects \union Made(all, first.n)
  BY DEF DrawColumns
<1>5. all = quadrants
  BY QuadrantsAre
<1>6. RectsOf(chunks, chunk) = {Rectangle(q) : q \in quadrants}
  <2>1. Made(quadrants, 0) = {Rectangle(q) : q \in quadrants}
    OBVIOUS
  <2> HIDE DEF all, Made, quadrants, first
  <2>2. RectsOf(chunks, chunk) = {} \union Made(quadrants, 0)
    BY <1>1, <1>2, <1>4, <1>5
  <2>3. RectsOf(chunks, chunk) = Made(quadrants, 0)
    BY <2>2
  <2> QED
    BY <2>1, <2>3, Zenon DEF quadrants
<1> HIDE DEF all
<1>7. ASSUME NEW lx, NEW ly, NEW k
      PROVE  Rectangle(QuadrantAt(chunks, chunk, lx, ly, k)) = RectAt(chunks, chunk, lx, ly, k)
  <2>1. PICK q : q = QuadrantAt(chunks, chunk, lx, ly, k)
    OBVIOUS
  <2>2. {r \in random : Earlier(r.turn, q.turn)} = Before(chunks, chunk, q.turn)
    BY DEF Before
  <2>3. RectAt(chunks, chunk, lx, ly, k)
          = [at |-> q.at, palette |-> q.palette,
             source |-> ConnectingFloorSource(q.sources, Seed(chunk),
                                              0 + Cardinality(Before(chunks, chunk, q.turn)))]
    BY <2>1 DEF RectAt
  <2>4. Rectangle(q) = RectAt(chunks, chunk, lx, ly, k)
    BY <2>2, <2>3
  <2> QED
    BY <2>1, <2>4
<1> HIDE DEF Rectangle
<1>8. ASSUME NEW r
      PROVE  r \in RectsOf(chunks, chunk)
               <=> \E lx, ly \in Columns : \E k \in 1..4 : r = RectAt(chunks, chunk, lx, ly, k)
  <2>1. r \in RectsOf(chunks, chunk) <=> \E q \in quadrants : r = Rectangle(q)
    BY <1>6
  <2>2. \A q : q \in quadrants
           <=> \E lx, ly \in Columns : \E k \in 1..4 : q = QuadrantAt(chunks, chunk, lx, ly, k)
    BY DEF AllQuadrants
  <2> HIDE DEF quadrants
  <2>3. ASSUME r \in RectsOf(chunks, chunk)
        PROVE  \E lx, ly \in Columns : \E k \in 1..4 : r = RectAt(chunks, chunk, lx, ly, k)
    <3>1. PICK q \in quadrants : r = Rectangle(q)
      BY <2>1, <2>3
    <3>2. PICK lx \in Columns, ly \in Columns, k \in 1..4 : q = QuadrantAt(chunks, chunk, lx, ly, k)
      BY <2>2
    <3> QED
      BY <1>7, <3>1, <3>2
  <2>4. ASSUME NEW lx \in Columns, NEW ly \in Columns, NEW k \in 1..4,
               r = RectAt(chunks, chunk, lx, ly, k)
        PROVE  r \in RectsOf(chunks, chunk)
    <3>1. QuadrantAt(chunks, chunk, lx, ly, k) \in quadrants
      BY <2>2
    <3>2. r = Rectangle(QuadrantAt(chunks, chunk, lx, ly, k))
      BY <1>7, <2>4
    <3> QED
      BY <2>1, <3>1, <3>2
  <2> QED
    BY <2>3, <2>4
<1> QED
  BY <1>8

(* What of a quadrant depends on which quadrant of the tile it is.         *)
LEMMA QuadrantFacts ==
  ASSUME NEW f, NEW k \in 1..4
  PROVE  /\ Quadrants(f)[k].dx = Dx(k) /\ Quadrants(f)[k].dy = Dy(k)
         /\ Quadrants(f)[k].v = Above(k) /\ Quadrants(f)[k].h = Aside(k)
<1>1. CASE k = 1
  BY <1>1 DEF Quadrants, Dx, Dy, Above, Aside
<1>2. CASE k = 2
  BY <1>2 DEF Quadrants, Dx, Dy, Above, Aside
<1>3. CASE k = 3
  BY <1>3 DEF Quadrants, Dx, Dy, Above, Aside
<1>4. CASE k = 4
  BY <1>4 DEF Quadrants, Dx, Dy, Above, Aside
<1> QED
  BY <1>1, <1>2, <1>3, <1>4

(* The source chosen for a quadrant shows the borders it must.             *)
SideOf(k) == IF Dx(k) = 0 THEN -1 ELSE 1
LevelOf(k) == IF Dy(k) = 0 THEN -1 ELSE 1
Bordered(id, v, h, k, source) ==
  IF id = AIR THEN source = NoSource
  ELSE IF v /\ h THEN source \in {0, 8} \X {-24, -32}
  ELSE source = <<IF ~h THEN 8 + 8 * SideOf(k) ELSE 8,
                  IF ~v THEN -48 + 8 * LevelOf(k) ELSE -48>>

(* A single source is the one returned.                                    *)
LEMMA ChosenOne ==
  ASSUME NEW piece, NEW seed, NEW n, Randomi(seed, n) \in Int
  PROVE  ConnectingFloorSource(<<piece>>, seed, n) = piece
<1>1. PICK z \in Int : z = Randomi(seed, n)
  OBVIOUS
<1>2. (z % 1) + 1 = 1
  OBVIOUS
<1>3. Len(<<piece>>) = 1 /\ <<piece>>[1] = piece /\ <<piece>> # <<>>
  OBVIOUS
<1> QED
  BY <1>1, <1>2, <1>3 DEF ConnectingFloorSource

(* Of the sources of a tile's middle one is returned.                      *)
LEMMA ChosenAll ==
  ASSUME NEW seed, NEW n, Randomi(seed, n) \in Int
  PROVE  ConnectingFloorSource(BASIC_FLOOR_SOURCES.connected_all, seed, n) \in {0, 8} \X {-24, -32}
<1>1. PICK z \in Int : z = Randomi(seed, n)
  OBVIOUS
<1>2. z % 4 \in 0..3
  OBVIOUS
<1> DEFINE all == BASIC_FLOOR_SOURCES.connected_all
<1>3. all = <<<<0, -24>>, <<8, -24>>, <<0, -32>>, <<8, -32>>>>
  BY DEF BASIC_FLOOR_SOURCES
<1>4. Len(all) = 4 /\ all # <<>>
  BY <1>3
<1>5. ConnectingFloorSource(all, seed, n) = all[(z % 4) + 1]
  BY <1>1, <1>4 DEF ConnectingFloorSource
<1>6. PICK i \in 1..4 : i = (z % 4) + 1
  BY <1>2
<1>7. all[i] \in {0, 8} \X {-24, -32}
  BY <1>3
<1> QED
  BY <1>5, <1>6, <1>7

(* The source of a quadrant, by which of its neighbours are alike.         *)
LEMMA SourceFor ==
  ASSUME NEW id, NEW v \in BOOLEAN, NEW h \in BOOLEAN, NEW k \in 1..4,
         NEW seed, NEW n, Randomi(seed, n) \in Int
  PROVE  Bordered(id, v, h, k,
           ConnectingFloorSource(
             Candidates(v, h, Quadrants(FloorSources(id))[k].none,
                        Quadrants(FloorSources(id))[k].vOnly,
                        Quadrants(FloorSources(id))[k].hOnly,
                        FloorSources(id).connected_all), seed, n))
<1> DEFINE f == FloorSources(id)
           q == Quadrants(f)[k]
           chosen == Candidates(v, h, q.none, q.vOnly, q.hOnly, f.connected_all)
<1>1. CASE id = AIR
  <2>1. /\ f.connected_dr = <<>> /\ f.connected_dlr = <<>> /\ f.connected_dl = <<>>
        /\ f.connected_udr = <<>> /\ f.connected_udl = <<>> /\ f.connected_ur = <<>>
        /\ f.connected_ulr = <<>> /\ f.connected_ul = <<>> /\ f.connected_all = <<>>
    BY <1>1 DEF FloorSources, BASIC_FLOOR_SOURCES
  <2> HIDE DEF f
  <2>2. q.none = <<>> /\ q.vOnly = <<>> /\ q.hOnly = <<>>
    <3>1. CASE k = 1
      BY <2>1, <3>1 DEF Quadrants
    <3>2. CASE k = 2
      BY <2>1, <3>2 DEF Quadrants
    <3>3. CASE k = 3
      BY <2>1, <3>3 DEF Quadrants
    <3>4. CASE k = 4
      BY <2>1, <3>4 DEF Quadrants
    <3> QED
      BY <3>1, <3>2, <3>3, <3>4
  <2>3. chosen = <<>>
    BY <2>1, <2>2 DEF Candidates
  <2> HIDE DEF chosen
  <2>4. ConnectingFloorSource(chosen, seed, n) = NoSource
    BY <2>3 DEF ConnectingFloorSource
  <2> QED
    BY <1>1, <2>4 DEF Bordered, chosen, f
<1>2. CASE id # AIR
  <2>0. f = BASIC_FLOOR_SOURCES
    BY <1>2 DEF FloorSources
  <2>1. CASE v /\ h
    <3>1. chosen = f.connected_all
      BY <2>1 DEF Candidates
    <3> HIDE DEF chosen, f
    <3>2. ConnectingFloorSource(chosen, seed, n) \in {0, 8} \X {-24, -32}
      BY <2>0, <3>1, ChosenAll
    <3> QED
      BY <1>2, <2>1, <3>2 DEF Bordered, chosen, f
  <2>2. CASE ~(v /\ h)
    <3> DEFINE piece == <<IF ~h THEN 8 + 8 * SideOf(k) ELSE 8,
                          IF ~v THEN -48 + 8 * LevelOf(k) ELSE -48>>
    <3>1. chosen = <<piece>>
      <4>1. CASE k = 1
        BY <2>0, <2>2, <4>1 DEF Candidates, Quadrants, BASIC_FLOOR_SOURCES, SideOf, LevelOf, Dx, Dy
      <4>2. CASE k = 2
        BY <2>0, <2>2, <4>2 DEF Candidates, Quadrants, BASIC_FLOOR_SOURCES, SideOf, LevelOf, Dx, Dy
      <4>3. CASE k = 3
        BY <2>0, <2>2, <4>3 DEF Candidates, Quadrants, BASIC_FLOOR_SOURCES, SideOf, LevelOf, Dx, Dy
      <4>4. CASE k = 4
        BY <2>0, <2>2, <4>4 DEF Candidates, Quadrants, BASIC_FLOOR_SOURCES, SideOf, LevelOf, Dx, Dy
      <4> QED
        BY <4>1, <4>2, <4>3, <4>4
    <3> HIDE DEF chosen, f, piece
    <3>2. ConnectingFloorSource(chosen, seed, n) = piece
      BY <3>1, ChosenOne
    <3> QED
      BY <1>2, <2>2, <3>2 DEF Bordered, chosen, f, piece
  <2> QED
    BY <2>1, <2>2
<1> QED
  BY <1>1, <1>2

(* What randomi() returns is an int.                                       *)
RandomNumbers == \A seed \in SUBSET (0..16) : \A n \in Nat : Randomi(seed, n) \in Int

(* There are finitely many quadrants to count.                             *)
LEMMA QuadrantsFinite ==
  ASSUME NEW chunks, NEW chunk, NEW turn
  PROVE  Cardinality(Before(chunks, chunk, turn)) \in Nat
<1> DEFINE indexes == (Columns \X Columns) \X (1..4)
           h == [i \in indexes |-> QuadrantAt(chunks, chunk, i[1][1], i[1][2], i[2])]
           all == AllQuadrants(chunks, chunk)
<1>1. IsFiniteSet(indexes)
  <2>1. CHUNK_SIZE_TLS - 1 \in Int
    <3>1. UCHAR \in Nat /\ CHUNK_SIZE_TLS \in 1..UCHAR
      BY TilemapAssumption
    <3> QED
      BY <3>1
  <2>2. IsFiniteSet(Columns) /\ IsFiniteSet(1..4)
    <3>1. PICK last \in Int : last = CHUNK_SIZE_TLS - 1
      BY <2>1
    <3>2. IsFiniteSet(0..last)
      BY FS_Interval
    <3>3. IsFiniteSet(1..4)
      <4>1. PICK one \in Int, four \in Int : one = 1 /\ four = 4
        OBVIOUS
      <4>2. IsFiniteSet(one..four)
        BY FS_Interval
      <4> QED
        BY <4>1, <4>2
    <3> QED
      BY <3>1, <3>2, <3>3 DEF Columns
  <2>3. IsFiniteSet(Columns \X Columns)
    BY <2>2, FS_Product
  <2> QED
    BY <2>2, <2>3, FS_Product
<1>2. h \in Surjection(indexes, all)
  <2>1. ASSUME NEW i \in indexes
        PROVE  h[i] \in all
    BY DEF AllQuadrants
  <2>2. ASSUME NEW q \in all
        PROVE  \E i \in indexes : h[i] = q
    <3>1. PICK lx \in Columns, ly \in Columns, k \in 1..4 : q = QuadrantAt(chunks, chunk, lx, ly, k)
      BY DEF AllQuadrants
    <3>2. <<<<lx, ly>>, k>> \in indexes /\ h[<<<<lx, ly>>, k>>] = q
      BY <3>1
    <3> QED
      BY <3>2
  <2>3. h \in [indexes -> all]
    BY <2>1
  <2> HIDE DEF h, indexes, all
  <2> QED
    BY <2>2, <2>3 DEF Surjection
<1> HIDE DEF h, indexes, all
<1>3. IsFiniteSet(all)
  BY <1>1, <1>2, FS_Surjection
<1>4. Before(chunks, chunk, turn) \subseteq all
  BY DEF Before, all
<1>5. IsFiniteSet(Before(chunks, chunk, turn))
  BY <1>3, <1>4, FS_Subset
<1> QED
  BY <1>5, FS_CardinalityType

(* The plane, by the coordinate of a chunk and a place in it.              *)
LEMMA PlaneFacts ==
  ASSUME NEW c \in Extent, NEW l \in Columns, NEW x, x = c * CHUNK_SIZE_TLS + l,
         NEW d \in {0, 1}
  PROVE  /\ x \in Nat /\ x % UINT = x /\ x \div CHUNK_SIZE_TLS = c /\ x % CHUNK_SIZE_TLS = l
         /\ (2 * x + d) \div 2 = x /\ (2 * x + d) % 2 = d
<1> DEFINE C == CHUNK_SIZE_TLS
<1>0. /\ C \in Nat \ {0} /\ USHORT \in Nat \ {0} /\ UINT \in Nat \ {0}
      /\ UINT % (USHORT * C) = 0 /\ c \in 0..(USHORT - 1)
  BY TilemapAssumption, ExtentFacts
<1>1. x \div C = c /\ x % C = l
  <2>1. l \in -1..CHUNK_SIZE_TLS /\ l \in 0..(CHUNK_SIZE_TLS - 1)
    BY <1>0 DEF Columns
  <2>2. /\ (c * CHUNK_SIZE_TLS + l) \div CHUNK_SIZE_TLS = c
        /\ (c * CHUNK_SIZE_TLS + l) % CHUNK_SIZE_TLS = l
    BY <2>1, Neighbourhood
  <2> QED
    BY <2>2
<1>2. l \in 0..(C - 1) /\ x = c * C + l
  BY DEF Columns
<1> HIDE DEF C
<1>3. c * C \in Nat
  BY <1>0
<1>4. x \in Nat
  BY <1>0, <1>2, <1>3
<1>5. x < USHORT * C
  <2>1. PICK p \in Nat : p = USHORT - 1 - c
    BY <1>0
  <2>2. USHORT = c + 1 + p
    BY <1>0, <2>1
  <2>3. (c + 1 + p) * C = c * C + C + p * C
    BY <1>0
  <2>4. p * C >= 0 /\ p * C \in Int
    BY <1>0, <2>1
  <2>5. USHORT * C = c * C + C + p * C
    BY <2>2, <2>3
  <2>6. l < C
    BY <1>0, <1>2
  <2> QED
    BY <1>0, <1>2, <1>3, <2>4, <2>5, <2>6
<1>6. x < UINT
  <2>1. PICK W \in Nat \ {0} : W = USHORT * C
    BY <1>0
  <2>2. PICK m \in Int : UINT = W * m
    <3>1. UINT % W = 0
      BY <1>0, <2>1, Zenon
    <3> QED
      BY <1>0, <3>1, Multiple
  <2>3. m >= 1
    <3>1. m <= 0 => W * m <= 0
      BY <2>1
    <3> QED
      BY <1>0, <2>2, <3>1
  <2>4. W * m >= W
    BY <2>1, <2>3
  <2>5. x < W
    BY <1>5, <2>1
  <2> QED
    BY <1>4, <2>1, <2>2, <2>4, <2>5
<1>7. x % UINT = x
  BY <1>0, <1>4, <1>6, Small
<1>8. (2 * x + d) \div 2 = x /\ (2 * x + d) % 2 = d
  <2>1. d \in 0..(2 - 1) /\ 2 \in Nat \ {0} /\ x \in Int
    BY <1>4
  <2> QED
    BY <2>1, DivMod
<1> QED
  BY <1>1, <1>4, <1>7, <1>8 DEF C

(* What draw_chunk reads around a tile of a chunk is what the map has.     *)
LEMMA SeenAround ==
  ASSUME KeysApart, ChunksOK(loaded_chunks), NEW key \in DOMAIN loaded_chunks,
         NEW lx \in Columns, NEW ly \in Columns, NEW x, NEW y,
         x = loaded_chunks[key].x * CHUNK_SIZE_TLS + lx,
         y = loaded_chunks[key].y * CHUNK_SIZE_TLS + ly
  PROVE  /\ GetTile(loaded_chunks, x, y) = ChunkMap!TileAt(x, y)
         /\ GetTile(loaded_chunks, x, (y + 1) % UINT) = ChunkMap!TileAt(x, y + 1)
         /\ GetTile(loaded_chunks, x, (y - 1) % UINT) = ChunkMap!TileAt(x, y - 1)
         /\ GetTile(loaded_chunks, (x + 1) % UINT, y) = ChunkMap!TileAt(x + 1, y)
         /\ GetTile(loaded_chunks, (x - 1) % UINT, y) = ChunkMap!TileAt(x - 1, y)
<1> DEFINE C == CHUNK_SIZE_TLS
           c == <<loaded_chunks[key].x, loaded_chunks[key].y>>
<1>1. c \in DOMAIN FloorAt /\ c[1] = loaded_chunks[key].x /\ c[2] = loaded_chunks[key].y
  BY FloorFacts
<1>2. /\ c[1] \in Extent /\ c[2] \in Extent /\ x = c[1] * C + lx /\ y = c[2] * C + ly
  BY <1>1, FloorFacts
<1>3. x % UINT = x /\ y % UINT = y /\ x \in Nat /\ y \in Nat
  BY <1>2, PlaneFacts
<1> HIDE DEF c
<1>4. PICK p \in Int, q \in Int : p = c[1] * C /\ q = c[2] * C
  <2>1. UCHAR \in Nat /\ C \in 1..UCHAR /\ USHORT \in Nat
    BY TilemapAssumption
  <2>2. c[1] \in Int /\ c[2] \in Int
    <3>1. c[1] \in 0..(USHORT - 1) /\ c[2] \in 0..(USHORT - 1)
      BY <1>2, ExtentFacts
    <3> QED
      BY <2>1, <3>1
  <2>3. c[1] * C \in Int /\ c[2] * C \in Int
    BY <2>1, <2>2
  <2> QED
    BY <2>3, Zenon
<1>5. \A i, j \in -1..C : GetTile(loaded_chunks, (p + i) % UINT, (q + j) % UINT)
                            = ChunkMap!TileAt(p + i, q + j)
  BY <1>1, <1>4, LookupWorks
<1>6. /\ lx \in -1..C /\ lx + 1 \in -1..C /\ lx - 1 \in -1..C
      /\ ly \in -1..C /\ ly + 1 \in -1..C /\ ly - 1 \in -1..C
      /\ lx \in Int /\ ly \in Int
  <2>1. UCHAR \in Nat /\ C \in 1..UCHAR
    BY TilemapAssumption
  <2> QED
    BY <2>1 DEF Columns
<1>7. /\ x = p + lx /\ x + 1 = p + (lx + 1) /\ x - 1 = p + (lx - 1)
      /\ y = q + ly /\ y + 1 = q + (ly + 1) /\ y - 1 = q + (ly - 1)
  <2>1. x = p + lx /\ y = q + ly
    BY <1>2, <1>4, Zenon
  <2> QED
    BY <1>6, <2>1
<1> HIDE DEF C
<1>8. GetTile(loaded_chunks, x, y) = ChunkMap!TileAt(x, y)
  BY <1>3, <1>5, <1>6, <1>7
<1>9. GetTile(loaded_chunks, x, (y + 1) % UINT) = ChunkMap!TileAt(x, y + 1)
  BY <1>3, <1>5, <1>6, <1>7
<1>10. GetTile(loaded_chunks, x, (y - 1) % UINT) = ChunkMap!TileAt(x, y - 1)
  BY <1>3, <1>5, <1>6, <1>7
<1>11. GetTile(loaded_chunks, (x + 1) % UINT, y) = ChunkMap!TileAt(x + 1, y)
  BY <1>3, <1>5, <1>6, <1>7
<1>12. GetTile(loaded_chunks, (x - 1) % UINT, y) = ChunkMap!TileAt(x - 1, y)
  BY <1>3, <1>5, <1>6, <1>7
<1> QED
  BY <1>8, <1>9, <1>10, <1>11, <1>12

(* A rectangle of a frame: where it is, its palette, and the borders it    *)
(* shows.                                                                  *)
LEMMA RectFacts ==
  ASSUME KeysApart, ChunksOK(loaded_chunks), NEW key \in DOMAIN loaded_chunks,
         NEW lx \in Columns, NEW ly \in Columns, NEW k \in 1..4, NEW x, NEW y,
         x = loaded_chunks[key].x * CHUNK_SIZE_TLS + lx,
         y = loaded_chunks[key].y * CHUNK_SIZE_TLS + ly,
         NEW r, r = RectAt(loaded_chunks, loaded_chunks[key], lx, ly, k)
  PROVE  /\ r.at = <<2 * x + Dx(k), 2 * y + Dy(k)>>
         /\ r.palette = PaletteIndex(ChunkMap!TileAt(x, y))
         /\ RandomNumbers =>
              Bordered(ChunkMap!TileAt(x, y),
                       ChunkMap!TileAt(x, y + LevelOf(k)) = ChunkMap!TileAt(x, y),
                       ChunkMap!TileAt(x + SideOf(k), y) = ChunkMap!TileAt(x, y), k, r.source)
<1> DEFINE chunks == loaded_chunks
           chunk == loaded_chunks[key]
           T(a, b) == ChunkMap!TileAt(a, b)
           id == GetTile(chunks, x, y)
           to == Connected(chunks, x, y, id)
           f == FloorSources(id)
           q == Quadrants(f)[k]
           at == QuadrantAt(chunks, chunk, lx, ly, k)
           before == 0 + Cardinality(Before(chunks, chunk, at.turn))
           seed == Seed(chunk)
<1>1. /\ id = T(x, y)
      /\ GetTile(chunks, x, (y + 1) % UINT) = T(x, y + 1)
      /\ GetTile(chunks, x, (y - 1) % UINT) = T(x, y - 1)
      /\ GetTile(chunks, (x + 1) % UINT, y) = T(x + 1, y)
      /\ GetTile(chunks, (x - 1) % UINT, y) = T(x - 1, y)
  BY SeenAround
<1>2. /\ at.at = <<2 * x + q.dx, 2 * y + q.dy>> /\ at.palette = PaletteIndex(id)
      /\ at.sources = Candidates(to[q.v], to[q.h], q.none, q.vOnly, q.hOnly, f.connected_all)
  BY DEF QuadrantAt
<1>3. /\ r.at = at.at /\ r.palette = at.palette
      /\ r.source = ConnectingFloorSource(at.sources, seed, before)
  BY DEF RectAt
<1>4. q.dx = Dx(k) /\ q.dy = Dy(k) /\ q.v = Above(k) /\ q.h = Aside(k)
  BY QuadrantFacts
<1>5. /\ to["up"] = (T(x, y + 1) = id) /\ to["down"] = (T(x, y - 1) = id)
      /\ to["left"] = (T(x - 1, y) = id) /\ to["right"] = (T(x + 1, y) = id)
  BY <1>1 DEF Connected
<1>6. /\ to[q.v] = (T(x, y + LevelOf(k)) = id)
      /\ to[q.h] = (T(x + SideOf(k), y) = id)
  <2> HIDE DEF to, T, id, q
  <2>0. x - 1 = x + (-1) /\ y - 1 = y + (-1)
    <3>1. loaded_chunks[key].x \in Extent /\ loaded_chunks[key].y \in Extent
      BY DEF ChunksOK, Chunks
    <3>2. x \in Nat /\ y \in Nat
      BY <3>1, PlaneFacts
    <3> QED
      BY <3>2
  <2>1. CASE k = 1
    BY <1>4, <1>5, <2>0, <2>1 DEF Above, Aside, LevelOf, SideOf, Dx, Dy
  <2>2. CASE k = 2
    BY <1>4, <1>5, <2>0, <2>2 DEF Above, Aside, LevelOf, SideOf, Dx, Dy
  <2>3. CASE k = 3
    BY <1>4, <1>5, <2>0, <2>3 DEF Above, Aside, LevelOf, SideOf, Dx, Dy
  <2>4. CASE k = 4
    BY <1>4, <1>5, <2>0, <2>4 DEF Above, Aside, LevelOf, SideOf, Dx, Dy
  <2> QED
    BY <2>1, <2>2, <2>3, <2>4
<1>7. ASSUME RandomNumbers
      PROVE  Bordered(id, to[q.v], to[q.h], k, r.source)
  <2>1. Randomi(seed, before) \in Int
    <3>1. seed \in SUBSET (0..16)
      BY DEF Seed, Bits
    <3>2. before \in Nat
      <4>1. Cardinality(Before(chunks, chunk, at.turn)) \in Nat
        BY QuadrantsFinite
      <4> HIDE DEF at
      <4> QED
        BY <4>1
    <3> HIDE DEF seed, before
    <3> QED
      BY <1>7, <3>1, <3>2 DEF RandomNumbers
  <2>2. PICK v \in BOOLEAN, h \in BOOLEAN : v = to[q.v] /\ h = to[q.h]
    <3> HIDE DEF to, q, id, T
    <3> QED
      BY <1>6
  <2> HIDE DEF seed, before, id
  <2>3. Bordered(id, v, h, k, ConnectingFloorSource(
          Candidates(v, h, q.none, q.vOnly, q.hOnly, f.connected_all), seed, before))
    BY <2>1, SourceFor
  <2> HIDE DEF q, f, to
  <2> QED
    BY <1>2, <1>3, <2>2, <2>3
<1> HIDE DEF to, q, f, at, before, seed
<1>8. r.at = <<2 * x + Dx(k), 2 * y + Dy(k)>> /\ r.palette = PaletteIndex(T(x, y))
  BY <1>1, <1>2, <1>3, <1>4
<1>9. RandomNumbers => Bordered(T(x, y), T(x, y + LevelOf(k)) = T(x, y),
                                T(x + SideOf(k), y) = T(x, y), k, r.source)
  <2> HIDE DEF id, T
  <2> QED
    BY <1>1, <1>6, <1>7
<1> QED
  BY <1>8, <1>9

(* A picture has the rectangle of each quadrant of each loaded chunk.      *)
LEMMA FrameMembers ==
  ASSUME TilemapInv, picture # {}, NEW r
  PROVE  r \in picture
           <=> \E key \in DOMAIN loaded_chunks : \E lx, ly \in Columns : \E k \in 1..4 :
                 r = RectAt(loaded_chunks, loaded_chunks[key], lx, ly, k)
<1>1. picture = UNION {RectsOf(loaded_chunks, loaded_chunks[key]) : key \in DOMAIN loaded_chunks}
  BY DEF TilemapInv, WholeFrame
<1>2. ASSUME NEW key \in DOMAIN loaded_chunks
      PROVE  r \in RectsOf(loaded_chunks, loaded_chunks[key])
               <=> \E lx, ly \in Columns : \E k \in 1..4 :
                     r = RectAt(loaded_chunks, loaded_chunks[key], lx, ly, k)
  BY RectsAre
<1>3. r \in picture <=> \E key \in DOMAIN loaded_chunks :
                          r \in RectsOf(loaded_chunks, loaded_chunks[key])
  BY <1>1
<1> QED
  BY <1>2, <1>3

(* A rectangle of the picture, by the tile it is part of.                  *)
PartOf(chunk, lx, ly, k, r, x, y) ==
  /\ x = chunk.x * CHUNK_SIZE_TLS + lx
  /\ y = chunk.y * CHUNK_SIZE_TLS + ly
  /\ x \div CHUNK_SIZE_TLS = chunk.x /\ x % CHUNK_SIZE_TLS = lx
  /\ y \div CHUNK_SIZE_TLS = chunk.y /\ y % CHUNK_SIZE_TLS = ly
  /\ r.at = <<2 * x + Dx(k), 2 * y + Dy(k)>>
  /\ r.at[1] \div 2 = x /\ r.at[1] % 2 = Dx(k)
  /\ r.at[2] \div 2 = y /\ r.at[2] % 2 = Dy(k)

(* Such a rectangle tells which quadrant of which tile it is.              *)
LEMMA TileOf ==
  ASSUME KeysApart, TilemapInv, NEW key \in DOMAIN loaded_chunks,
         NEW lx \in Columns, NEW ly \in Columns, NEW k \in 1..4, NEW r,
         r = RectAt(loaded_chunks, loaded_chunks[key], lx, ly, k)
  PROVE  \E x, y \in Nat :
           /\ PartOf(loaded_chunks[key], lx, ly, k, r, x, y)
           /\ r.palette = PaletteIndex(ChunkMap!TileAt(x, y))
           /\ RandomNumbers =>
                Bordered(ChunkMap!TileAt(x, y),
                         ChunkMap!TileAt(x, y + LevelOf(k)) = ChunkMap!TileAt(x, y),
                         ChunkMap!TileAt(x + SideOf(k), y) = ChunkMap!TileAt(x, y), k, r.source)
<1>1. ChunksOK(loaded_chunks)
  BY DEF TilemapInv
<1>2. loaded_chunks[key].x \in Extent /\ loaded_chunks[key].y \in Extent
  BY <1>1 DEF ChunksOK, Chunks
<1> DEFINE x == loaded_chunks[key].x * CHUNK_SIZE_TLS + lx
           y == loaded_chunks[key].y * CHUNK_SIZE_TLS + ly
<1>3. Dx(k) \in {0, 1} /\ Dy(k) \in {0, 1}
  BY DEF Dx, Dy
<1> HIDE DEF x, y
<1>11. /\ x = loaded_chunks[key].x * CHUNK_SIZE_TLS + lx
       /\ y = loaded_chunks[key].y * CHUNK_SIZE_TLS + ly
  BY DEF x, y
<1>4. /\ x \in Nat /\ x \div CHUNK_SIZE_TLS = loaded_chunks[key].x /\ x % CHUNK_SIZE_TLS = lx
      /\ (2 * x + Dx(k)) \div 2 = x /\ (2 * x + Dx(k)) % 2 = Dx(k)
  <2>1. PICK c \in Extent, d \in {0, 1} : c = loaded_chunks[key].x /\ d = Dx(k)
    BY <1>2, <1>3
  <2>2. x = c * CHUNK_SIZE_TLS + lx
    BY <1>11, <2>1
  <2>3. /\ x \in Nat /\ x \div CHUNK_SIZE_TLS = c /\ x % CHUNK_SIZE_TLS = lx
        /\ (2 * x + d) \div 2 = x /\ (2 * x + d) % 2 = d
    BY <2>2, PlaneFacts
  <2> QED
    BY <2>1, <2>3
<1>5. /\ y \in Nat /\ y \div CHUNK_SIZE_TLS = loaded_chunks[key].y /\ y % CHUNK_SIZE_TLS = ly
      /\ (2 * y + Dy(k)) \div 2 = y /\ (2 * y + Dy(k)) % 2 = Dy(k)
  <2>1. PICK c \in Extent, d \in {0, 1} : c = loaded_chunks[key].y /\ d = Dy(k)
    BY <1>2, <1>3
  <2>2. y = c * CHUNK_SIZE_TLS + ly
    BY <1>11, <2>1
  <2>3. /\ y \in Nat /\ y \div CHUNK_SIZE_TLS = c /\ y % CHUNK_SIZE_TLS = ly
        /\ (2 * y + d) \div 2 = y /\ (2 * y + d) % 2 = d
    BY <2>2, PlaneFacts
  <2> QED
    BY <2>1, <2>3
<1>6. r.at = <<2 * x + Dx(k), 2 * y + Dy(k)>>
  BY <1>1, <1>11, RectFacts
<1>7. r.palette = PaletteIndex(ChunkMap!TileAt(x, y))
  BY <1>1, <1>11, RectFacts
<1>8. RandomNumbers =>
        Bordered(ChunkMap!TileAt(x, y),
                 ChunkMap!TileAt(x, y + LevelOf(k)) = ChunkMap!TileAt(x, y),
                 ChunkMap!TileAt(x + SideOf(k), y) = ChunkMap!TileAt(x, y), k, r.source)
  BY <1>1, <1>11, RectFacts
<1>9. r.at[1] = 2 * x + Dx(k) /\ r.at[2] = 2 * y + Dy(k)
  <2> HIDE DEF x, y
  <2> QED
    BY <1>6
<1>10. /\ r.at[1] \div 2 = x /\ r.at[1] % 2 = Dx(k)
       /\ r.at[2] \div 2 = y /\ r.at[2] % 2 = Dy(k)
  <2> HIDE DEF x, y
  <2> QED
    BY <1>4, <1>5, <1>9
<1> QED
  BY <1>4, <1>5, <1>6, <1>7, <1>8, <1>10, <1>11 DEF PartOf

(* Every half tile of the loaded chunks is covered, and nothing else is.   *)
Half(c, i) == 2 * c * CHUNK_SIZE_TLS + i

(* The halves of the tiles of a row of a chunk, counted along the row.     *)
LEMMA HalfFacts ==
  ASSUME NEW c \in Extent
  PROVE  /\ \A l \in Columns : \A d \in {0, 1} :
              \E i \in 0..(2 * CHUNK_SIZE_TLS - 1) :
                2 * (c * CHUNK_SIZE_TLS + l) + d = Half(c, i)
         /\ \A i \in 0..(2 * CHUNK_SIZE_TLS - 1) : \E l \in Columns : \E d \in {0, 1} :
              Half(c, i) = 2 * (c * CHUNK_SIZE_TLS + l) + d
<1> DEFINE C == CHUNK_SIZE_TLS
<1>1. UCHAR \in Nat /\ C \in 1..UCHAR /\ USHORT \in Nat /\ c \in 0..(USHORT - 1)
  BY TilemapAssumption, ExtentFacts
<1>2. C \in Nat \ {0} /\ c \in Nat
  BY <1>1
<1>3. Columns = 0..(C - 1)
  BY DEF Columns
<1> HIDE DEF C
<1>4. PICK p \in Nat : p = c * C
  BY <1>2
<1>5. ASSUME NEW i \in Int
      PROVE  Half(c, i) = 2 * p + i
  <2>1. (2 * c) * C = 2 * (c * C)
    BY <1>2
  <2>2. Half(c, i) = (2 * c) * C + i
    BY DEF Half, C
  <2> QED
    BY <1>4, <2>1, <2>2
<1>6. ASSUME NEW l \in Columns, NEW d \in {0, 1}
      PROVE  \E i \in 0..(2 * C - 1) : 2 * (c * C + l) + d = Half(c, i)
  <2>1. l \in 0..(C - 1)
    BY <1>3
  <2>2. PICK i \in 0..(2 * C - 1) : i = 2 * l + d
    BY <1>2, <2>1
  <2>3. i \in Int /\ Half(c, i) = 2 * p + i
    BY <1>2, <1>5
  <2>4. 2 * (p + l) + d = 2 * p + i
    BY <2>1, <2>2
  <2> QED
    BY <1>4, <2>3, <2>4 DEF PartOf
<1>7. ASSUME NEW i \in 0..(2 * C - 1)
      PROVE  \E l \in Columns : \E d \in {0, 1} : Half(c, i) = 2 * (c * C + l) + d
  <2>1. i \in Int /\ 0 <= i /\ i < 2 * C
    BY <1>2
  <2>2. PICK l \in Int, d \in 0..1 : i = 2 * l + d
    <3>1. i \div 2 \in Int /\ i % 2 \in 0..(2 - 1) /\ i = 2 * (i \div 2) + (i % 2)
      BY <2>1, Euclid
    <3> QED
      BY <3>1
  <2>3. l \in Columns /\ d \in {0, 1}
    BY <1>2, <1>3, <2>1, <2>2
  <2>4. Half(c, i) = 2 * p + i
    BY <1>5, <2>1
  <2>5. 2 * p + i = 2 * (p + l) + d
    BY <2>2
  <2> QED
    BY <1>4, <2>3, <2>4, <2>5
<1> QED
  BY <1>6, <1>7 DEF C

(* A picture covers the loaded chunks and shows the right borders.         *)
LEMMA PictureRight ==
  ASSUME KeysApart, TilemapInv
  PROVE  PictureCovers /\ (RandomNumbers => BordersRight)
<1> DEFINE C == CHUNK_SIZE_TLS
<1>0. ChunksOK(loaded_chunks)
  BY DEF TilemapInv
<1>1. ASSUME picture # {}, NEW r \in picture
      PROVE  \E key \in DOMAIN loaded_chunks : \E lx, ly \in Columns : \E k \in 1..4 :
               r = RectAt(loaded_chunks, loaded_chunks[key], lx, ly, k)
  BY <1>1, FrameMembers
<1>2. ASSUME picture # {}, NEW r \in picture
      PROVE  \E c \in DOMAIN FloorAt : r.at \in CellsOf(c)
  <2>1. PICK key \in DOMAIN loaded_chunks, lx \in Columns, ly \in Columns, k \in 1..4 :
          r = RectAt(loaded_chunks, loaded_chunks[key], lx, ly, k)
    BY <1>1, <1>2
  <2>2. PICK c : c = <<loaded_chunks[key].x, loaded_chunks[key].y>>
    OBVIOUS
  <2>3. c \in DOMAIN FloorAt /\ c[1] \in Extent /\ c[2] \in Extent
    BY <1>0, <2>2, FloorFacts
  <2>4. PICK x \in Nat, y \in Nat :
          x = c[1] * C + lx /\ y = c[2] * C + ly /\ r.at = <<2 * x + Dx(k), 2 * y + Dy(k)>>
    BY <2>1, <2>2, TileOf DEF PartOf
  <2>5. Dx(k) \in {0, 1} /\ Dy(k) \in {0, 1}
    BY DEF Dx, Dy
  <2>6. PICK i \in 0..(2 * C - 1) : 2 * (c[1] * C + lx) + Dx(k) = Half(c[1], i)
    BY <2>3, <2>5, HalfFacts
  <2>7. PICK j \in 0..(2 * C - 1) : 2 * (c[2] * C + ly) + Dy(k) = Half(c[2], j)
    BY <2>3, <2>5, HalfFacts
  <2>8. r.at = <<Half(c[1], i), Half(c[2], j)>>
    BY <2>4, <2>6, <2>7
  <2>9. r.at \in CellsOf(c)
    BY <2>8 DEF CellsOf, Half
  <2> QED
    BY <2>3, <2>9
<1>3. ASSUME picture # {}, NEW c \in DOMAIN FloorAt, NEW at \in CellsOf(c)
      PROVE  \E r \in picture : r.at = at
  <2>1. PICK i \in 0..(2 * C - 1), j \in 0..(2 * C - 1) : at = <<Half(c[1], i), Half(c[2], j)>>
    BY <1>3 DEF CellsOf, Half
  <2>2. PICK key \in DOMAIN loaded_chunks : c = <<loaded_chunks[key].x, loaded_chunks[key].y>>
    BY <1>0, FloorFacts
  <2>3. c[1] \in Extent /\ c[2] \in Extent
    BY <1>0, FloorFacts
  <2>4. PICK lx \in Columns, dx \in {0, 1} : Half(c[1], i) = 2 * (c[1] * C + lx) + dx
    BY <2>3, HalfFacts
  <2>5. PICK ly \in Columns, dy \in {0, 1} : Half(c[2], j) = 2 * (c[2] * C + ly) + dy
    BY <2>3, HalfFacts
  <2>6. PICK k \in 1..4 : Dx(k) = dx /\ Dy(k) = dy
    <3>1. /\ Dx(1) = 0 /\ Dy(1) = 1 /\ Dx(2) = 1 /\ Dy(2) = 1
          /\ Dx(3) = 0 /\ Dy(3) = 0 /\ Dx(4) = 1 /\ Dy(4) = 0
      BY DEF Dx, Dy
    <3> QED
      BY <3>1
  <2>7. PICK r : r = RectAt(loaded_chunks, loaded_chunks[key], lx, ly, k)
    OBVIOUS
  <2>8. r \in picture
    BY <1>3, <2>7, FrameMembers
  <2>9. PICK x \in Nat, y \in Nat :
          x = c[1] * C + lx /\ y = c[2] * C + ly /\ r.at = <<2 * x + Dx(k), 2 * y + Dy(k)>>
    BY <2>2, <2>7, TileOf DEF PartOf
  <2>10. r.at = at
    BY <2>1, <2>4, <2>5, <2>6, <2>9
  <2> QED
    BY <2>8, <2>10
<1>4. ASSUME picture # {}, NEW r \in picture, NEW s \in picture, r.at = s.at
      PROVE  r = s
  <2>1. PICK key \in DOMAIN loaded_chunks, lx \in Columns, ly \in Columns, k \in 1..4 :
          r = RectAt(loaded_chunks, loaded_chunks[key], lx, ly, k)
    BY <1>1, <1>4
  <2>2. PICK key2 \in DOMAIN loaded_chunks, lx2 \in Columns, ly2 \in Columns, k2 \in 1..4 :
          s = RectAt(loaded_chunks, loaded_chunks[key2], lx2, ly2, k2)
    BY <1>1, <1>4
  <2>3. PICK x \in Nat, y \in Nat : PartOf(loaded_chunks[key], lx, ly, k, r, x, y)
    BY <2>1, TileOf
  <2>4. PICK x2 \in Nat, y2 \in Nat : PartOf(loaded_chunks[key2], lx2, ly2, k2, s, x2, y2)
    BY <2>2, TileOf
  <2>5. x = x2 /\ y = y2 /\ Dx(k) = Dx(k2) /\ Dy(k) = Dy(k2)
    BY <1>4, <2>3, <2>4 DEF PartOf
  <2>6. lx = lx2 /\ ly = ly2
    BY <2>3, <2>4, <2>5 DEF PartOf
  <2>7. k = k2
    BY <2>5 DEF Dx, Dy
  <2>8. loaded_chunks[key].x = loaded_chunks[key2].x /\ loaded_chunks[key].y = loaded_chunks[key2].y
    BY <2>3, <2>4, <2>5 DEF PartOf
  <2>9. key = key2
    BY <1>0, <2>8 DEF ChunksOK
  <2> QED
    BY <2>1, <2>2, <2>6, <2>7, <2>9
<1>5. ASSUME picture # {}, NEW r \in picture
      PROVE  r.palette = PaletteIndex(ChunkMap!TileAt(r.at[1] \div 2, r.at[2] \div 2))
  <2>1. PICK key \in DOMAIN loaded_chunks, lx \in Columns, ly \in Columns, k \in 1..4 :
          r = RectAt(loaded_chunks, loaded_chunks[key], lx, ly, k)
    BY <1>1, <1>5
  <2> QED
    BY <2>1, TileOf DEF PartOf
<1>6. PictureCovers
  <2>1. ASSUME picture # {}
        PROVE  {r.at : r \in picture} = UNION {CellsOf(c) : c \in DOMAIN FloorAt}
    <3>1. ASSUME NEW at
          PROVE  at \in {r.at : r \in picture} <=> \E c \in DOMAIN FloorAt : at \in CellsOf(c)
      BY <1>2, <1>3, <2>1
    <3> QED
      BY <3>1
  <2> QED
    BY <1>4, <1>5, <2>1 DEF PictureCovers
<1>7. ASSUME RandomNumbers, NEW r \in picture
      PROVE  LET x == r.at[1] \div 2
                 y == r.at[2] \div 2
                 id == ChunkMap!TileAt(x, y)
                 side == IF r.at[1] % 2 = 0 THEN -1 ELSE 1
                 level == IF r.at[2] % 2 = 0 THEN -1 ELSE 1
                 openH == ChunkMap!TileAt(x + side, y) # id
                 openV == ChunkMap!TileAt(x, y + level) # id
             IN  IF id = AIR THEN r.source = NoSource
                 ELSE IF ~openH /\ ~openV THEN r.source \in {0, 8} \X {-24, -32}
                 ELSE r.source = <<IF openH THEN 8 + 8 * side ELSE 8,
                                   IF openV THEN -48 + 8 * level ELSE -48>>
  <2>0. picture # {}
    BY <1>7
  <2>1. PICK key \in DOMAIN loaded_chunks, lx \in Columns, ly \in Columns, k \in 1..4 :
          r = RectAt(loaded_chunks, loaded_chunks[key], lx, ly, k)
    BY <1>1, <1>7, <2>0
  <2>2. PICK x \in Nat, y \in Nat :
          /\ r.at[1] \div 2 = x /\ r.at[1] % 2 = Dx(k)
          /\ r.at[2] \div 2 = y /\ r.at[2] % 2 = Dy(k)
          /\ Bordered(ChunkMap!TileAt(x, y),
                      ChunkMap!TileAt(x, y + LevelOf(k)) = ChunkMap!TileAt(x, y),
                      ChunkMap!TileAt(x + SideOf(k), y) = ChunkMap!TileAt(x, y), k, r.source)
    BY <1>7, <2>1, TileOf DEF PartOf
  <2>3. /\ (IF r.at[1] % 2 = 0 THEN -1 ELSE 1) = SideOf(k)
        /\ (IF r.at[2] % 2 = 0 THEN -1 ELSE 1) = LevelOf(k)
    BY <2>2 DEF SideOf, LevelOf
  <2> QED
    BY <2>2, <2>3 DEF Bordered
<1>8. RandomNumbers => BordersRight
  BY <1>7 DEF BordersRight
<1> QED
  BY <1>6, <1>8

(* The tilemap is found and drawn as it was set: every half tile of the    *)
(* loaded chunks is covered by exactly one rectangle, in its palette,      *)
(* with borders exactly where the neighbour is another tile.               *)
THEOREM TilesDrawn == KeysApart /\ RandomNumbers /\ TilemapSpec => []TilemapRight
<1> SUFFICES ASSUME KeysApart, RandomNumbers
             PROVE  TilemapSpec => []TilemapRight
  OBVIOUS
<1>1. TilemapInv => TilemapRight
  BY TilemapShown, PictureRight DEF TilemapRight
<1> QED
  BY <1>1, TilemapAlways, PTL
=============================================================================
