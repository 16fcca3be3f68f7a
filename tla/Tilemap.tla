------------------------------ MODULE Tilemap ------------------------------
(***************************************************************************)
(* The tilemap (components.hpp, tilemap_system.cpp, tiles.hpp): chunks     *)
(* kept in a hash map under a key made of their coordinates, the lookup of *)
(* a tile in unsigned arithmetic, generate_chunks, and draw_chunk, which   *)
(* draws each tile as four quadrants whose pieces depend on which          *)
(* neighbours are of the same tile.                                        *)
(*                                                                         *)
(* Only the floor layer is followed: the wall layer is never drawn.  A     *)
(* frame draws the chunks in the order of the hash map, which may be any.  *)
(***************************************************************************)
EXTENDS Integers, Sequences, FiniteSets, Functions

CONSTANTS CHUNK_SIZE_TLS,
          USHORT, UINT, UCHAR,  \* values of unsigned short, int and char
          Floors,               \* the floors set_chunk is given
          Coords,               \* the coordinates callers use
          Randomi(_, _)         \* what randomi() returns after set_seed(s) and
                                \* n calls

AIR == 0
GRASS == 1
TileIDs == 0..2
TileIndexes == 0..(CHUNK_SIZE_TLS * CHUNK_SIZE_TLS - 1)
AllGrass == [i \in TileIndexes |-> GRASS]

ASSUME TilemapAssumption ==
  /\ CHUNK_SIZE_TLS \in 1..UCHAR /\ {USHORT, UINT, UCHAR} \subseteq Nat \ {0}
  /\ UINT % (USHORT * CHUNK_SIZE_TLS) = 0 /\ (USHORT * CHUNK_SIZE_TLS) % UCHAR = 0
  /\ Coords \subseteq 0..(USHORT - 1) /\ Floors \subseteq [TileIndexes -> TileIDs]

VARIABLES
  loaded_chunks,  \* [x, y, tiles] by key
  running,        \* FALSE once an ASSERT has stopped the program
  picture         \* what the last frame drew since the chunks last changed

tilemapVars == <<loaded_chunks, running, picture>>

(* An unsigned number as the set of its bits: | is then the union.         *)
Bits(n) == {i \in 0..15 : (n \div 2^i) % 2 = 1}

(* (x & 0xffff) << 2 | (y & 0xffff).                                       *)
GetChunkKey(x, y) == {i + 2 : i \in Bits(x)} \union Bits(y)

(* Mutant: the chunk is told the coordinates in the wrong order.           *)
SetChunkTransposed(chunks, x, y, tiles) ==
  LET key == GetChunkKey(x, y) IN
  [k \in DOMAIN chunks \union {key} |->
     IF k = key THEN [x |-> y, y |-> x, tiles |-> tiles] ELSE chunks[k]]

SetChunk(chunks, x, y, tiles) ==
  LET key == GetChunkKey(x, y) IN
  [k \in DOMAIN chunks \union {key} |->
     IF k = key THEN [x |-> x, y |-> y, tiles |-> tiles] ELSE chunks[k]]

(* Mutant: the local coordinate is that of the row for both.               *)
GetTileSwapped(chunks, x, y) ==
  LET cx == (x \div CHUNK_SIZE_TLS) % USHORT
      cy == (y \div CHUNK_SIZE_TLS) % USHORT
      lx == ((x - cx * CHUNK_SIZE_TLS) % UINT) % UCHAR
      ly == ((y - cy * CHUNK_SIZE_TLS) % UINT) % UCHAR
      key == GetChunkKey(cx, cy)
  IN  IF key \in DOMAIN chunks THEN chunks[key].tiles[ly + lx * CHUNK_SIZE_TLS]
      ELSE AIR

GetTile(chunks, x, y) ==
  LET cx == (x \div CHUNK_SIZE_TLS) % USHORT
      cy == (y \div CHUNK_SIZE_TLS) % USHORT
      lx == ((x - cx * CHUNK_SIZE_TLS) % UINT) % UCHAR
      ly == ((y - cy * CHUNK_SIZE_TLS) % UINT) % UCHAR
      key == GetChunkKey(cx, cy)
  IN  IF key \in DOMAIN chunks THEN chunks[key].tiles[lx + ly * CHUNK_SIZE_TLS]
      ELSE AIR

(* BASIC_FLOOR_SOURCES: the top left corners of the pieces that connect to *)
(* the directions in the field's name.                                     *)
BASIC_FLOOR_SOURCES ==
  [connected_dr |-> <<<<0, -40>>>>, connected_dlr |-> <<<<8, -40>>>>,
   connected_dl |-> <<<<16, -40>>>>, connected_udr |-> <<<<0, -48>>>>,
   connected_all |-> <<<<0, -24>>, <<8, -24>>, <<0, -32>>, <<8, -32>>>>,
   connected_udl |-> <<<<16, -48>>>>, connected_ur |-> <<<<0, -56>>>>,
   connected_ulr |-> <<<<8, -56>>>>, connected_ul |-> <<<<16, -56>>>>]

(* TILES: air has no sources; the palettes of grass and stone differ.      *)
FloorSources(id) ==
  IF id = AIR THEN [field \in DOMAIN BASIC_FLOOR_SOURCES |-> <<>>]
  ELSE BASIC_FLOOR_SOURCES
PaletteIndex(id) == IF id = 2 THEN 1 ELSE 0

NoSource == <<>>

(* get_connecting_floor_source: the sources it chooses from, and the one   *)
(* it returns when n random numbers have been drawn since the seed was set.*)
Candidates(v, h, none, vOnly, hOnly, both) ==
  IF v THEN IF h THEN both ELSE vOnly
  ELSE IF h THEN hOnly ELSE none
ConnectingFloorSource(sources, seed, n) ==
  IF sources = <<>> THEN NoSource
  ELSE sources[(Randomi(seed, n) % Len(sources)) + 1]

(* Mutant: two of the sources are exchanged.                               *)
QuadrantsSwapped(f) ==
  << [dx |-> 0, dy |-> 1, v |-> "up", h |-> "left", none |-> f.connected_dr,
      vOnly |-> f.connected_dlr, hOnly |-> f.connected_udr],
     [dx |-> 1, dy |-> 1, v |-> "up", h |-> "right", none |-> f.connected_dl,
      vOnly |-> f.connected_udl, hOnly |-> f.connected_dlr],
     [dx |-> 0, dy |-> 0, v |-> "down", h |-> "left", none |-> f.connected_ur,
      vOnly |-> f.connected_udr, hOnly |-> f.connected_ulr],
     [dx |-> 1, dy |-> 0, v |-> "down", h |-> "right", none |-> f.connected_ul,
      vOnly |-> f.connected_udl, hOnly |-> f.connected_ulr] >>

(* The four quadrants of a tile, each at its offset in halves of a tile,   *)
(* with the neighbours and the sources draw_chunk hands to the above.      *)
Quadrants(f) ==
  << [dx |-> 0, dy |-> 1, v |-> "up", h |-> "left", none |-> f.connected_dr,
      vOnly |-> f.connected_udr, hOnly |-> f.connected_dlr],
     [dx |-> 1, dy |-> 1, v |-> "up", h |-> "right", none |-> f.connected_dl,
      vOnly |-> f.connected_udl, hOnly |-> f.connected_dlr],
     [dx |-> 0, dy |-> 0, v |-> "down", h |-> "left", none |-> f.connected_ur,
      vOnly |-> f.connected_udr, hOnly |-> f.connected_ulr],
     [dx |-> 1, dy |-> 0, v |-> "down", h |-> "right", none |-> f.connected_ul,
      vOnly |-> f.connected_udl, hOnly |-> f.connected_ulr] >>

(* Which neighbours of a tile are like it.                                 *)
Connected(chunks, x, y, id) ==
  [up |-> GetTile(chunks, x, (y + 1) % UINT) = id,
   down |-> GetTile(chunks, x, (y - 1) % UINT) = id,
   left |-> GetTile(chunks, (x - 1) % UINT, y) = id,
   right |-> GetTile(chunks, (x + 1) % UINT, y) = id]

(* The quadrants of a tile of a chunk, each at its turn in the loops of    *)
(* draw_chunk, but for the choice among the sources.  Positions count      *)
(* halves of a tile.                                                       *)
QuadrantsOf(chunks, chunk, lx, ly) ==
  LET x == chunk.x * CHUNK_SIZE_TLS + lx
      y == chunk.y * CHUNK_SIZE_TLS + ly
      id == GetTile(chunks, x, y)
      to == Connected(chunks, x, y, id)
      f == FloorSources(id)
      Quadrant(k, q) ==
        [turn |-> <<lx, ly, k>>, at |-> <<2 * x + q.dx, 2 * y + q.dy>>,
         palette |-> PaletteIndex(id),
         sources |-> Candidates(to[q.v], to[q.h], q.none, q.vOnly, q.hOnly,
                                f.connected_all)]
  IN  {Quadrant(k, Quadrants(f)[k]) : k \in 1..4}

Earlier(s, t) ==
  \/ s[1] < t[1]
  \/ s[1] = t[1] /\ s[2] < t[2]
  \/ s[1] = t[1] /\ s[2] = t[2] /\ s[3] < t[3]

(* What the loops over these columns add to what was drawn so far: a       *)
(* rectangle for each quadrant, and a random number if it has sources.     *)
DrawColumns(so_far, chunks, chunk, columns, seed) ==
  LET quadrants == UNION {QuadrantsOf(chunks, chunk, lx, ly) :
                            lx \in columns, ly \in 0..(CHUNK_SIZE_TLS - 1)}
      random == {q \in quadrants : q.sources # <<>>}
      N(q) == so_far.n + Cardinality({r \in random : Earlier(r.turn, q.turn)})
      Rectangle(q) == [at |-> q.at, palette |-> q.palette,
                       source |-> ConnectingFloorSource(q.sources, seed, N(q))]
  IN  [rects |-> so_far.rects \union {Rectangle(q) : q \in quadrants},
       n |-> so_far.n + Cardinality(random)]

Seed(chunk) == {i + 1 : i \in Bits(chunk.x % 256)} \union Bits(chunk.y % 256)

(* Mutant: the random numbers go on from chunk to chunk.                   *)
DrawChunkUnseeded(so_far, chunks, chunk) ==
  DrawColumns(so_far, chunks, chunk, 0..(CHUNK_SIZE_TLS - 1), {})

(* Mutant: the last column is left out.                                    *)
DrawChunkShort(so_far, chunks, chunk) ==
  DrawColumns([so_far EXCEPT !.n = 0], chunks, chunk, 0..(CHUNK_SIZE_TLS - 2),
              Seed(chunk))

(* draw_chunk, which sets the seed first.                                  *)
DrawChunk(so_far, chunks, chunk) ==
  DrawColumns([so_far EXCEPT !.n = 0], chunks, chunk, 0..(CHUNK_SIZE_TLS - 1),
              Seed(chunk))

(* A frame draws the chunks in the order in which the hash map has them.   *)
FrameOf(chunks, order) ==
  LET count == Cardinality(DOMAIN chunks)
      after[k \in 0..count] ==
        IF k = 0 THEN [rects |-> {}, n |-> 0]
        ELSE DrawChunk(after[k - 1], chunks, chunks[order[k]])
  IN  after[count].rects

TilemapInit == loaded_chunks = <<>> /\ running = TRUE /\ picture = {}

(* set_chunk, called with the floor of a chunk its owner has made.         *)
SetChunkAt(x, y) ==
  /\ running
  /\ \E tiles \in Floors : loaded_chunks' = SetChunk(loaded_chunks, x, y, tiles)
  /\ picture' = {}
  /\ UNCHANGED running

(* Of the chunks of an area that share a key, the last one the loops of    *)
(* generate_chunks come to.                                                *)
LastWith(key, area) ==
  CHOOSE c \in area :
    /\ GetChunkKey(c[1], c[2]) = key
    /\ \A d \in area : GetChunkKey(d[1], d[2]) = key =>
         d[1] < c[1] \/ (d[1] = c[1] /\ d[2] <= c[2])

(* Mutant: the chunks outside the area are dropped.                        *)
GeneratedAnew(chunks, area) ==
  [key \in {GetChunkKey(c[1], c[2]) : c \in area} |->
     LET c == LastWith(key, area) IN [x |-> c[1], y |-> c[2], tiles |-> AllGrass]]

(* What those loops make of the chunks, setting one after the other.       *)
Generated(chunks, area) ==
  LET keys == {GetChunkKey(c[1], c[2]) : c \in area}
      Chunk(c) == [x |-> c[1], y |-> c[2], tiles |-> AllGrass]
  IN  [key \in DOMAIN chunks \union keys |->
         IF key \in keys THEN Chunk(LastWith(key, area)) ELSE chunks[key]]

(* The four coordinates must be below CHUNK_SIZE_TLS.                      *)
GenerateChunks(sx, sy, ex, ey) ==
  /\ running
  /\ running' = (\A c \in {sx, sy, ex, ey} : c < CHUNK_SIZE_TLS)
  /\ IF running'
     THEN loaded_chunks' = Generated(loaded_chunks, (sx..ex) \X (sy..ey)) /\ picture' = {}
     ELSE UNCHANGED <<loaded_chunks, picture>>

(* TilemapSystem::on_update draws every chunk once, in any order.          *)
DrawChunks ==
  /\ running
  /\ \E order \in Bijection(1..Cardinality(DOMAIN loaded_chunks), DOMAIN loaded_chunks) :
       picture' = FrameOf(loaded_chunks, order)
  /\ UNCHANGED <<loaded_chunks, running>>

TilemapNext ==
  \/ \E x, y \in Coords : SetChunkAt(x, y)
  \/ \E sx, sy, ex, ey \in Coords \union {CHUNK_SIZE_TLS} :
       GenerateChunks(sx, sy, ex, ey)
  \/ DrawChunks

TilemapSpec == TilemapInit /\ [][TilemapNext]_tilemapVars
-----------------------------------------------------------------------------
(* A chunk is kept under the key of its own coordinates, with a whole      *)
(* floor of known tiles.                                                   *)
TilemapTypeOK ==
  /\ running \in BOOLEAN
  /\ \A key \in DOMAIN loaded_chunks :
       LET chunk == loaded_chunks[key] IN
         /\ key = GetChunkKey(chunk.x, chunk.y)
         /\ chunk.tiles \in [TileIndexes -> TileIDs]

(* The chunks by their coordinates are the map they stand for.             *)
FloorAt == [c \in {<<loaded_chunks[key].x, loaded_chunks[key].y>> :
                     key \in DOMAIN loaded_chunks} |->
              (CHOOSE chunk \in {loaded_chunks[key] : key \in DOMAIN loaded_chunks} :
                 <<chunk.x, chunk.y>> = c).tiles]
ChunkMap == INSTANCE ChunkMap WITH floors <- FloorAt, Air <- AIR, Grass <- AllGrass
RefinesChunkMap == ChunkMap!Map

(* No chunk the callers can name has the key of another one, nor that of a *)
(* chunk next to one of them, whose coordinates wrap around.  The program  *)
(* names one chunk only, at 0, 0.                                          *)
Extent == {x \in 0..(USHORT - 1) : \E a, b \in Coords : a <= x /\ x <= b}
Around == {x \in -1..USHORT : \E y \in Extent : x - y \in -1..1}
KeysApart ==
  \A c1, c2 \in Extent : \A d1, d2 \in Around :
    GetChunkKey(c1, c2) = GetChunkKey(d1 % USHORT, d2 % USHORT) => c1 = d1 /\ c2 = d2

(* In each chunk and just around it, where a coordinate may have wrapped   *)
(* around the edge of the world, a tile is found as the map has it,        *)
(* through the truncations of get_tile.                                    *)
LookupRight ==
  \A c \in DOMAIN FloorAt : \A i, j \in -1..CHUNK_SIZE_TLS :
    LET x == c[1] * CHUNK_SIZE_TLS + i
        y == c[2] * CHUNK_SIZE_TLS + j
    IN  GetTile(loaded_chunks, x % UINT, y % UINT) = ChunkMap!TileAt(x, y)

(* A frame covers every half tile of every loaded chunk with one rectangle *)
(* of the tile's palette, and nothing else.                                *)
CellsOf(c) == {<<2 * c[1] * CHUNK_SIZE_TLS + i, 2 * c[2] * CHUNK_SIZE_TLS + j>> :
                 i, j \in 0..(2 * CHUNK_SIZE_TLS - 1)}
PictureCovers ==
  picture # {} =>
    /\ {r.at : r \in picture} = UNION {CellsOf(c) : c \in DOMAIN FloorAt}
    /\ \A r, s \in picture : r.at = s.at => r = s
    /\ \A r \in picture :
         r.palette = PaletteIndex(ChunkMap!TileAt(r.at[1] \div 2, r.at[2] \div 2))

(* A quadrant shows a border on exactly those of its outer sides where the *)
(* neighbour is another tile: the pieces with a border on the left are in  *)
(* the first column of their block of the atlas, on the right in the last, *)
(* above in the upper row, below in the lower one (draw_chunk, tiles.hpp). *)
BordersRight ==
  \A r \in picture :
    LET x == r.at[1] \div 2
        y == r.at[2] \div 2
        id == ChunkMap!TileAt(x, y)
        side == IF r.at[1] % 2 = 0 THEN -1 ELSE 1
        level == IF r.at[2] % 2 = 0 THEN -1 ELSE 1
        openH == ChunkMap!TileAt(x + side, y) # id
        openV == ChunkMap!TileAt(x, y + level) # id
    IN  IF id = AIR THEN r.source = NoSource
        ELSE IF ~openH /\ ~openV THEN r.source \in {0, 8} \X {-24, -32}
        ELSE r.source = <<IF openH THEN 8 + 8 * side ELSE 8,
                          IF openV THEN -48 + 8 * level ELSE -48>>

(* All three at once: the tilemap is found and drawn as it was set.        *)
TilemapRight == LookupRight /\ PictureCovers /\ BordersRight

(* The pieces chosen at random are the same in every frame, whatever the   *)
(* order of the hash map: draw_chunk sets the seed from the chunk.         *)
NoFlicker == [][picture # {} /\ picture' # {} => picture' = picture]_tilemapVars

(* components.hpp:106 returns 0 saying "chunk isn't loaded": the tiles of  *)
(* a chunk nobody has set are air.                                         *)
UnloadedIsAir ==
  \A x, y \in Coords :
    <<x, y>> \notin DOMAIN FloorAt =>
      GetTile(loaded_chunks, x * CHUNK_SIZE_TLS, y * CHUNK_SIZE_TLS) = AIR
=============================================================================
