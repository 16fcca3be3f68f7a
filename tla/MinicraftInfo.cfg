CONSTANTS
  c1 = c1
  c2 = c2
  p1 = p1
  p2 = p2
  Conn <- TwoConns
  PlayerUID <- TwoPuids
  PuidOf <- DistinctPuidOf
  GameBody <- MinicraftBodies
  NoUid = NoUid
  NoConn = NoConn
  NullConn = NullConn
  MaxGame = 4
  MaxQueue = 3
  SPAWN_POS <- Spawn
  Dirs <- KeyD
  MaxMoves = 1
  NoPos = NoPos
  NoBody = NoBody
SPECIFICATION GameSpec
INVARIANT InfoMatchesPosition
