CONSTANTS
  c1 = c1
  c2 = c2
  p1 = p1
  p2 = p2
  Conn <- TwoConns
  PlayerUID <- TwoConns
  PuidOf <- OwnPuidOf
  GameBody <- MinicraftBodies
  NoUid = NoUid
  NoConn = NoConn
  NullConn = NullConn
  MaxGame = 4
  MaxQueue = 3
  SPAWN_POS <- Spawn
  Dirs <- KeyD
  MaxMoves = 2
  NoPos = NoPos
  NoBody = NoBody
SPECIFICATION GameSpec
SYMMETRY ConnSymmetry
INVARIANT GameTypeOK
INVARIANT SenderHasEntity
INVARIANT OwnPlayerKept
INVARIANT RostersConverge
INVARIANT ServerTracksMovers
INVARIANT ClientsFollow
PROPERTY StepsSeenInOrder
PROPERTY EngineSpec
