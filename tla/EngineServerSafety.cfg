CONSTANTS
  c1 = c1
  c2 = c2
  c3 = c3
  p1 = p1
  p2 = p2
  p3 = p3
  move = move
  Conn <- ThreeConns
  PlayerUID <- ThreeConns
  PuidOf <- OwnPuidOf
  GameBody <- Bodies
  NoUid = NoUid
  NoConn = NoConn
  NullConn = NullConn
  MaxGame = 1
  MaxQueue = 2
SPECIFICATION Spec
SYMMETRY ConnSymmetry
INVARIANT TypeOK
INVARIANT TablesAgree
INVARIANT ServerStaysUp
INVARIANT DroppedIsDismissed
PROPERTY OnlyDeadDeregistered
PROPERTY NothingAfterGoodbye
