CONSTANTS
  Component <- GameComponent
  Value <- GameValue
  Blank <- GameBlank
  u1 = u1
  u2 = u2
  u3 = u3
  origin = origin
  there = there
  red = red
  blue = blue
  Uid = {u1, u2, u3}
  Owns = {u1, NoUid}
  NoUid = NoUid
  Place = {origin, there}
  Origin = origin
  Palette = {red, blue}
  NoPalette = NoPalette
  FRAME_DURATION = 2
  Deltas = {1, 2, 3}
  MAX_ENTITIES = 4
  VERSIONS = 8
  MaxCreate = 4
  NumLayers = 2
  FrameSize = {"small", "large"}
  MaxEvents = 3
SPECIFICATION GamePartsSpec
CHECK_DEADLOCK FALSE
INVARIANT GameTypesOK
INVARIANT DestroysLive
INVARIANT PoolsInOrder
INVARIANT PlayersInStep
PROPERTY RefinesPlayerTable
PROPERTY Steps
INVARIANT GLNeedsContext
INVARIANT LayersOutliveNetwork
INVARIANT Released
PROPERTY UserHeard
