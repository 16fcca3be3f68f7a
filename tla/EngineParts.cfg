CONSTANTS
  A = A
  B = B
  zero = zero
  one = one
  Component <- TwoTypes
  Value = {zero, one}
  Blank <- AllZero
  MAX_ENTITIES = 2
  VERSIONS = 8
  MaxCreate = 4
  Views <- SomeViews
  CHUNK_SIZE_TLS = 2
  USHORT = 8
  UINT = 64
  UCHAR = 16
  Floors <- SomeFloors
  Coords = {0, 1}
  Randomi <- SomeRandomi
  Rect = {r1, r2}
  Atlas = {a1, a2}
  NoAtlas = NoAtlas
  Camera = {k1, k2}
  Sheet = Sheet
  Screen = Screen
  NoTexture = NoTexture
  WindowSize <- SomeSizes
  MaxDraws = 3
  a = a
  b = b
  Source = {a, b}
  Shader = {"batch", "viewport"}
  Name = {n1, n2, n3}
  Uniform = {0, 1}
  Setting = {7}
  NoSetting = NoSetting
  Nobody = Nobody
  NoFile = NoFile
  Broken = Broken
  Match <- SomeMatch
  Location <- SomeLocation
SPECIFICATION EnginePartsSpec
CHECK_DEADLOCK FALSE
INVARIANT EngineTypeOK
INVARIANT SlotsSound
INVARIANT ViewComplete
PROPERTY EachTurnNew
PROPERTY RefinesEntityStore
PROPERTY OthersUntouched
INVARIANT TilemapRight
PROPERTY RefinesChunkMap
PROPERTY NoFlicker
PROPERTY LetterboxedFrames
PROPERTY RefinesPicture
INVARIANT NothingLeaks
INVARIANT UniformsAsAsked
