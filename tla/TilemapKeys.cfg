CONSTANTS
  CHUNK_SIZE_TLS = 16
  USHORT = 65536
  UINT = 1073741824
  UCHAR = 256
  Floors <- NoFloors
  Coords = {0, 1, 4}
  Randomi <- NoRandomi
SPECIFICATION TilemapSpec
INVARIANT UnloadedIsAir
