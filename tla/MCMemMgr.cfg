CONSTANTS
  Start = 3
  HeaderSize = 2
  Word = 32
  RegionSizes <- MCRegionSizes
  Requests <- MCRequests
SPECIFICATION FairSpec
INVARIANTS
  TypeOK
  TilesRegion
PROPERTIES
  RoomOfBlocks
  FirstFit
  MallocReturns
  HeapSpec
