CONSTANTS
  Keys <- MCKeys
  NoKey = NoKey
  MouseBytes <- MCMouseBytes
  MaxBytes = 3
SPECIFICATION FairSpec
INVARIANTS
  TypeOK
  FlagsFollowKeys
PROPERTIES
  CommandsTaken
  SpuriousHarmless
  WaitsEnd
