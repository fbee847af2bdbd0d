SPECIFICATION Spec
CONSTANTS
  Size = 7
  ByteBits = 3
INVARIANTS TypeOK PaddingClean AllSetMeansAll ShortPayloadClaimsLess
PROPERTY ImplementsSets
