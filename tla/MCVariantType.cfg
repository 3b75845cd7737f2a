CONSTANTS
  Slot = {s1, s2, s3}
  Block = {b1, b2, b3, b4, b5}
  Basic <- BasicTypes
  Type <- Types
  Compose <- Compositions
  Entry = "{ii}"
  NoBlock = NoBlock
  NoType = NoType
SPECIFICATION Spec
SYMMETRY Symmetric
CHECK_DEADLOCK FALSE
INVARIANTS TypeOK SoleOwner
PROPERTIES LossesKnown Values
