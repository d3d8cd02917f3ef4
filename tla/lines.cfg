SPECIFICATION Spec
INVARIANT TypeOK
INVARIANT Reassembled
INVARIANT NoLineHeldBack
INVARIANT FloodsAreFloods
CONSTANTS
  MaxLine = 3
  HeaderSpaces = 1
  MaxBytes = 6
  MaxConnections = 2
CHECK_DEADLOCK FALSE
