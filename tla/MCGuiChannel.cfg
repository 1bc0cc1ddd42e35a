SPECIFICATION ChSpec
CONSTANTS
  b1 = b1
  b2 = b2
  b3 = b3
  Blocks = {b1, b2, b3}
  Prefilled <- MCPrefilled
  Messages = {m1, m2}
  Nothing = Nothing
  NoBlock = NoBlock
INVARIANTS
  OnePlace
  DispatchNeverBlocks
  NoLostWakeup
PROPERTY ImplementsFifo
