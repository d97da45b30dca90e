CONSTANTS
  TsBytes = 6
  IdBytes = 4
  PayloadSize = 8
  Dlcs = {0, 2}
  RemoteDlcs = {0, 8}
  ByteValues = {0, 9}
  Capacity = 30
  MaxFrames = 3
  MaxKills = 1
SPECIFICATION FairSpec
INVARIANTS
  TypeOK
  OrderKept
  Aligned
  RefusedOnce
PROPERTIES
  ImplementsChannel
  FramesArrive
  SignalStops
CHECK_DEADLOCK FALSE
