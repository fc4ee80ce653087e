SPECIFICATION Spec
CONSTANTS
  N = 2
  Delay <- Delay2
  Ms = 2
  StartLag = 0
  Overrun = 1
  Linger = 1
  Broadcast = Broadcast
  OtherMac = OtherMac
  Fragile = {0}
  Unwritable = {}
  Horizon = 3
  Patience = 2
  MaxFrames = 2
INVARIANTS TypeOK SliceTiming Lookahead
PROPERTIES QueuedInFuture LatencyKept
