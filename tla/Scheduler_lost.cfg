SPECIFICATION Spec
CONSTANTS
  N = 2
  Delay <- Delay2
  Ms = 2
  StartLag = 1
  Overrun = 1
  Linger = 1
  Broadcast = Broadcast
  OtherMac = OtherMac
  Fragile = {}
  Unwritable = {}
  Horizon = 3
  Patience = 2
  MaxFrames = 1
INVARIANTS NoFrameLost
