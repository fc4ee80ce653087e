SPECIFICATION FairSpec
CONSTANTS
  N = 3
  Delay <- Delay3
  Ms = 1
  StartLag = 0
  Overrun = 0
  Linger = 0
  Broadcast = Broadcast
  OtherMac = OtherMac
  Fragile = {0}
  Unwritable = {0, 1, 2}
  Horizon = 4
  Patience = 2
  MaxFrames = 2
PROPERTIES ImplementsNetwork AllReachHorizon
