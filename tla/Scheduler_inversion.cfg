SPECIFICATION Spec
CONSTANTS
  N = 2
  Delay <- Delay2
  Ms = 1
  StartLag = 0
  Overrun = 0
  Linger = 1
  Broadcast = Broadcast
  OtherMac = OtherMac
  Fragile = {0}
  Unwritable = {0, 1}
  Horizon = 4
  Patience = 2
  MaxFrames = 3
INVARIANTS LinkOrder StampBounds NoFrameLost NoOverdueFrame
