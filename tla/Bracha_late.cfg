SPECIFICATION FairSpec
CONSTANTS
  P = 4
  Msgs = 2
  Settled <- LastOfZero
  Behind = {3}
PROPERTIES AllEnd
