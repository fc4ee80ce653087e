SPECIFICATION Spec
CONSTANTS
  P = 4
  Msgs = 2
  Settled <- LastOfZero
  Behind = {}
INVARIANTS NoPanic
