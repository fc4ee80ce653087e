SPECIFICATION Spec
CONSTANTS
  V = 2
  MaxPresses = 2
  MaxRuns = 2
INVARIANTS TypeOK CleanedUp
PROPERTIES StopsWithSimulator GuestsConfigured
